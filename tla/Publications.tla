---------------------------- MODULE Publications ----------------------------
(***************************************************************************)
(* One file publication: the tool call that freezes a snapshot of a file   *)
(* and uploads it (runtime/allies_runtime/publication_bridge.py and        *)
(* files.py), the recovery pass that resumes it without the model, the     *)
(* intent Foundry keeps for it (backend/runtime/services/publications.py), *)
(* and the pass of the Foundry worker that wakes its workspace.            *)
(*                                                                         *)
(* Every handler of Foundry is a transaction, a request to Cloud and a     *)
(* second transaction.  The runtime waits ten seconds for an answer and    *)
(* Foundry up to 120 for Cloud's, so a handler may go on long after its    *)
(* caller has given up or died, and record its answer late.                *)
(*                                                                         *)
(* Cloud is external: it registers a publication once, takes uploads of    *)
(* its current revision, validates them, and gives a failed one that the   *)
(* user tries again a new revision, which it offers until it is answered.  *)
(* A publication's files are one file; digests, sizes, lease tokens and    *)
(* the failure placeholder of Cloud are left out.                          *)
(*                                                                         *)
(* A definition named ...Fault is a faulty variant of the one after it; no *)
(* specification uses it, the mutation runs put it in the other's place.   *)
(***************************************************************************)
EXTENDS Naturals

CONSTANTS
    MaxAttempts,   \* MAX_PUBLICATION_ATTEMPTS
    MaxRev,        \* bound: revisions the user asks for
    MaxLosses      \* bound: refused and lost requests, callers that give up, crashes

ASSUME PublicationAssumption ==
    MaxAttempts \in Nat \ {0} /\ MaxRev \in Nat \ {0} /\ MaxLosses \in Nat

VARIABLES
    row,      \* the PublicationIntent
    cloud,    \* Cloud's publication
    vol,      \* the ledger record, the copy, the snapshot and its journal
    pc,       \* what the tool call and the recovery pass do next
    mem,      \* the revisions they hold, and what the pass found on the volume
    call,     \* the handler each of them waits for
    late,     \* handlers nobody waits for
    up,       \* the runtime runs
    losses    \* requests refused or lost, callers that gave up, crashes, so far

pubVars == <<row, cloud, vol, pc, mem, call, late, up, losses>>

Callers == {"tool", "recover"}

NoIntent == [state |-> "none", manifest |-> FALSE, attempts |-> 0, due |-> FALSE,
             rev |-> 0, retryRev |-> 0]
NoRecord == [ledger |-> "none", old |-> FALSE, copy |-> FALSE, snap |-> FALSE,
             journal |-> FALSE]
NoMemory == [tool |-> 0, recover |-> 0, has |-> FALSE]
NoCall == [op |-> "none", at |-> "none", rev |-> 0, ok |-> FALSE, view |-> "none", got |-> 0]

PublicationInit ==
    /\ row = NoIntent /\ cloud = [state |-> "none", rev |-> 0] /\ vol = NoRecord
    /\ pc = [tool |-> "none", recover |-> "start"] /\ mem = NoMemory
    /\ call = [c \in Callers |-> NoCall] /\ late = {}
    /\ up = TRUE /\ losses = 0

Loss == losses < MaxLosses /\ losses' = losses + 1

-----------------------------------------------------------------------------
(* The intent *)

Open(i) == i.state \in {"frozen", "registered", "failed"}
Retryable(i) == i.state = "failed" /\ i.attempts < MaxAttempts /\ i.due

\* acknowledge_frozen_publication, before its request
Frozen(i) == IF i.manifest THEN i
             ELSE [i EXCEPT !.manifest = TRUE, !.state = "frozen", !.due = TRUE]
ShouldRegister(i) == i.state = "frozen" \/ Retryable(i)

SetRegistered(r) ==
    IF row.state = "ready" \/ ~row.manifest THEN row
    ELSE [row EXCEPT !.state = "registered", !.rev = r, !.due = TRUE]

\* revision is 0 when the caller does not give one
SetFailure(revision) ==
    CASE row.state = "ready" \/ ~row.manifest -> row
      [] revision # 0 /\ row.state = "failed" /\ row.rev = revision -> row
      [] OTHER -> [row EXCEPT !.state = "failed",
                              !.attempts = IF @ < MaxAttempts THEN @ + 1 ELSE @,
                              !.due = row.attempts + 1 >= MaxAttempts]

\* get_publication: a terminal view of the revision the row knows
SetTerminalFault(view, r) ==
    IF r = row.rev /\ row.state # "ready" /\ view \in {"ready", "failed"}
    THEN [row EXCEPT !.state = view] ELSE row
SetTerminal(view, r) ==
    CASE r = row.rev /\ view = "ready" -> [row EXCEPT !.state = "ready"]
      [] r = row.rev /\ view = "failed" /\ row.state # "ready" ->
            [row EXCEPT !.state = "failed", !.attempts = MaxAttempts, !.due = TRUE]
      [] OTHER -> row

\* _admit_cloud_retry
AdmitsFault(r) == Open(row) /\ row.manifest /\ r > row.rev
Admits(r) ==
    /\ Open(row) /\ row.manifest /\ r >= row.rev
    /\ r = row.rev => row.state = "registered" \/ row.retryRev = r
RetryAdmitted(r) ==
    IF r = row.rev /\ row.state = "registered" THEN row
    ELSE [row EXCEPT !.state = "registered", !.rev = r, !.retryRev = r, !.due = TRUE]

-----------------------------------------------------------------------------
(* Handlers: the first transaction, Cloud's answer, the second transaction *)

Authorized(op, rev) ==
    CASE op = "freeze" -> row.manifest \/ row.state = "preparing"
      [] op = "register" -> row.manifest /\ (row.state = "failed" => Retryable(row))
      [] op = "upload" -> row.state = "registered" /\ row.rev = rev
      [] op \in {"failed", "submitted"} -> row.rev = rev
      [] OTHER -> row.state # "none"

Offered == cloud.rev > 1 /\ cloud.state = "uploading"

\* What Cloud does with a request.
CloudOk(h) ==
    CASE h.op \in {"freeze", "register", "claim"} -> TRUE
      [] h.op = "upload" -> h.rev = cloud.rev /\ cloud.state # "failed"
      [] h.op \in {"failed", "submitted"} -> h.rev = cloud.rev
      [] OTHER -> cloud.state # "none"
CloudAfter(h) ==
    CASE h.op \in {"freeze", "register"} /\ cloud.state = "none" ->
            [state |-> "uploading", rev |-> 1]
      [] h.op = "upload" /\ CloudOk(h) /\ cloud.state = "uploading" ->
            [cloud EXCEPT !.state = "validating"]
      [] h.op = "failed" /\ CloudOk(h) /\ cloud.state = "uploading" ->
            [cloud EXCEPT !.state = "failed"]
      [] OTHER -> cloud
Answer(h) ==
    [h EXCEPT !.at = "answered", !.ok = CloudOk(h),
              !.view = IF h.op = "get" /\ cloud.state # "validating" THEN cloud.state ELSE "none",
              !.got = CASE h.op = "get" -> IF cloud.state = "validating" THEN 0 ELSE cloud.rev
                        [] h.op \in {"freeze", "register"} -> CloudAfter(h).rev
                        [] h.op = "claim" /\ Offered -> cloud.rev
                        [] OTHER -> 0]
Refused(h) == [h EXCEPT !.at = "answered"]
NoAnswer(h) == [h EXCEPT !.at = "answered", !.ok = FALSE, !.got = 0]

\* The second transaction, and the answer to the caller.
RegisterRecorded(h) == IF h.ok THEN SetRegistered(h.got) ELSE SetFailure(0)
UploadRecorded(h) == IF h.ok THEN row ELSE SetFailure(h.rev)
RetryRecorded(h) == IF h.ok /\ h.op = "failed" THEN SetFailure(h.rev) ELSE row
ClaimRecorded(h) == IF h.got # 0 /\ Admits(h.got) THEN RetryAdmitted(h.got) ELSE row
Recorded(h) ==
    CASE h.op \in {"freeze", "register"} -> RegisterRecorded(h)
      [] h.op = "upload" -> UploadRecorded(h)
      [] h.op \in {"failed", "submitted"} -> RetryRecorded(h)
      [] h.op = "claim" -> ClaimRecorded(h)
      [] h.op = "get" -> IF h.ok THEN SetTerminal(h.view, h.got) ELSE row
Reply(h) ==
    [h EXCEPT !.ok = h.ok \/ h.op = "freeze",
              !.got = IF h.op = "claim" /\ h.got # 0 /\ ~Admits(h.got) THEN 0 ELSE @]

Goto(c, at) == pc' = [pc EXCEPT ![c] = at]

ToolNextFault(h) ==
    IF ~h.ok THEN "done"
    ELSE CASE h.op = "freeze" -> "register"
           [] h.op = "register" -> "upload"
           [] h.op = "get" /\ h.view \in {"ready", "failed"} -> "release"
           [] OTHER -> "get"
ToolNext(h) ==
    IF ~h.ok THEN "done"
    ELSE CASE h.op = "freeze" -> "register"
           [] h.op = "register" -> "upload"
           [] h.op = "get" /\ h.view = "ready" -> "release"
           [] h.op = "get" /\ h.view = "failed" -> "done"
           [] OTHER -> "get"

RecoveryNext(h) ==
    CASE pc.recover = "freeze" -> IF h.ok THEN "get" ELSE "claim"
      [] pc.recover = "get" ->
            CASE h.ok /\ h.view = "ready" -> "release"
              [] h.ok /\ h.view = "uploading" /\ h.got = 1 -> "upload"
              [] OTHER -> "claim"
      [] pc.recover = "upload" -> "claim"
      [] pc.recover = "claim" /\ h.got # 0 -> IF mem.has THEN "retry" ELSE "failed"
      [] pc.recover = "retry" /\ h.ok -> "submitted"
      [] pc.recover = "submitted" /\ h.ok -> "check"
      [] pc.recover = "check" /\ h.ok /\ h.view = "ready" -> "release"
      [] OTHER -> "idle"

\* c goes on with the answer h.
Continue(c, h) ==
    /\ Goto(c, IF c = "tool" THEN ToolNext(h) ELSE RecoveryNext(h))
    /\ mem' = IF pc[c] \in {"register", "claim"} THEN [mem EXCEPT ![c] = h.got]
              ELSE CASE pc'[c] = "idle" -> [mem EXCEPT !.recover = 0, !.has = FALSE]
                     [] pc'[c] = "done" -> [mem EXCEPT !.tool = 0]
                     [] OTHER -> mem

\* c calls Foundry; a first transaction that refuses, or leaves nothing to ask
\* Cloud for, answers at once.
Ask(c, op, rev) ==
    LET h == [NoCall EXCEPT !.op = op, !.rev = rev, !.at = "sent"] IN
    /\ call[c] = NoCall
    /\ \/ /\ Authorized(op, rev)
          /\ row' = IF op = "freeze" THEN Frozen(row) ELSE row
          /\ IF op = "freeze" => ShouldRegister(row')
             THEN call' = [call EXCEPT ![c] = h] /\ UNCHANGED <<pc, mem>>
             ELSE Continue(c, [h EXCEPT !.ok = TRUE]) /\ UNCHANGED call
       \/ ~Authorized(op, rev) /\ Continue(c, h) /\ UNCHANGED <<row, call>>
    /\ UNCHANGED <<cloud, vol, late, up, losses>>

CloudAnswers(c) ==
    /\ call[c].at = "sent" /\ cloud' = CloudAfter(call[c])
    /\ call' = [call EXCEPT ![c] = Answer(@)]
    /\ UNCHANGED <<row, vol, pc, mem, late, up, losses>>

CloudAnswersLate ==
    /\ \E h \in late : /\ h.at = "sent" /\ cloud' = CloudAfter(h)
                      /\ late' = (late \ {h}) \union {Answer(h)}
    /\ UNCHANGED <<row, vol, pc, mem, call, up, losses>>

\* Cloud refuses, or its answer does not arrive: then the handler raises, its
\* second transaction is skipped and Cloud may have applied the request.
CloudFails ==
    /\ \E c \in Callers :
          /\ call[c].at = "sent"
          /\ \/ call' = [call EXCEPT ![c] = Refused(@)] /\ UNCHANGED <<cloud, pc, mem>>
             \/ /\ call' = [call EXCEPT ![c] = NoCall] /\ Continue(c, NoAnswer(call[c]))
                /\ cloud' \in {cloud, CloudAfter(call[c])}
    /\ Loss /\ UNCHANGED <<row, vol, late, up>>

\* No loss of its own: giving up on the handler was one.
CloudFailsLate ==
    /\ \E h \in late :
          /\ h.at = "sent"
          /\ \/ late' = (late \ {h}) \union {Refused(h)} /\ UNCHANGED cloud
             \/ late' = late \ {h} /\ cloud' \in {cloud, CloudAfter(h)}
    /\ UNCHANGED <<row, vol, pc, mem, call, up, losses>>

RecordAnswer(c) ==
    /\ call[c].at = "answered" /\ row' = Recorded(call[c])
    /\ Continue(c, Reply(call[c])) /\ call' = [call EXCEPT ![c] = NoCall]
    /\ UNCHANGED <<cloud, vol, late, up, losses>>

RecordLate ==
    /\ \E h \in late : h.at = "answered" /\ row' = Recorded(h) /\ late' = late \ {h}
    /\ UNCHANGED <<cloud, vol, pc, mem, call, up, losses>>

\* The caller stops waiting and the handler goes on.
GiveUp ==
    /\ \E c \in Callers :
          /\ call[c] # NoCall /\ Continue(c, NoAnswer(call[c]))
          /\ late' = late \union {call[c]} /\ call' = [call EXCEPT ![c] = NoCall]
    /\ Loss /\ UNCHANGED <<row, cloud, vol, up>>

-----------------------------------------------------------------------------
(* The volume *)

HasSnapshot(v) == v.journal /\ v.snap

\* reconcile_publication_spools: finish releases, charge what is committed.
Reconciled(v) ==
    CASE v.ledger = "releasing" -> NoRecord
      [] v.ledger # "releasing" /\ HasSnapshot(v) -> [v EXCEPT !.ledger = "frozen"]
      [] OTHER -> v

\* cleanup_stale_publication_copies
Cleaned(v) == IF v.ledger = "copying" /\ v.old /\ ~v.journal THEN NoRecord ELSE v

\* Twenty-four hours after a reservation; a running copy does not take as long.
ReservationAges ==
    /\ vol.ledger = "copying" /\ ~vol.old
    /\ pc.tool \notin {"copy", "commit", "journal", "mark"}
    /\ vol' = [vol EXCEPT !.old = TRUE]
    /\ UNCHANGED <<row, cloud, pc, mem, call, late, up, losses>>

\* What follows a release: the rest of the pass has nothing left to upload.
Released(c) ==
    /\ Goto(c, IF c = "tool" THEN "done" ELSE "idle")
    /\ mem' = IF c = "tool" THEN [mem EXCEPT !.tool = 0]
              ELSE [mem EXCEPT !.recover = 0, !.has = FALSE]

\* release_publication_spool
MarkReleasing(c) ==
    /\ pc[c] = "release"
    /\ IF vol.ledger \in {"frozen", "releasing"}
       THEN Goto(c, "remove") /\ vol' = [vol EXCEPT !.ledger = "releasing"] /\ UNCHANGED mem
       ELSE Released(c) /\ UNCHANGED vol
    /\ UNCHANGED <<row, cloud, call, late, up, losses>>

\* _complete_publication_release and _release_publication
RemoveSnapshot(c) ==
    /\ pc[c] = "remove" /\ Goto(c, "unlink")
    /\ vol' = [vol EXCEPT !.snap = FALSE]
    /\ UNCHANGED <<row, cloud, mem, call, late, up, losses>>
RemoveJournal(c) ==
    /\ pc[c] = "unlink" /\ Goto(c, "unreserve")
    /\ vol' = [vol EXCEPT !.journal = FALSE]
    /\ UNCHANGED <<row, cloud, mem, call, late, up, losses>>
Unreserve(c) ==
    /\ pc[c] = "unreserve" /\ Released(c)
    /\ vol' = [vol EXCEPT !.ledger = "none"]
    /\ UNCHANGED <<row, cloud, call, late, up, losses>>

-----------------------------------------------------------------------------
(* publish *)

\* prepare_publication_files and create_publication_intent
CreateIntent ==
    /\ up /\ pc.tool = "none"
    /\ row' = [NoIntent EXCEPT !.state = "preparing", !.due = TRUE]
    /\ \/ Goto("tool", "reserve") /\ UNCHANGED losses
       \/ Goto("tool", "done") /\ Loss   \* the answer is lost
    /\ UNCHANGED <<cloud, vol, mem, call, late, up>>

\* freeze_publication, from the reservation to the ledger's last entry
Reserve ==
    /\ pc.tool = "reserve"
    /\ \/ /\ Goto("tool", "copy") /\ UNCHANGED losses
          /\ vol' = [Reconciled(vol) EXCEPT !.ledger = "copying", !.copy = TRUE]
       \/ Goto("tool", "done") /\ Loss /\ UNCHANGED vol   \* no capacity
    /\ UNCHANGED <<row, cloud, mem, call, late, up>>

FreezeStep(at, then, after) ==
    /\ pc.tool = at
    /\ \/ vol' = after /\ Goto("tool", then) /\ UNCHANGED losses
       \/ /\ Loss /\ Goto("tool", "done")   \* the error path of freeze_publication
          /\ \E ledger \in {"none", "copying"} :   \* the ledger may not be writable either
                vol' = [NoRecord EXCEPT !.journal = vol.journal, !.ledger = ledger]
    /\ UNCHANGED <<row, cloud, mem, call, late, up>>
CommitCopy == FreezeStep("copy", "journal", [vol EXCEPT !.copy = FALSE, !.snap = TRUE])
WriteJournal == FreezeStep("journal", "mark", [vol EXCEPT !.journal = TRUE])
MarkFrozen == FreezeStep("mark", "freeze", [vol EXCEPT !.ledger = "frozen"])

ToolAsks ==
    \/ pc.tool \in {"freeze", "register", "get"} /\ Ask("tool", pc.tool, 0)
    \/ pc.tool = "upload" /\ HasSnapshot(vol) /\ Ask("tool", "upload", mem.tool)

\* The turn is over, five minutes have passed, or the snapshot is gone.
ToolStops ==
    /\ call.tool = NoCall /\ pc.tool \in {"reserve", "freeze", "register", "upload", "get"}
    /\ Goto("tool", "done") /\ mem' = [mem EXCEPT !.tool = 0]
    /\ UNCHANGED <<row, cloud, vol, call, late, up, losses>>

-----------------------------------------------------------------------------
(* recover *)

StartRecovery ==
    /\ up /\ pc.recover \in {"start", "idle"}
    /\ vol' = Cleaned(vol)
    /\ mem' = [mem EXCEPT !.has = HasSnapshot(vol')]
    /\ Goto("recover", IF HasSnapshot(vol') THEN "freeze" ELSE "claim")
    /\ UNCHANGED <<row, cloud, call, late, up, losses>>

RecoveryAsks ==
    \/ pc.recover \in {"freeze", "get", "claim"} /\ Ask("recover", pc.recover, 0)
    \/ pc.recover = "check" /\ Ask("recover", "get", 0)
    \/ pc.recover = "upload" /\ HasSnapshot(vol) /\ Ask("recover", "upload", 1)
    \/ pc.recover = "retry" /\ HasSnapshot(vol) /\ Ask("recover", "upload", mem.recover)
    \/ pc.recover \in {"failed", "submitted"} /\ Ask("recover", pc.recover, mem.recover)

\* The snapshot is gone before it is read: an upload is skipped, a retry is
\* reported as failed.
SnapshotGone ==
    /\ call.recover = NoCall /\ ~HasSnapshot(vol)
    /\ \/ pc.recover = "upload" /\ Goto("recover", "claim")
       \/ pc.recover = "retry" /\ Goto("recover", "failed")
    /\ UNCHANGED <<row, cloud, vol, mem, call, late, up, losses>>

-----------------------------------------------------------------------------
(* The runtime, the Foundry worker, the user and Cloud *)

Ended == [tool |-> IF pc.tool = "none" THEN "none" ELSE "done", recover |-> "start"]

RuntimeCrash ==
    /\ up /\ up' = FALSE /\ Loss
    /\ late' = late \union {h \in {call[c] : c \in Callers} : h.at \in {"sent", "answered"}}
    /\ call' = [c \in Callers |-> NoCall] /\ pc' = Ended /\ mem' = NoMemory
    /\ UNCHANGED <<row, cloud, vol>>

\* The idle stop: minutes without work, after the pass that follows a start.
IdleStop ==
    /\ up /\ up' = FALSE
    /\ pc.recover = "idle" /\ pc.tool \in {"none", "done"}
    /\ mem' = NoMemory /\ Goto("recover", "start")
    /\ UNCHANGED <<row, cloud, vol, call, late, losses>>

\* wake_due_publications: what Foundry knows is due, and what Cloud offers.  A
\* registered row is due every minute; the minute is not modelled.
WakeDue ==
    /\ Open(row) /\ row.manifest /\ row.due
    /\ row.state = "registered" \/ row.attempts < MaxAttempts
CloudDue == Offered /\ Open(row) /\ row.manifest

\* A started runtime reconciles its spools before it serves.  Other work of the
\* workspace may start it at any time.
Start ==
    /\ ~up /\ up' = TRUE /\ vol' = Cleaned(Reconciled(vol))
    /\ UNCHANGED <<row, cloud, pc, mem, call, late, losses>>
Wake == (WakeDue \/ CloudDue) /\ Start

\* The backoff of a failed registration is over.
DueAgain ==
    /\ row.state = "failed" /\ ~row.due /\ row' = [row EXCEPT !.due = TRUE]
    /\ UNCHANGED <<cloud, vol, pc, mem, call, late, up, losses>>

CloudValidates ==
    /\ cloud.state = "validating"
    /\ \E s \in {"ready", "failed"} : cloud' = [cloud EXCEPT !.state = s]
    /\ UNCHANGED <<row, vol, pc, mem, call, late, up, losses>>

UserRetries ==
    /\ cloud.state = "failed" /\ cloud.rev < MaxRev
    /\ cloud' = [state |-> "uploading", rev |-> cloud.rev + 1]
    /\ UNCHANGED <<row, vol, pc, mem, call, late, up, losses>>

-----------------------------------------------------------------------------
Publish ==
    \/ Reserve \/ CommitCopy \/ WriteJournal \/ MarkFrozen
    \/ ToolAsks \/ ToolStops
Recover == StartRecovery \/ RecoveryAsks \/ SnapshotGone
Release == \E c \in Callers :
    MarkReleasing(c) \/ RemoveSnapshot(c) \/ RemoveJournal(c) \/ Unreserve(c)

Answered(c) == CloudAnswers(c) \/ RecordAnswer(c)
Late == CloudAnswersLate \/ RecordLate

PublicationNext ==
    \/ CreateIntent \/ Publish \/ Recover \/ Release
    \/ \E c \in Callers : Answered(c)
    \/ Late \/ CloudFails \/ CloudFailsLate \/ GiveUp
    \/ ReservationAges \/ RuntimeCrash \/ IdleStop
    \/ Start \/ DueAgain \/ CloudValidates \/ UserRetries

(***************************************************************************)
(* The event loop runs both coroutines, Foundry's processes finish their   *)
(* requests within Cloud's timeout, the worker passes every second, clocks *)
(* advance, and Cloud validates.                                           *)
(***************************************************************************)
PublicationSpec ==
    /\ PublicationInit /\ [][PublicationNext]_pubVars
    /\ WF_pubVars(Publish) /\ WF_pubVars(Recover) /\ WF_pubVars(Release)
    /\ \A c \in Callers : WF_pubVars(Answered(c))
    /\ WF_pubVars(Late)
    /\ WF_pubVars(Wake) /\ WF_pubVars(DueAgain) /\ WF_pubVars(CloudValidates)

-----------------------------------------------------------------------------
\* Every copy and snapshot on the volume is charged to the profile's budget,
\* also after a crash between two steps of a copy, a release or a cleanup
\* (_reserve_publication, _complete_publication_release).
DiskIsCharged == vol.copy \/ vol.snap => vol.ledger # "none"

\* The intent keeps the constraints of its table: a manifest exactly while it is
\* open or ready, and no revision that Cloud has not given.
PublicationTypeOK ==
    /\ row \in [state : {"none", "preparing", "frozen", "registered", "ready", "failed"},
                manifest : BOOLEAN, attempts : 0..MaxAttempts, due : BOOLEAN,
                rev : 0..MaxRev, retryRev : 0..MaxRev]
    /\ row.manifest <=> Open(row) \/ row.state = "ready"
    /\ row.state = "registered" => row.rev > 0
    /\ cloud.state \in {"none", "uploading", "validating", "ready", "failed"}
    /\ cloud.rev \in 0..MaxRev /\ row.rev <= cloud.rev
    /\ vol \in [ledger : {"none", "copying", "frozen", "releasing"}, old : BOOLEAN,
                copy : BOOLEAN, snap : BOOLEAN, journal : BOOLEAN]
    /\ ~up => call = [c \in Callers |-> NoCall] /\ pc = Ended
    /\ losses \in 0..MaxLosses

\* A failed ledger entry removes the snapshot and leaves its journal.
JournalWithoutSnapshot == vol.journal /\ ~vol.snap /\ vol.ledger \in {"none", "copying"}

\* What Foundry was told is frozen stays on the volume until Cloud has it
\* (release_publication_spool: "only after Cloud has a durable ready receipt").
\* Excepted, see README: the ledger cannot be written after the journal was.
SnapshotOutlivesUpload ==
    /\ PublicationTypeOK /\ DiskIsCharged
    /\ row.manifest /\ cloud.state # "ready" => HasSnapshot(vol) \/ JournalWithoutSnapshot

\* A registration that Cloud answered before a retry waits to be recorded after
\* it, and will put the revision back (_set_registered compares nothing).
StaleRegistration ==
    \E h \in late \union {call[c] : c \in Callers} :
        h.op \in {"freeze", "register"} /\ h.ok /\ h.got < row.rev

\* A publication stops waking its workspace (_wake_publication_workspaces).
WakesEnd == []~StaleRegistration => <>[](~WakeDue \/ JournalWithoutSnapshot)

\* A revision that a registration brought in is not admitted as a retry once the
\* attempts have run out (_admit_cloud_retry, the equal revision).
NotAdmitted ==
    /\ row.state = "failed" /\ row.attempts = MaxAttempts
    /\ row.rev = cloud.rev /\ row.retryRev # row.rev

\* A revision the user asks for is uploaded or reported as failed, whatever the
\* intent went through before (_admit_cloud_retry, recover).
RetriesAreAnswered == Offered ~> ~Offered \/ NotAdmitted
=============================================================================
