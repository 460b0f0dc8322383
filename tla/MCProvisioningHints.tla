------------------------ MODULE MCProvisioningHints ------------------------
EXTENDS ProvisioningHints
=============================================================================
