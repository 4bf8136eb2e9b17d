---------------------------- MODULE MCMozillaVPN ----------------------------
EXTENDS MozillaVPN

=============================================================================
