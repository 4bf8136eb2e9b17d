----------------------- MODULE MCAuthenticationInApp ------------------------
EXTENDS AuthenticationInApp

=============================================================================
