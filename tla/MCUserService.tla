---------------------------- MODULE MCUserService ----------------------------
EXTENDS UserService
=============================================================================
