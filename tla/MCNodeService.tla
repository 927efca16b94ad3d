---------------------------- MODULE MCNodeService ----------------------------
EXTENDS NodeService
=============================================================================
