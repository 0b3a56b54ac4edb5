--------------------------- MODULE MCBlobShmClient ---------------------------
(* The instances of MCBlobStore with a client of the mirror.                   *)
EXTENDS BlobShmClient, MCBlobStore

CONSTANT c1
=============================================================================
