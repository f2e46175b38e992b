---------------------------- MODULE MCBlobStore ----------------------------
EXTENDS BlobStore
=============================================================================
