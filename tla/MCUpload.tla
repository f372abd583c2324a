------------------------------ MODULE MCUpload ------------------------------
(* Upload for TLC: a file of five bytes, sent in chunks of two or three.     *)
EXTENDS Upload
=============================================================================
