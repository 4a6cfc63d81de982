---------------------------- MODULE MCVendorCall ----------------------------
(* One call, every sequence of answers up to the default cap.              *)
EXTENDS VendorCall
=============================================================================
