------------------------------ MODULE MCClientStub -----------------------------
(* ClientStub with each server started a few times. *)
EXTENDS ClientStub
=============================================================================
