------------------------------ MODULE MCCoreLink ------------------------------
(***************************************************************************)
(* CoreLink with each address a byte of its own: a map without mirrors.    *)
(***************************************************************************)
EXTENDS CoreLink

Plain == [a \in Addrs |-> a]
=============================================================================
