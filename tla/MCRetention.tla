---------------------------- MODULE MCRetention ----------------------------
(* One curated run, provisioned at every start, beside a visitor's. *)
EXTENDS Retention

CONSTANT c1

MCCurated == <<c1>>
=============================================================================
