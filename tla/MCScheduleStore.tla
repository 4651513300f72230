--------------------------- MODULE MCScheduleStore ---------------------------
(* Small instances of ScheduleStore; every bound is a constant of the cfg. *)
EXTENDS ScheduleStore, TLC

ClientSymmetry == Permutations(Clients)

DateSymmetry == Permutations(Dates)
=============================================================================
