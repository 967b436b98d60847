---------------------------- MODULE MCController ----------------------------
(***************************************************************************)
(* Entries for the alarm pages of Controller.  cfg files cannot write      *)
(* records, so they name these definitions.                                *)
(***************************************************************************)
EXTENDS Controller

Entry(m, t, l) == [mode |-> m, minute |-> t, lux |-> l]

LightOnly   == {Entry(LICHT, 1, 1)}
TimeOnly    == {Entry(ZEIT, 1, 1)}
BothOnly    == {Entry(LICHT_ZEIT, 2, 1)}
TimeOrBoth  == TimeOnly \cup BothOnly

EveryDay == {WeekDays}
=============================================================================
