---------------------------- MODULE MCLogQueries ----------------------------
(***************************************************************************)
(* A small instance of LogQueries: readings and alarms that repeat and     *)
(* change together, apart, or not at all.                                  *)
(***************************************************************************)
EXTENDS LogQueries

MCBit == {1, 2}
Row(date, counter, alarms) == [date |-> date, counter |-> counter, alarms |-> alarms]
MCRow == {Row(0, 0, {}), Row(0, 0, {1}), Row(0, 1, {1, 2}), Row(1, 1, {1}), Row(1, 2, {1})}

\* Directions and arguments matter to three of the bases.
Ask(tag, bases, arg, up, amounts, filters) ==
  [tag : {tag}, base : bases, arg : {arg}, up : up, amount : amounts, filter : filters]

\* With an int of -4..3, 7 is -1.
TableAsking ==
  Ask("table", {"last", "first"}, 0, {FALSE}, {0, 1, 2, 3, 7}, {{}})
    \cup Ask("table", {"id"}, 2, BOOLEAN, {1, 2, 7}, {{}})
    \cup Ask("table", {"date", "counter"}, 1, BOOLEAN, {1, 2}, {{}})
AlarmAsking ==
  Ask("alarms", {"last", "first"}, 0, {FALSE}, {1, 2}, {{1}, {1, 2}})
    \cup Ask("alarms", {"id"}, 2, BOOLEAN, {1, 2}, {{1}, {1, 2}})
MCAsking == TableAsking \cup AlarmAsking
=============================================================================
