----------------------------- MODULE MCConsole -----------------------------
(***************************************************************************)
(* Console with the formats TLC tries.                                     *)
(***************************************************************************)
EXTENDS Console, SequencesExt

Given(n) == [char |-> "a", string |-> <<"s", "t">>, number |-> n]
Args(n)  == <<Given(n), Given(100)>>

(* The main thread tries every format of up to two characters, and some    *)
(* longer ones with the numbers at the edges: of INT_MAX before and behind *)
(* a number, and of buf.  A handler prints a character, one that           *)
(* interrupts it a number in base 2, as the dump does.                     *)
MainCalls ==
  [format : SeqOf({"%", "d", "s", "l"}, 2), args : {Args(-128)}] \union
  [format : {<<"%", "d", "l", "%", "x">>}, args : {Args(-128), Args(-1)}] \union
  [format : {<<"l", "%", "d", "l">>}, args : {Args(-128)}] \union
  [format : {<<"%", "b", "%", "d">>}, args : {Args(31), Args(15)}] \union
  [format : {<<"%", "%", "%", "d">>}, args : {Args(0), Args(127)}]

MCCalls ==
  [k \in Levels |->
     CASE k = 0 -> MainCalls
       [] k = 1 -> {[format |-> <<"%", "c">>, args |-> Args(0)]}
       [] OTHER -> {[format |-> <<"%", "b">>, args |-> Args(31)]}]

(* A number may come out with other digits, or end early.                  *)
MCGarbage == {<<>>, <<"1", "?">>}

---------------------------------------------------------------------------
(* Every call of printf returns, also when the port is missing or in       *)
(* loopback, unless an exception halts the kernel or a number in base 2    *)
(* was written behind buf.                                                 *)
Stopped == \E j \in Levels : Runs(j, "lost") \/ (Runs(j, "return") /\ call[j].halts)

PrintfReturns ==
  \A k \in Levels : pc[k] \in {"print", "send"} ~> pc[k] \in {"return", "idle"} \/ Stopped
============================================================================
