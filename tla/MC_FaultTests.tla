---------------------------- MODULE MC_FaultTests -----------------------------
(***************************************************************************)
(* The whole suite, in windows: any test alone, which follows itself from  *)
(* round to round, and any two neighbours in a round of one of the         *)
(* releases if the second one does not come with the setup of the first.   *)
(***************************************************************************)
EXTENDS FaultTests

MCVersions == <<<<2, 1, 0>>, <<2, 5, 0>>>>

(* Releases whose rounds differ.                                           *)
Rounds == {<<2, 1, 0>>, <<2, 2, 1>>, <<2, 5, 0>>}

(* The places of the tests of a round, in the order they are run.          *)
Order(v) ==
  FlattenSeq([c \in DOMAIN make_suite |->
    LET tc == Len(make_suite) + 1 - c IN
    SelectSeq([k \in DOMAIN make_suite[tc].tests |-> <<tc, k>>],
              LAMBDA p : MIN_VERSION(v, make_suite[p[1]].tests[p[2]].since))])

Orders == {Order(v) : v \in Rounds}

Neighbours ==
  UNION {{{o[k], o[k + 1]} : k \in {l \in 1 .. Len(o) - 1 :
            \/ o[l][1] # o[l + 1][1]
            \/ make_suite[o[l][1]].setup = "none"}} : o \in Orders}

Singles == {{p} : p \in UNION {Range(o) : o \in Orders}}

Window(P) ==
  [c \in DOMAIN make_suite |->
    LET places == SelectSeq([k \in DOMAIN make_suite[c].tests |-> k], LAMBDA k : <<c, k>> \in P)
    IN  [make_suite[c] EXCEPT !.tests = [k \in DOMAIN places |-> make_suite[c].tests[places[k]]]]]

MCSuites == {Window(P) : P \in Neighbours \union Singles}

===============================================================================
