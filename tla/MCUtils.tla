------------------------------ MODULE MCUtils ------------------------------
(***************************************************************************)
(* The utilities for TLC, in one run: part says which of them a behaviour  *)
(* uses, and the others stay as they are.  They share no state, so that    *)
(* the behaviours of one part are those of its own specification.          *)
(***************************************************************************)
EXTENDS Logger, PommeHash, RingBuffer, FastBit, Stream, TLC

CONSTANTS k1, k2, k3, short, long

VARIABLE part

MCHashOf   == (k1 :> 1) @@ (k2 :> 3) @@ (k3 :> 0)
MCValueLen == (short :> 1) @@ (long :> 2)

\* The items of these sizes, each behind its size, all behind their number.
Layout(sizes) ==
  [i \in 1 .. Len(sizes) |->
     [at  |-> (i + 1) * IntLen + MapThenSumSet(LAMBDA j : sizes[j], 1 .. i - 1),
      len |-> sizes[i]]]

MCRpcMessages == {Layout(s) : s \in {<<2>>, <<2, 1>>, <<0, 3>>, <<1, 2, 2>>}}
MCExpects     == {<<>>, <<2>>, <<AnySize, 1>>, <<0, 3>>, <<AnySize, 2, AnySize>>}

utilsVars == <<part, logVars, hashVars, ringVars, fbVars, streamVars>>

Init ==
  /\ part \in {"log", "hash", "ring", "fastbit", "stream"}
  /\ LogInit /\ HashInit /\ RingInit /\ FbInit /\ StreamInit

Log(A)       == part = "log" /\ A
                /\ UNCHANGED <<part, hashVars, ringVars, fbVars, streamVars>>
Hash(A)      == part = "hash" /\ A
                /\ UNCHANGED <<part, logVars, ringVars, fbVars, streamVars>>
Ring(A)      == part = "ring" /\ A
                /\ UNCHANGED <<part, logVars, hashVars, fbVars, streamVars>>
Bitmap(A)    == part = "fastbit" /\ A
                /\ UNCHANGED <<part, logVars, hashVars, ringVars, streamVars>>
Streaming(A) == part = "stream" /\ A
                /\ UNCHANGED <<part, logVars, hashVars, ringVars, fbVars>>

Next == Log(LogNext) \/ Hash(HashNext) \/ Ring(RingNext) \/ Bitmap(FbNext)
          \/ Streaming(StreamNext)

\* LogFairness, RingFairness and StreamFairness, each in its part.
Fairness ==
  /\ WF_utilsVars(Log(Writer))
  /\ \A t \in Callers : WF_utilsVars(Log(Caller(t)))
  /\ WF_utilsVars(Log(StopReturns))
  /\ WF_utilsVars(Ring(Provider)) /\ WF_utilsVars(Ring(Consumer))
  /\ WF_utilsVars(Streaming(Reader))

\* Every variable has its type; more under each module's own invariant.
UtilsTypeOK ==
  /\ part \in {"log", "hash", "ring", "fastbit", "stream"}
  /\ LogTypeOK /\ HashTypeOK /\ RingTypeOK /\ FbTypeOK /\ StreamTypeOK

Spec == Init /\ [][Next]_utilsVars /\ Fairness

=============================================================================
