---------------------------- MODULE OctetStrings ----------------------------
(***************************************************************************)
(* What struct Buffer promises (src/buffer/buffer.h): objects whose value  *)
(* is a string of octets, each changed by its own calls and by nothing     *)
(* else.  The promise does not cover objects that the compiler has copied  *)
(* (mates): a call on one of them may change the values of the others.     *)
(***************************************************************************)
EXTENDS Integers, Sequences

CONSTANTS
  Objects,
  Strings,     \* octets that calls are given
  Lengths,     \* lengths and indices
  None, Lost   \* Lost: the value of an object whose memory is gone

VARIABLES values, mates

Exists(o) == values[o] # None
Known(o) == values[o] \notin {None, Lost}

Init ==
  /\ values = [o \in Objects |-> None]
  /\ mates = {}

Create(o) ==
  /\ ~Exists(o)
  /\ values'[o] \in {<<>>} \union Strings
  /\ mates' = mates

Destroy(o) ==
  /\ Exists(o)
  /\ values'[o] = None
  /\ mates' = mates \ {o}

\* A copy that the compiler makes.
Share(o, a) ==
  /\ ~Exists(o) /\ Exists(a)
  /\ values'[o] = values[a]
  /\ mates' = mates \union {o, a}

\* s lies behind the first at octets of o, and what else there was is there still.
\* Octets between the old end and s are arbitrary.
Place(o, s, at) ==
  /\ Exists(o) /\ values'[o] \notin {None, Lost}
  /\ s # <<>> => at + Len(s) <= Len(values'[o])
  /\ \A i \in 1 .. Len(s) : values'[o][at + i] = s[i]
  /\ Known(o) =>
       \A i \in 1 .. Len(values'[o]) :
         i <= Len(values[o]) /\ i \notin at + 1 .. at + Len(s) => values'[o][i] = values[o][i]
  /\ mates' = mates

\* Append and Copy, of another object.
Copy(o, a, at) ==
  /\ Known(a)
  /\ Place(o, values[a], at)
  /\ Len(values'[o]) = at + Len(values[a])

Assign(o, a) ==
  /\ Exists(o) /\ Known(a)
  /\ values'[o] = values[a]
  /\ mates' = mates

\* The calls that are given octets; they end the string or leave its length.
Write(o, s, at) ==
  /\ Place(o, s, at)
  /\ Known(o) => Len(values'[o]) \in {at + Len(s), Len(values[o])}

Resize(o, n) ==
  /\ Place(o, <<>>, 0)
  /\ Len(values'[o]) = n

\* A call on a mate may leave it with memory that is not its own.
Lose(o) ==
  /\ Exists(o) /\ o \in mates
  /\ values'[o] = Lost
  /\ mates' = mates

\* Only o changes, or a mate of o.
OthersKeep(o) ==
  \A p \in Objects \ {o} : values'[p] = values[p] \/ {o, p} \subseteq mates

Next ==
  \E o \in Objects :
    /\ OthersKeep(o)
    /\ \/ Create(o) \/ Destroy(o) \/ Lose(o)
       \/ \E n \in Lengths : Resize(o, n)
       \/ \E a \in Objects : Share(o, a) \/ Assign(o, a)
       \/ \E a \in Objects, at \in Lengths : Copy(o, a, at)
       \/ \E s \in Strings, at \in Lengths : Write(o, s, at)

Spec == Init /\ [][Next]_<<values, mates>>

=============================================================================
