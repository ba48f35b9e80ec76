------------------------------ MODULE JsonText ------------------------------
(***************************************************************************)
(* The JSON scanner with which the proxy reads and edits request bodies    *)
(* without decoding them (proxy/json.go and the second copy of it in       *)
(* claude/thinking_sanitizer.go).                                          *)
(*                                                                         *)
(* A text is the sequence of its tokens; white space is left out and a     *)
(* quoted string is one token, so the escapes inside it are too.  A        *)
(* position of the code, a byte offset, is here the index of a token, and  *)
(* its half-open range [lo, hi) one of indexes.  Position 0 says that the  *)
(* code found nothing ("ok" is false).                                     *)
(*                                                                         *)
(* The second part is the reference: documents, each as the text that a    *)
(* client sends for it.                                                    *)
(***************************************************************************)
EXTENDS Integers, SequencesExt

Opening == {"{", "["}
Closing == {"}", "]"}
Literals == {"1", "true", "null"}
IsString(t) == t \notin Opening \cup Closing \cup Literals \cup {",", ":"}

\* How many brackets are open after s[i..j]; the scanner does not ask which.
Depth(s, i, j) ==
    Cardinality({k \in i..j : s[k] \in Opening}) -
    Cardinality({k \in i..j : s[k] \in Closing})

\* The position after the value that starts at i.
ConsumeValue(s, i, hi) ==
    LET balanced == {j \in i .. hi - 1 : Depth(s, i, j) = 0}
        stops == {j \in i .. hi : j = hi \/ s[j] \in {",", "}", "]"}}
    IN  IF i >= hi THEN 0
        ELSE IF s[i] \in Opening THEN IF balanced = {} THEN 0 ELSE Min(balanced) + 1
        ELSE IF IsString(s[i]) THEN i + 1
        ELSE IF Min(stops) > i THEN Min(stops) ELSE 0

\* The pairs read from position lo on, and whether the object's end was met:
\* the walk stops at the first thing it cannot read, and from[i] is what it
\* reads from i on.  A pair ends before end, 0 when it has no end.
Keyed(s, i, hi) == i + 1 < hi /\ IsString(s[i]) /\ s[i + 1] = ":"
MembersFrom(s, lo, hi) ==
    LET from[i \in lo .. hi] ==
            LET After(end) ==
                    LET one == <<[key |-> s[i], pairLo |-> i, lo |-> i + 2, hi |-> end]>>
                    IN  IF end = 0 THEN [read |-> <<>>, closed |-> FALSE]
                        ELSE IF end < hi /\ s[end] = ","
                        THEN [from[end + 1] EXCEPT !.read = one \o @]
                        ELSE [read |-> one, closed |-> end < hi /\ s[end] = "}"]
            IN  IF Keyed(s, i, hi) THEN After(ConsumeValue(s, i + 2, hi))
                ELSE [read |-> <<>>, closed |-> i < hi /\ s[i] = "}"]
    IN  from[lo]

\* What there is to read in the value between two positions.
Members(s, lo, hi) ==
    IF lo < hi /\ s[lo] = "{" THEN MembersFrom(s, lo + 1, hi) ELSE [read |-> <<>>, closed |-> FALSE]

NotThere == [key |-> "", pairLo |-> 0, lo |-> 0, hi |-> 0]
Present(loc) == loc.lo # 0

\* Where the first pair of a key lies.
Located(read, key) ==
    LET at == {n \in DOMAIN read : read[n].key = key}
    IN  IF at = {} THEN NotThere ELSE read[Min(at)]
FieldLocation(s, lo, hi, key) == Located(Members(s, lo, hi).read, key)

\* The same for several keys; nothing when the object is broken before the
\* last of them was found, and what follows the last is never read.
AllLocated(walk, keys) ==
    [ok |-> walk.closed \/ keys \subseteq {walk.read[n].key : n \in DOMAIN walk.read},
     at |-> [k \in keys |-> Located(walk.read, k)]]
FieldLocations(s, lo, hi, keys) == AllLocated(Members(s, lo, hi), keys)

\* The string a pair holds, "" when it is none.
StringAt(s, loc) ==
    IF Present(loc) /\ IsString(s[loc.lo]) /\ loc.hi = loc.lo + 1 THEN s[loc.lo] ELSE ""
StringField(s, lo, hi, key) == StringAt(s, FieldLocation(s, lo, hi, key))

\* The ranges of an array's elements; Broken when it is not one.
Broken == <<[lo |-> 0, hi |-> 0]>>
ElementsFrom(s, lo, hi) ==
    LET from[i \in lo .. hi] ==
            LET Joined(end, rest) ==
                    IF rest = Broken THEN Broken ELSE <<[lo |-> i, hi |-> end]>> \o rest
                After(end) ==
                    IF end = 0 \/ end >= hi \/ s[end] \notin {",", "]"} THEN Broken
                    ELSE Joined(end, IF s[end] = "]" THEN <<>> ELSE from[end + 1])
            IN  IF i < hi /\ s[i] = "]" THEN <<>> ELSE After(ConsumeValue(s, i, hi))
    IN  from[lo]
ArrayElements(s, lo, hi) ==
    IF lo < hi /\ s[lo] = "[" THEN ElementsFrom(s, lo + 1, hi) ELSE Broken

\* The text with ranges replaced: edits are [lo, hi, text], none overlapping.
Splice(s, edits) ==
    LET Piece(p) ==
            LET here == {e \in edits : e.lo = p}
                in == {e \in edits : e.lo <= p /\ p < e.hi}
            IN  (IF here = {} THEN <<>> ELSE (CHOOSE e \in here : TRUE).text)
                \o (IF p > Len(s) \/ in # {} THEN <<>> ELSE <<s[p]>>)
    IN  FlattenSeq([p \in 1 .. Len(s) + 1 |-> Piece(p)])
-----------------------------------------------------------------------------
(* Documents *)

Listed(parts) ==
    FlattenSeq([n \in DOMAIN parts |-> (IF n = 1 THEN <<>> ELSE <<",">>) \o parts[n]])
Str(v) == <<v>>
Lit(v) == <<v>>
Arr(elements) == <<"[">> \o Listed(elements) \o <<"]">>
\* The members of an object are pairs of a key and a document.
Obj(members) ==
    <<"{">> \o Listed([n \in DOMAIN members |-> <<members[n][1], ":">> \o members[n][2]]) \o <<"}">>
=============================================================================
