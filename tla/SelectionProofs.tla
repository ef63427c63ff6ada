--------------------------- MODULE SelectionProofs --------------------------
(***************************************************************************)
(* Proofs about Selection, for every tree, every path and every change of  *)
(* the tree under the walk: a message goes only to actors to which the     *)
(* selection leads, once to each; those that are up all along get it; a    *)
(* panic of the caller has a reason in the path or in the tree; and where  *)
(* a selection leads is what the path it is made of means.                 *)
(***************************************************************************)
EXTENDS Selection, InductionProofs, SequenceTheorems

From == selection.anchor
Segs == selection.path_vec

(* The tree: an actor lists children of its own, with names of their own,  *)
(* and all of the actors that are stable.                                  *)
TreeInv ==
    /\ \A a \in Actor : children[a] \subseteq ChildrenOf(a) \cap born
    /\ \A a \in Actor : \A c, d \in children[a] : Name[c] = Name[d] => c = d
    /\ Guardians \subseteq open
    /\ TopLevel \subseteq children[Root]
    /\ \A a \in stable : IsUp(a)

(* The walk has taken k segments, none of them "*": the path leads to the  *)
(* anchor, and every way through stable actors goes over it.               *)
OnWay(k) ==
    /\ Len(path_vec) = Len(Segs) - k
    /\ \A i \in 1..Len(path_vec) : path_vec[i] = Segs[k + i]
    /\ \A i \in 1..k : ~IsAllChildren(Segs[i])
    /\ \E w \in Ways(From, Segs, k, Actor) : w[k] = anchor
    /\ \A n \in Ends(Segs) : \A v \in Ways(From, Segs, n, stable) : v[k] = anchor

(* The child that was looked up by the last segment.                       *)
NamedOK ==
    /\ Len(path_vec) = 1 /\ IsChildName(path_vec[1])
    /\ SegLeads(anchor, path_vec[1], child)
    /\ \A n \in Ends(Segs) : \A v \in Ways(From, Segs, n, stable) : v[n] = child

(* The iteration over the children: those told have been visited, and the  *)
(* stable ones that were visited have been told.                           *)
AllOK ==
    /\ Len(path_vec) > 0 /\ IsAllChildren(path_vec[1])
    /\ \A a \in Actor :
          /\ Copies(a) > 0 => a \in ChildrenOf(anchor) /\ Name[a] \notin unvisited
          /\ a \in stable \cap ChildrenOf(anchor) /\ Suits(a) =>
                Name[a] \in unvisited \/ Copies(a) = 1

WalkInv ==
    /\ pc \in {"walk", "named", "all"} => \E k \in 0..Len(Segs) : OnWay(k)
    /\ pc = "named" => NamedOK
    /\ pc = "all" => AllOK

Untold == pc \notin {"all", "done"} => told = NotTold

SelectionInv ==
    /\ TypeOK /\ TreeInv /\ WalkInv /\ Untold
    /\ OnlySelected /\ StableReached /\ PanicsExplained

-----------------------------------------------------------------------------
(* The parts of a path                                                     *)

(* A token more makes one part more or a longer last part, never none.     *)
LEMMA CutType ==
  ASSUME NEW segs \in Seq(Part) \ {<<>>}, NEW token \in STRING
  PROVE  Cut(segs, token) \in Seq(Part) \ {<<>>}
<1>1. Len(segs) \in Nat \ {0}
  BY EmptySeq
<1>2. \A i \in 1..Len(segs) : segs[i] \in Part
  BY ElementOfSeq
<1>3. Front(segs) \in Seq(Part)
  BY <1>1, <1>2, SubSeqProperties DEF Front
<1> DEFINE front == Front(segs)
           longer == Append(Last(segs), token)
<1>4. longer \in Part
  <2>1. Last(segs) \in Seq(STRING)
    BY <1>1, <1>2 DEF Last, Part
  <2> QED
    BY <2>1, AppendProperties DEF Part
<1>5. <<>> \in Part
  BY EmptySeq DEF Part
<1>6. /\ Append(segs, <<>>) \in Seq(Part) /\ Append(segs, <<>>) # <<>>
  BY <1>5, AppendProperties
<1>7. Append(front, longer) \in Seq(Part) /\ Append(front, longer) # <<>>
  <2>1. front \in Seq(Part)
    BY <1>3
  <2> HIDE DEF front, longer
  <2> QED
    BY <1>4, <2>1, AppendProperties
<1> QED
  BY <1>6, <1>7 DEF Cut

(* f holds the parts of the first n tokens of a path for each n, as        *)
(* split('/') goes over it.                                                *)
SplitRun(f, path) ==
    /\ f[0] = << <<>> >>
    /\ \A n \in 0..Len(path) :
          /\ f[n] \in Seq(Part) \ {<<>>}
          /\ n < Len(path) => f[n + 1] = Cut(f[n], path[n + 1])
    /\ Split(path) = f[Len(path)]

(* There are such parts: one at least, and nothing but text.               *)
LEMMA SplitRuns ==
  ASSUME NEW path \in Seq(STRING)
  PROVE  \E f : SplitRun(f, path)
<1> DEFINE S == Seq(Part) \ {<<>>}
           b == << <<>> >>
           step == [k \in 1..Len(path) |-> [segs \in S |-> Cut(segs, path[k])]]
           Reads(f) == f = [n \in 0..Len(path) |->
                              IF n = 0 THEN << <<>> >> ELSE Cut(f[n - 1], path[n])]
           read == CHOOSE f : Reads(f)
           T == {n \in 0..Len(path) : read[n] \in S}
<1>1. Len(path) \in Nat /\ \A k \in 1..Len(path) : path[k] \in STRING
  BY LenProperties, ElementOfSeq
<1>2. b \in S
  <2>1. <<>> \in Part
    BY EmptySeq DEF Part
  <2> QED
    BY <2>1
<1>3. \A segs \in S : \A k \in 1..Len(path) : Cut(segs, path[k]) \in S
  BY <1>1, CutType
<1>4. \E f : Reads(f)
  <2>1. step \in [1..Len(path) -> [S -> S]]
    <3> HIDE DEF S
    <3> QED
      BY <1>3
  <2>2. PICK f : Goes(f, S, b, step, Len(path))
    <3>1. Len(path) \in Nat
      BY <1>1
    <3> HIDE DEF S, b, step
    <3> QED
      BY <1>2, <2>1, <3>1, RecursionTo
  <2>3. ASSUME NEW k \in 0..Len(path)
        PROVE  f[k] = IF k = 0 THEN b ELSE Cut(f[k - 1], path[k])
    <3>1. k # 0 => k \in 1..Len(path) /\ k - 1 \in 0..Len(path)
      BY <1>1
    <3>2. k # 0 => f[k - 1] \in S
      BY <2>2, <3>1 DEF Goes
    <3>3. k # 0 => step[k][f[k - 1]] = Cut(f[k - 1], path[k])
      <4> HIDE DEF S
      <4> QED
        BY <3>1, <3>2
    <3> HIDE DEF S, b, step
    <3> QED
      BY <2>2, <3>3 DEF Goes
  <2>4. f = [n \in 0..Len(path) |-> f[n]]
    BY <2>2 DEF Goes
  <2>5. Reads(f)
    BY <2>3, <2>4, Zenon
  <2> QED
    BY <2>5
<1>5. Reads(read)
  <2> HIDE DEF Reads
  <2> QED
    BY <1>4
<1>6. /\ read[0] = b
      /\ \A n \in 0..Len(path) :
            n < Len(path) => read[n + 1] = Cut(read[n], path[n + 1])
  <2> HIDE DEF read
  <2> QED
    BY <1>1, <1>5
<1>7. \A n \in 0..Len(path) : n \in T
  <2>1. 0 \in T
    <3> HIDE DEF S, b, read
    <3> QED
      BY <1>1, <1>2, <1>6
  <2>2. \A k \in 0..Len(path) : k \in T /\ k < Len(path) => k + 1 \in T
    <3> HIDE DEF S, read, Reads
    <3> QED
      BY <1>1, <1>3, <1>6
  <2> HIDE DEF T
  <2> QED
    BY <1>1, <2>1, <2>2, InductionTo
<1>8. Split(path) = read[Len(path)]
  BY Zenon DEF Split
<1>9. \A n \in 0..Len(path) : read[n] \in S
  BY <1>7
<1> HIDE DEF read, T
<1> QED
  BY <1>6, <1>8, <1>9 DEF SplitRun

(* split('/') yields one part at least, and nothing but text.              *)
LEMMA SplitType ==
  ASSUME NEW path \in Seq(STRING)
  PROVE  Split(path) \in Seq(Part) \ {<<>>}
<1>1. PICK f : SplitRun(f, path)
  BY SplitRuns
<1>2. Len(path) \in 0..Len(path)
  BY LenProperties
<1> QED
  BY <1>1, <1>2 DEF SplitRun

(* f holds what replace() has kept and read of the first n tokens.         *)
ReplaceRun(f, path) ==
    /\ f[0] = [kept |-> <<>>, text |-> <<>>]
    /\ \A n \in 0..Len(path) :
          /\ f[n] \in [kept : Seq(STRING), text : Seq(STRING)]
          /\ n < Len(path) => f[n + 1] = Replace(f[n], path[n + 1])
    /\ WithoutAnchor(path) = f[Len(path)].kept \o f[Len(path)].text

(* There is such a run of replace(), and it is all text.                   *)
LEMMA ReplaceRuns ==
  ASSUME NEW path \in Seq(STRING)
  PROVE  \E f : ReplaceRun(f, path)
<1> DEFINE S == [kept : Seq(STRING), text : Seq(STRING)]
           b == [kept |-> <<>>, text |-> <<>>]
           step == [k \in 1..Len(path) |-> [acc \in S |-> Replace(acc, path[k])]]
           Reads(f) == f = [n \in 0..Len(path) |->
                              IF n = 0 THEN [kept |-> <<>>, text |-> <<>>]
                                       ELSE Replace(f[n - 1], path[n])]
           read == CHOOSE f : Reads(f)
           T == {n \in 0..Len(path) : read[n] \in S}
<1>1. Len(path) \in Nat /\ \A k \in 1..Len(path) : path[k] \in STRING
  BY LenProperties, ElementOfSeq
<1>2. b \in S
  BY EmptySeq
<1>3. ASSUME NEW acc \in S, NEW k \in 1..Len(path) PROVE Replace(acc, path[k]) \in S
  <2> DEFINE text == Append(acc.text, path[k])
             front == SubSeq(text, 1, Len(text) - Len(AnchorPath))
  <2>1. text \in Seq(STRING) /\ Len(text) \in Nat
    BY <1>1, AppendProperties, LenProperties
  <2>2. Len(AnchorPath) = 3
    BY DEF AnchorPath
  <2>3. front \in Seq(STRING)
    <3>1. \A i \in 1..(Len(text) - 3) : text[i] \in STRING
      BY <2>1, ElementOfSeq
    <3> HIDE DEF text
    <3> QED
      BY <2>1, <2>2, <3>1, SubSeqProperties
  <2>4. acc.kept \o front \in Seq(STRING)
    <3> HIDE DEF front
    <3> QED
      BY <2>3, ConcatProperties
  <2>5. <<>> \in Seq(STRING)
    BY EmptySeq
  <2>6. /\ [kept |-> acc.kept \o front, text |-> <<>>] \in S
        /\ [kept |-> acc.kept, text |-> text] \in S
    <3> HIDE DEF text, front
    <3> QED
      BY <2>1, <2>4, <2>5
  <2>7. \/ Replace(acc, path[k]) = [kept |-> acc.kept \o front, text |-> <<>>]
        \/ Replace(acc, path[k]) = [kept |-> acc.kept, text |-> text]
    BY DEF Replace
  <2> QED
    BY <2>6, <2>7, Zenon
<1>4. \E f : Reads(f)
  <2>1. step \in [1..Len(path) -> [S -> S]]
    <3> HIDE DEF S
    <3> QED
      BY <1>3
  <2>2. PICK f : Goes(f, S, b, step, Len(path))
    <3>1. Len(path) \in Nat
      BY <1>1
    <3> HIDE DEF S, b, step
    <3> QED
      BY <1>2, <2>1, <3>1, RecursionTo
  <2>3. ASSUME NEW k \in 0..Len(path)
        PROVE  f[k] = IF k = 0 THEN b ELSE Replace(f[k - 1], path[k])
    <3>1. k # 0 => k \in 1..Len(path) /\ k - 1 \in 0..Len(path)
      BY <1>1
    <3>2. k # 0 => f[k - 1] \in S
      BY <2>2, <3>1 DEF Goes
    <3>3. k # 0 => step[k][f[k - 1]] = Replace(f[k - 1], path[k])
      <4> HIDE DEF S
      <4> QED
        BY <3>1, <3>2
    <3> HIDE DEF S, b, step
    <3> QED
      BY <2>2, <3>3 DEF Goes
  <2>4. f = [n \in 0..Len(path) |-> f[n]]
    BY <2>2 DEF Goes
  <2>5. Reads(f)
    BY <2>3, <2>4, Zenon
  <2> QED
    BY <2>5
<1>5. Reads(read)
  <2> HIDE DEF Reads
  <2> QED
    BY <1>4
<1>6. /\ read[0] = b
      /\ \A n \in 0..Len(path) :
            n < Len(path) => read[n + 1] = Replace(read[n], path[n + 1])
  <2> HIDE DEF read
  <2> QED
    BY <1>1, <1>5
<1>7. \A n \in 0..Len(path) : n \in T
  <2>1. 0 \in T
    <3> HIDE DEF S, b, read
    <3> QED
      BY <1>1, <1>2, <1>6
  <2>2. \A k \in 0..Len(path) : k \in T /\ k < Len(path) => k + 1 \in T
    <3> HIDE DEF S, read, Reads
    <3> QED
      BY <1>1, <1>3, <1>6
  <2> HIDE DEF T
  <2> QED
    BY <1>1, <2>1, <2>2, InductionTo
<1>8. WithoutAnchor(path) = read[Len(path)].kept \o read[Len(path)].text
  BY Zenon DEF WithoutAnchor
<1>9. \A n \in 0..Len(path) : read[n] \in S
  BY <1>7
<1> HIDE DEF read, T
<1> QED
  BY <1>6, <1>8, <1>9 DEF ReplaceRun

(* What is left of a path without "/user/" is text.                        *)
LEMMA WithoutAnchorType ==
  ASSUME NEW path \in Seq(STRING)
  PROVE  WithoutAnchor(path) \in Seq(STRING)
<1>1. PICK f : ReplaceRun(f, path)
  BY ReplaceRuns
<1>2. Len(path) \in 0..Len(path)
  BY LenProperties
<1>3. f[Len(path)].kept \in Seq(STRING) /\ f[Len(path)].text \in Seq(STRING)
  BY <1>1, <1>2 DEF ReplaceRun
<1> QED
  BY <1>1, <1>3, ConcatProperties DEF ReplaceRun

(* The parts of a selection are text, whatever path it is made of.         *)
LEMMA PartsType ==
  ASSUME NEW path \in Paths
  PROVE  Segments(PathStr(path)) \in Seq(Part)
<1>1. path \in Seq(STRING)
  BY PathAssumption
<1>2. PathStr(path) \in Seq(STRING)
  BY <1>1, WithoutAnchorType DEF PathStr
<1> DEFINE segs == Split(PathStr(path))
<1>3. segs \in Seq(Part)
  BY <1>2, SplitType
<1>4. Front(segs) \in Seq(Part)
  <2> HIDE DEF segs
  <2>1. Len(segs) \in Nat /\ \A i \in 1..Len(segs) : segs[i] \in Part
    BY <1>3, LenProperties, ElementOfSeq
  <2> QED
    BY <2>1, SubSeqProperties DEF Front
<1> QED
  BY <1>3, <1>4 DEF Segments

(* A piece of a sequence, element by element.                              *)
LEMMA PieceFacts ==
  ASSUME NEW S, NEW s \in Seq(S), NEW m \in Nat \ {0}, NEW n \in 0..Len(s), m <= n + 1
  PROVE  /\ SubSeq(s, m, n) \in Seq(S)
         /\ Len(SubSeq(s, m, n)) = (n - m) + 1
         /\ \A i \in 1..(n - m) + 1 : SubSeq(s, m, n)[i] = s[(m - 1) + i]
<1> DEFINE piece == SubSeq(s, m, n)
<1>1. Len(s) \in Nat /\ m \in Int /\ n \in Int
  BY LenProperties
<1>2. \A i \in m..n : s[i] \in S
  BY <1>1, ElementOfSeq
<1>3. /\ piece \in Seq(S)
      /\ Len(piece) = IF m <= n THEN n - m + 1 ELSE 0
      /\ \A i \in 1..n - m + 1 : piece[i] = s[m + i - 1]
  BY <1>1, <1>2, SubSeqProperties
<1> HIDE DEF piece
<1>4. Len(piece) = (n - m) + 1
  BY <1>1, <1>3
<1>5. ASSUME NEW i \in 1..(n - m) + 1
      PROVE  piece[i] = s[(m - 1) + i]
  <2>1. m + i - 1 = (m - 1) + i
    BY <1>1
  <2> QED
    BY <1>3, <2>1
<1> QED
  BY <1>3, <1>4, <1>5 DEF piece

(* All but the last.                                                       *)
LEMMA FrontFacts ==
  ASSUME NEW S, NEW s \in Seq(S), s # <<>>
  PROVE  /\ Len(s) \in Nat \ {0}
         /\ Front(s) \in Seq(S) /\ Len(Front(s)) = Len(s) - 1
         /\ \A i \in 1..Len(s) - 1 : Front(s)[i] = s[i]
<1> DEFINE n == Len(s) - 1
<1>1. Len(s) \in Nat \ {0} /\ n \in 0..Len(s) /\ 1 \in Nat \ {0} /\ 1 <= n + 1
  BY EmptySeq
<1>2. Front(s) = SubSeq(s, 1, n)
  BY DEF Front
<1>3. /\ Front(s) \in Seq(S) /\ Len(Front(s)) = (n - 1) + 1
      /\ \A i \in 1..(n - 1) + 1 : Front(s)[i] = s[(1 - 1) + i]
  <2> HIDE DEF n
  <2> QED
    BY <1>1, <1>2, PieceFacts
<1>4. \A i \in 1..Len(s) - 1 : (1 - 1) + i = i /\ i \in 1..(n - 1) + 1
  BY <1>1
<1> QED
  BY <1>1, <1>3, <1>4

(* A token is put behind a text.                                           *)
LEMMA AppendToken ==
  ASSUME NEW s \in Seq(STRING), NEW token \in STRING
  PROVE  /\ Append(s, token) \in Seq(STRING) /\ Append(s, token) # <<>>
         /\ Len(Append(s, token)) = Len(s) + 1
         /\ \A i \in 1..Len(s) : Append(s, token)[i] = s[i]
         /\ Append(s, token)[Len(s) + 1] = token
<1>1. Append(s, token) \in Seq(STRING)
  BY AppendProperties
<1>2. Append(s, token) # <<>>
  BY AppendProperties
<1>3. Len(Append(s, token)) = Len(s) + 1
  BY AppendProperties
<1>4. \A i \in 1..Len(s) : Append(s, token)[i] = s[i]
  BY AppendProperties
<1>5. Append(s, token)[Len(s) + 1] = token
  BY AppendProperties
<1> QED
  BY <1>1, <1>2, <1>3, <1>4, <1>5

(* What split('/') makes of one token more, part by part.                  *)
LEMMA CutFacts ==
  ASSUME NEW segs \in Seq(Part) \ {<<>>}, NEW token \in STRING
  PROVE  /\ Len(segs) \in Nat \ {0}
         /\ token = "/" =>
               /\ Len(Cut(segs, token)) = Len(segs) + 1
               /\ Cut(segs, token)[Len(segs) + 1] = <<>>
               /\ \A i \in 1..Len(segs) : Cut(segs, token)[i] = segs[i]
         /\ token # "/" =>
               /\ Len(Cut(segs, token)) = Len(segs)
               /\ Cut(segs, token)[Len(segs)] = Append(segs[Len(segs)], token)
               /\ Cut(segs, token)[Len(segs)] # <<>>
               /\ \A i \in 1..Len(segs) - 1 : Cut(segs, token)[i] = segs[i]
<1>1. Len(segs) \in Nat \ {0}
  BY EmptySeq
<1>2. \A i \in 1..Len(segs) : segs[i] \in Part
  BY ElementOfSeq
<1>3. CASE token = "/"
  <2>1. Cut(segs, token) = Append(segs, <<>>)
    BY <1>3 DEF Cut
  <2>2. <<>> \in Part
    BY EmptySeq DEF Part
  <2> QED
    BY <1>1, <1>3, <2>1, <2>2, AppendProperties
<1>4. CASE token # "/"
  <2> DEFINE front == Front(segs)
             last == segs[Len(segs)]
             longer == Append(last, token)
  <2>1. Cut(segs, token) = Append(front, longer)
    BY <1>4 DEF Cut, Last
  <2>2. last \in Seq(STRING)
    BY <1>1, <1>2 DEF Part
  <2>3. longer \in Part /\ longer # <<>>
    <3> HIDE DEF last
    <3> QED
      BY <2>2, AppendToken DEF Part
  <2>4. /\ front \in Seq(Part) /\ Len(front) = Len(segs) - 1
        /\ \A i \in 1..Len(segs) - 1 : front[i] = segs[i]
    BY FrontFacts
  <2> HIDE DEF front, longer
  <2>5. /\ Len(Append(front, longer)) = Len(segs)
        /\ Append(front, longer)[Len(segs)] = longer
        /\ \A i \in 1..Len(segs) - 1 : Append(front, longer)[i] = segs[i]
    BY <1>1, <2>3, <2>4, AppendProperties
  <2> QED
    BY <1>1, <1>4, <2>1, <2>3, <2>5 DEF longer
<1> QED
  BY <1>1, <1>3, <1>4

(* One part of a path at least is left, but of the empty path.             *)
LEMMA SegmentsSome ==
  ASSUME NEW path \in Seq(STRING), path # <<>>
  PROVE  /\ Segments(path) \in Seq(Part) /\ Segments(path) # <<>>
         /\ Segments(path)[1] = Split(path)[1]
<1>1. PICK f : SplitRun(f, path)
  BY SplitRuns
<1> DEFINE n == Len(path) - 1
           segs == Split(path)
<1>2. Len(path) \in Nat \ {0} /\ n \in 0..Len(path) /\ n < Len(path) /\ n + 1 = Len(path)
  BY EmptySeq
<1>3. path[Len(path)] \in STRING
  BY <1>2, ElementOfSeq
<1>4. f[n] \in Seq(Part) \ {<<>>} /\ segs = Cut(f[n], path[Len(path)])
  BY <1>1, <1>2 DEF SplitRun
<1>5. segs \in Seq(Part) \ {<<>>} /\ Len(segs) \in Nat \ {0}
  BY SplitType, EmptySeq
<1>6. Last(segs) = <<>> => Len(segs) > 1
  <2> DEFINE g == f[n]
             token == path[Len(path)]
  <2>1. g \in Seq(Part) \ {<<>>} /\ token \in STRING /\ segs = Cut(g, token)
    BY <1>3, <1>4
  <2> HIDE DEF g, token, segs
  <2>2. /\ Len(g) \in Nat \ {0}
        /\ token = "/" => Len(segs) = Len(g) + 1
        /\ token # "/" => Len(segs) = Len(g) /\ segs[Len(g)] # <<>>
    BY <2>1, CutFacts
  <2> QED
    BY <2>2 DEF Last
<1> HIDE DEF segs
<1>7. CASE Last(segs) = <<>>
  <2>1. Segments(path) = Front(segs)
    BY <1>7 DEF Segments, segs
  <2>2. /\ Segments(path) \in Seq(Part) /\ Len(Segments(path)) = Len(segs) - 1
        /\ \A i \in 1..Len(segs) - 1 : Segments(path)[i] = segs[i]
    BY <1>5, <2>1, FrontFacts
  <2>3. Len(Segments(path)) > 0 /\ Segments(path)[1] = segs[1]
    BY <1>5, <1>6, <1>7, <2>2
  <2> QED
    BY <2>2, <2>3, EmptySeq DEF segs
<1>8. CASE Last(segs) # <<>>
  BY <1>5, <1>8 DEF Segments, segs
<1> QED
  BY <1>7, <1>8

(* A path that begins with "/" has an empty first part.                    *)
LEMMA SplitSlash ==
  ASSUME NEW path \in Seq(STRING), path # <<>>, path[1] = "/"
  PROVE  Segments(path)[1] = <<>>
<1>1. PICK f : SplitRun(f, path)
  BY SplitRuns
<1>2. Len(path) \in Nat \ {0} /\ \A i \in 1..Len(path) : path[i] \in STRING
  BY EmptySeq, ElementOfSeq
<1> DEFINE T == {n \in 0..Len(path) : f[n][1] = <<>> /\ (n > 0 => Len(f[n]) > 1)}
<1>3. 0 \in T
  BY <1>1, <1>2 DEF SplitRun
<1>4. ASSUME NEW k \in 0..Len(path), k \in T, k < Len(path)
      PROVE  k + 1 \in T
  <2>1. /\ f[k] \in Seq(Part) \ {<<>>} /\ f[k + 1] = Cut(f[k], path[k + 1])
        /\ path[k + 1] \in STRING
    BY <1>1, <1>2, <1>4 DEF SplitRun
  <2>2. /\ Len(f[k]) \in Nat \ {0}
        /\ path[k + 1] = "/" =>
              /\ Len(f[k + 1]) = Len(f[k]) + 1
              /\ \A i \in 1..Len(f[k]) : f[k + 1][i] = f[k][i]
        /\ path[k + 1] # "/" =>
              /\ Len(f[k + 1]) = Len(f[k])
              /\ \A i \in 1..Len(f[k]) - 1 : f[k + 1][i] = f[k][i]
    <3> DEFINE g == f[k]
               token == path[k + 1]
    <3>1. g \in Seq(Part) \ {<<>>} /\ token \in STRING /\ f[k + 1] = Cut(g, token)
      BY <2>1
    <3> HIDE DEF g, token
    <3>2. /\ Len(g) \in Nat \ {0}
          /\ token = "/" =>
                /\ Len(f[k + 1]) = Len(g) + 1
                /\ \A i \in 1..Len(g) : f[k + 1][i] = g[i]
          /\ token # "/" =>
                /\ Len(f[k + 1]) = Len(g)
                /\ \A i \in 1..Len(g) - 1 : f[k + 1][i] = g[i]
      BY <3>1, CutFacts
    <3> QED
      BY <3>2 DEF g, token
  <2>3. f[k][1] = <<>> /\ (k = 0 => path[k + 1] = "/") /\ (k > 0 => Len(f[k]) > 1)
    BY <1>4
  <2>4. f[k + 1][1] = f[k][1] /\ Len(f[k + 1]) > 1
    <3>1. CASE path[k + 1] = "/"
      BY <2>2, <3>1
    <3>2. CASE path[k + 1] # "/"
      <4>1. Len(f[k]) > 1
        BY <2>3, <3>2
      <4> QED
        BY <2>2, <3>2, <4>1
    <3> QED
      BY <3>1, <3>2
  <2>5. k + 1 \in 0..Len(path)
    BY <1>2, <1>4
  <2> QED
    BY <2>3, <2>4, <2>5
<1>5. \A n \in 0..Len(path) : n \in T
  <2>1. Len(path) \in Nat
    BY <1>2
  <2> HIDE DEF T
  <2> QED
    BY <1>3, <1>4, <2>1, InductionTo
<1>6. f[Len(path)][1] = <<>>
  BY <1>2, <1>5
<1> QED
  BY <1>1, <1>6, SegmentsSome DEF SplitRun

-----------------------------------------------------------------------------
(* "/user/" in a path                                                      *)

(* "/user/" is in a text from its i-th token on.                           *)
Spelt(s, i) == s[i] = "/" /\ s[i + 1] = "user" /\ s[i + 2] = "/"

(* The tokens of "/user/".                                                 *)
LEMMA AnchorFacts ==
    /\ AnchorPath \in Seq({"/", "user"}) /\ Len(AnchorPath) = 3
    /\ AnchorPath[1] = "/" /\ AnchorPath[2] = "user" /\ AnchorPath[3] = "/"
  BY DEF AnchorPath

(* A piece of three tokens that is "/user/".                               *)
LEMMA PieceMeans ==
  ASSUME NEW s \in Seq(STRING), NEW i \in Nat \ {0}, i + 2 <= Len(s)
  PROVE  SubSeq(s, i, i + 2) = AnchorPath <=> Spelt(s, i)
<1> DEFINE piece == SubSeq(s, i, i + 2)
<1>1. Len(s) \in Nat /\ i + 2 \in 0..Len(s) /\ i <= (i + 2) + 1 /\ ((i + 2) - i) + 1 = 3
  BY LenProperties
<1>2. /\ piece \in Seq(STRING) /\ Len(piece) = ((i + 2) - i) + 1
      /\ \A j \in 1..((i + 2) - i) + 1 : piece[j] = s[(i - 1) + j]
  <2> DEFINE n == i + 2
  <2>1. n \in 0..Len(s) /\ i <= n + 1
    BY <1>1
  <2> HIDE DEF n
  <2>2. /\ SubSeq(s, i, n) \in Seq(STRING) /\ Len(SubSeq(s, i, n)) = (n - i) + 1
        /\ \A j \in 1..(n - i) + 1 : SubSeq(s, i, n)[j] = s[(i - 1) + j]
    BY <2>1, PieceFacts
  <2> QED
    BY <2>2 DEF n
<1> HIDE DEF piece
<1>3. Len(piece) = 3 /\ piece[1] = s[i] /\ piece[2] = s[i + 1] /\ piece[3] = s[i + 2]
  <2>1. (i - 1) + 1 = i /\ (i - 1) + 2 = i + 1 /\ (i - 1) + 3 = i + 2
    OBVIOUS
  <2> QED
    BY <1>1, <1>2, <2>1
<1>4. piece = AnchorPath => Spelt(s, i)
  BY <1>3, AnchorFacts DEF Spelt
<1>5. ASSUME Spelt(s, i) PROVE piece = AnchorPath
  <2>1. \A j \in 1..Len(piece) : piece[j] = AnchorPath[j]
    BY <1>3, <1>5, AnchorFacts DEF Spelt
  <2>2. \A S, T : piece \in Seq(S) /\ AnchorPath \in Seq(T) =>
                     piece \in Seq(S \cup T) /\ AnchorPath \in Seq(S \cup T)
    BY SeqMonotonic
  <2> DEFINE S == STRING \cup {"/", "user"}
  <2>3. piece \in Seq(S) /\ AnchorPath \in Seq(S)
    BY <1>2, <2>2, AnchorFacts
  <2> HIDE DEF S
  <2> QED
    BY <1>3, <2>1, <2>3, AnchorFacts, SeqEqual
<1> QED
  BY <1>4, <1>5 DEF piece

(* A path that begins with "/user/".                                       *)
LEMMA PrefixMeans ==
  ASSUME NEW s \in Seq(STRING)
  PROVE  IsPrefix(AnchorPath, s) <=> Len(s) >= 3 /\ Spelt(s, 1)
<1>1. Len(s) \in Nat
  BY LenProperties
<1>2. SubSeq(AnchorPath, 1, 3) = AnchorPath
  BY AnchorFacts, SubSeqFull
<1>3. Len(s) >= 3 => (SubSeq(s, 1, 3) = AnchorPath <=> Spelt(s, 1))
  <2>1. 1 \in Nat \ {0} /\ 1 + 2 = 3 /\ (Len(s) >= 3 => 1 + 2 <= Len(s))
    BY <1>1
  <2> QED
    BY <2>1, PieceMeans
<1> QED
  BY <1>1, <1>2, <1>3, AnchorFacts DEF IsPrefix

(* A text that ends with "/user/".                                         *)
LEMMA SuffixMeans ==
  ASSUME NEW s \in Seq(STRING)
  PROVE  IsSuffix(AnchorPath, s) <=> Len(s) >= 3 /\ Spelt(s, Len(s) - 2)
<1> DEFINE n == Len(s)
           r == Reverse(s)
<1>1. n \in Nat /\ \A i \in 1..n : s[i] \in STRING
  BY LenProperties, ElementOfSeq
<1>2. r \in Seq(STRING) /\ Len(r) = n /\ \A i \in 1..n : r[i] = s[(n - i) + 1]
  <2>1. r = [i \in 1..n |-> s[(n - i) + 1]]
    BY DEF Reverse
  <2>2. \A i \in 1..n : s[(n - i) + 1] \in STRING
    BY <1>1
  <2> HIDE DEF n, r
  <2>3. r \in [1..n -> STRING]
    BY <2>1, <2>2
  <2> QED
    BY <1>1, <2>1, <2>3
<1>3. Reverse(AnchorPath) = AnchorPath
  <2>1. Reverse(AnchorPath) = [i \in 1..3 |-> AnchorPath[(3 - i) + 1]]
    BY AnchorFacts DEF Reverse
  <2>2. AnchorPath \in [1..3 -> {"/", "user"}]
    BY AnchorFacts, LenProperties
  <2>3. \A i \in 1..3 : AnchorPath[(3 - i) + 1] = AnchorPath[i]
    BY AnchorFacts
  <2> QED
    BY <2>1, <2>2, <2>3
<1>4. IsSuffix(AnchorPath, s) <=> n >= 3 /\ Spelt(r, 1)
  <2> HIDE DEF r
  <2>1. IsPrefix(AnchorPath, r) <=> Len(r) >= 3 /\ Spelt(r, 1)
    BY <1>2, PrefixMeans
  <2>2. IsSuffix(AnchorPath, s) <=> IsPrefix(AnchorPath, r)
    BY <1>3 DEF IsSuffix, r
  <2> QED
    BY <1>2, <2>1, <2>2
<1> HIDE DEF n, r
<1>5. n >= 3 => r[1] = s[n] /\ r[2] = s[n - 1] /\ r[3] = s[n - 2]
  <2>1. n >= 3 => /\ 1 \in 1..n /\ 2 \in 1..n /\ 3 \in 1..n
                  /\ (n - 1) + 1 = n /\ (n - 2) + 1 = n - 1 /\ (n - 3) + 1 = n - 2
    BY <1>1
  <2> QED
    BY <1>2, <2>1
<1>6. n >= 3 => (Spelt(r, 1) <=> Spelt(s, n - 2))
  <2>1. 1 + 1 = 2 /\ 1 + 2 = 3 /\ (n - 2) + 1 = n - 1 /\ (n - 2) + 2 = n
    BY <1>1
  <2> QED
    BY <1>5, <2>1 DEF Spelt
<1> QED
  BY <1>4, <1>6 DEF n

(* A text is what a path has behind its first d tokens, up to the n-th.    *)
Reading(s, path, d, n) ==
    Len(s) = n - d /\ \A i \in 1..n - d : s[i] = path[d + i]

ReplaceState == [kept : Seq(STRING), text : Seq(STRING)]

(* Replace with one token more: "/user/" is taken out if it has just been  *)
(* read, and what was before it is kept.                                   *)
LEMMA ReplaceStep ==
  ASSUME NEW path \in Seq(STRING), NEW before \in ReplaceState,
         NEW d \in Nat, NEW k \in Nat, d <= k, k < Len(path),
         Reading(before.text, path, d, k)
  PROVE  /\ d + 3 <= k + 1 /\ Spelt(path, k - 1) =>
               /\ Replace(before, path[k + 1]).text = <<>>
               /\ k + 1 = d + 3 =>
                     Replace(before, path[k + 1]).kept = before.kept
               /\ k + 1 > d + 3 /\ before.kept = <<>> =>
                     /\ Replace(before, path[k + 1]).kept # <<>>
                     /\ Replace(before, path[k + 1]).kept[1] = path[d + 1]
         /\ ~(d + 3 <= k + 1 /\ Spelt(path, k - 1)) =>
               /\ Replace(before, path[k + 1]).kept = before.kept
               /\ Reading(Replace(before, path[k + 1]).text, path, d, k + 1)
<1> DEFINE token == path[k + 1]
           text == Append(before.text, token)
           n == (k + 1) - d
           after == Replace(before, token)
           front == SubSeq(text, 1, Len(text) - 3)
<1>1. Len(path) \in Nat /\ token \in STRING /\ before.text \in Seq(STRING)
      /\ before.kept \in Seq(STRING)
  BY LenProperties, ElementOfSeq DEF ReplaceState
<1>2. Len(before.text) = k - d /\ \A i \in 1..k - d : before.text[i] = path[d + i]
  BY DEF Reading
<1>3. /\ text \in Seq(STRING) /\ Len(text) = Len(before.text) + 1
      /\ \A i \in 1..Len(before.text) : text[i] = before.text[i]
      /\ text[Len(before.text) + 1] = token
  <2> HIDE DEF token
  <2> QED
    BY <1>1, AppendToken
<1>4. n \in Nat /\ n >= 1 /\ Len(text) = n
  BY <1>2, <1>3
<1>5. \A i \in 1..n : text[i] = path[d + i]
  <2> SUFFICES ASSUME NEW i \in 1..n PROVE text[i] = path[d + i]
    OBVIOUS
  <2> HIDE DEF text, token
  <2>1. CASE i = n
    <3>1. d + i = k + 1 /\ i = Len(before.text) + 1
      BY <1>2, <2>1
    <3> QED
      BY <1>3, <3>1 DEF token
  <2>2. CASE i # n
    <3>1. i \in 1..k - d /\ i \in 1..Len(before.text)
      BY <1>2, <2>2
    <3> QED
      BY <1>2, <1>3, <3>1
  <2> QED
    BY <2>1, <2>2
<1>6. after = IF IsSuffix(AnchorPath, text)
                 THEN [kept |-> before.kept \o front, text |-> <<>>]
                 ELSE [kept |-> before.kept, text |-> text]
  BY AnchorFacts DEF Replace
<1> HIDE DEF text
<1>7. IsSuffix(AnchorPath, text) <=> d + 3 <= k + 1 /\ Spelt(path, k - 1)
  <2>1. IsSuffix(AnchorPath, text) <=> n >= 3 /\ Spelt(text, n - 2)
    BY <1>3, <1>4, SuffixMeans
  <2>2. n >= 3 <=> d + 3 <= k + 1
    OBVIOUS
  <2>3. ASSUME n >= 3
        PROVE  Spelt(text, n - 2) <=> Spelt(path, k - 1)
    <3>1. /\ n - 2 \in 1..n /\ (n - 2) + 1 \in 1..n /\ (n - 2) + 2 \in 1..n
          /\ d + (n - 2) = k - 1 /\ d + ((n - 2) + 1) = (k - 1) + 1
          /\ d + ((n - 2) + 2) = (k - 1) + 2
      BY <2>3
    <3>2. /\ text[n - 2] = path[k - 1] /\ text[(n - 2) + 1] = path[(k - 1) + 1]
          /\ text[(n - 2) + 2] = path[(k - 1) + 2]
      <4> DEFINE i1 == n - 2
                 i2 == (n - 2) + 1
                 i3 == (n - 2) + 2
      <4>1. /\ i1 \in 1..n /\ i2 \in 1..n /\ i3 \in 1..n
            /\ d + i1 = k - 1 /\ d + i2 = (k - 1) + 1 /\ d + i3 = (k - 1) + 2
        BY <3>1
      <4> HIDE DEF i1, i2, i3, n
      <4>2. text[i1] = path[d + i1] /\ text[i2] = path[d + i2] /\ text[i3] = path[d + i3]
        BY <1>5, <4>1
      <4>3. text[i1] = path[k - 1] /\ text[i2] = path[(k - 1) + 1]
            /\ text[i3] = path[(k - 1) + 2]
        BY <4>1, <4>2
      <4> QED
        BY <4>3 DEF i1, i2, i3
    <3> QED
      BY <3>2 DEF Spelt
  <2> QED
    BY <2>1, <2>2, <2>3
<1>8. ASSUME d + 3 <= k + 1, Spelt(path, k - 1)
      PROVE  /\ after.text = <<>>
             /\ k + 1 = d + 3 => after.kept = before.kept
             /\ k + 1 > d + 3 /\ before.kept = <<>> =>
                   after.kept # <<>> /\ after.kept[1] = path[d + 1]
  <2>1. after.text = <<>> /\ after.kept = before.kept \o front
    <3> HIDE DEF after, front
    <3> QED
      BY <1>6, <1>7, <1>8
  <2>2. /\ front \in Seq(STRING) /\ Len(front) = n - 3
        /\ n > 3 => front[1] = text[1]
    <3> DEFINE m == n - 3
    <3>1. m \in 0..Len(text) /\ 1 \in Nat \ {0} /\ 1 <= m + 1 /\ m = Len(text) - 3
      BY <1>4, <1>8
    <3> HIDE DEF m
    <3>2. /\ SubSeq(text, 1, m) \in Seq(STRING) /\ Len(SubSeq(text, 1, m)) = (m - 1) + 1
          /\ \A i \in 1..(m - 1) + 1 : SubSeq(text, 1, m)[i] = text[(1 - 1) + i]
      <4>1. text \in Seq(STRING)
        BY <1>3
      <4> QED
        BY <3>1, <4>1, PieceFacts
    <3>3. front = SubSeq(text, 1, m)
      BY <3>1
    <3> HIDE DEF front
    <3>4. (m > 0 => 1 \in 1..(m - 1) + 1) /\ (1 - 1) + 1 = 1 /\ (m - 1) + 1 = m
      BY <3>1
    <3>5. Len(front) = m
      BY <3>2, <3>3, <3>4
    <3>6. m > 0 => front[1] = text[1]
      BY <3>2, <3>3, <3>4
    <3>7. front \in Seq(STRING)
      BY <3>2, <3>3
    <3>8. m > 0 <=> n > 3
      BY <1>4 DEF m
    <3> QED
      BY <3>5, <3>6, <3>7, <3>8 DEF m
  <2> HIDE DEF front
  <2>3. n = 3 => after.kept = before.kept
    <3>1. n = 3 => front = <<>>
      BY <2>2, EmptySeq
    <3> QED
      BY <1>1, <2>1, <3>1, ConcatEmptySeq
  <2>4. n > 3 /\ before.kept = <<>> => after.kept = front /\ front # <<>>
    <3>1. <<>> \o front = front
      BY <2>2, ConcatEmptySeq
    <3>2. n > 3 => front # <<>>
      BY <1>4, <2>2, EmptySeq
    <3> QED
      BY <2>1, <3>1, <3>2
  <2>5. text[1] = path[d + 1]
    BY <1>4, <1>5
  <2> QED
    BY <2>1, <2>2, <2>3, <2>4, <2>5
<1>9. ASSUME ~(d + 3 <= k + 1 /\ Spelt(path, k - 1))
      PROVE  after.kept = before.kept /\ Reading(after.text, path, d, k + 1)
  <2>1. after.kept = before.kept /\ after.text = text
    BY <1>6, <1>7, <1>9
  <2> QED
    BY <1>4, <1>5, <2>1 DEF Reading
<1> HIDE DEF after
<1>10. after = Replace(before, path[k + 1])
  BY DEF after
<1> QED
  BY <1>8, <1>9, <1>10

(* What replace() has kept stays at the front of what it keeps.            *)
LEMMA ReplaceKeeps ==
  ASSUME NEW before \in ReplaceState, NEW token \in STRING, before.kept # <<>>
  PROVE  /\ Replace(before, token).kept # <<>>
         /\ Replace(before, token).kept[1] = before.kept[1]
<1> DEFINE text == Append(before.text, token)
           front == SubSeq(text, 1, Len(text) - 3)
           kept == before.kept
<1>1. kept \in Seq(STRING) /\ before.text \in Seq(STRING) /\ kept # <<>>
  BY DEF ReplaceState
<1>2. text \in Seq(STRING) /\ Len(text) \in Nat
  BY <1>1, AppendToken, LenProperties
<1>3. \/ Replace(before, token).kept = kept \o front /\ Len(text) >= 3
      \/ Replace(before, token).kept = kept
  <2>1. IsSuffix(AnchorPath, text) => Len(text) >= 3
    <3> HIDE DEF text
    <3> QED
      BY <1>2, SuffixMeans
  <2>2. Replace(before, token) = IF IsSuffix(AnchorPath, text)
                                    THEN [kept |-> kept \o front, text |-> <<>>]
                                    ELSE [kept |-> kept, text |-> text]
    BY AnchorFacts DEF Replace
  <2> HIDE DEF text, front, kept
  <2> QED
    BY <2>1, <2>2
<1>4. ASSUME Len(text) >= 3 PROVE kept \o front # <<>> /\ (kept \o front)[1] = kept[1]
  <2> DEFINE m == Len(text) - 3
  <2>1. m \in 0..Len(text) /\ 1 \in Nat \ {0} /\ 1 <= m + 1
    BY <1>2, <1>4
  <2>2. front \in Seq(STRING)
    <3>1. text \in Seq(STRING)
      BY <1>2
    <3> HIDE DEF m, text
    <3>2. SubSeq(text, 1, m) \in Seq(STRING)
      BY <2>1, <3>1, PieceFacts
    <3> QED
      BY <3>2 DEF m
  <2> HIDE DEF front, kept
  <2>3. Len(kept) \in Nat \ {0} /\ Len(front) \in Nat
    BY <1>1, <2>2, EmptySeq, LenProperties
  <2>4. /\ kept \o front \in Seq(STRING)
        /\ Len(kept \o front) = Len(kept) + Len(front)
        /\ \A i \in 1..Len(kept) + Len(front) :
              (kept \o front)[i] = IF i <= Len(kept) THEN kept[i] ELSE front[i - Len(kept)]
    BY <1>1, <2>2, ConcatProperties
  <2>5. (kept \o front)[1] = kept[1]
    BY <2>3, <2>4
  <2>6. Len(kept \o front) # 0
    BY <2>3, <2>4
  <2> QED
    BY <2>5, <2>6, EmptySeq
<1> QED
  BY <1>1, <1>3, <1>4

(* A path that begins with "/user/" and has no other loses just that.      *)
LEMMA WithoutPrefix ==
  ASSUME NEW path \in Seq(STRING), IsPrefix(AnchorPath, path), ~RepeatsUser(path)
  PROVE  Reading(WithoutAnchor(path), path, 3, Len(path))
<1>1. PICK f : ReplaceRun(f, path)
  BY ReplaceRuns
<1>2. Len(path) \in Nat /\ Len(path) >= 3 /\ Spelt(path, 1)
  BY LenProperties, PrefixMeans
<1>3. ASSUME NEW i \in Nat, i >= 4, i + 2 <= Len(path)
      PROVE  ~Spelt(path, i)
  <2>1. i \in 4..Len(path) - 2 /\ i \in Nat \ {0}
    BY <1>2, <1>3
  <2>2. SubSeq(path, i, i + 2) # AnchorPath
    BY <2>1 DEF RepeatsUser
  <2> QED
    BY <1>3, <2>1, <2>2, PieceMeans
<1> DEFINE from(n) == IF n < 3 THEN 0 ELSE 3
           T == {n \in 0..Len(path) :
                    f[n].kept = <<>> /\ Reading(f[n].text, path, from(n), n)}
<1>4. 0 \in T
  <2>1. f[0].kept = <<>> /\ f[0].text = <<>>
    BY <1>1 DEF ReplaceRun
  <2>2. Reading(<<>>, path, 0, 0)
    BY DEF Reading
  <2> QED
    BY <1>2, <2>1, <2>2
<1>5. ASSUME NEW k \in 0..Len(path), k \in T, k < Len(path)
      PROVE  k + 1 \in T
  <2> DEFINE d == from(k)
  <2>1. /\ d \in Nat /\ k \in Nat /\ d <= k /\ d \in {0, 3} /\ (d = 0 <=> k < 3)
        /\ k + 1 \in 0..Len(path)
    BY <1>2, <1>5
  <2>2. f[k].kept = <<>> /\ Reading(f[k].text, path, d, k)
    BY <1>5
  <2>3. f[k] \in ReplaceState /\ f[k + 1] = Replace(f[k], path[k + 1])
    BY <1>1, <1>5 DEF ReplaceRun, ReplaceState
  <2> HIDE DEF d
  <2>4. /\ d + 3 <= k + 1 /\ Spelt(path, k - 1) =>
              /\ f[k + 1].text = <<>>
              /\ k + 1 = d + 3 => f[k + 1].kept = f[k].kept
        /\ ~(d + 3 <= k + 1 /\ Spelt(path, k - 1)) =>
              /\ f[k + 1].kept = f[k].kept
              /\ Reading(f[k + 1].text, path, d, k + 1)
    BY <1>5, <2>1, <2>2, <2>3, ReplaceStep
  <2>5. CASE k = 2
    <3>1. d = 0 /\ Spelt(path, k - 1)
      BY <1>2, <2>1, <2>5
    <3>2. f[k + 1].text = <<>> /\ f[k + 1].kept = <<>> /\ from(k + 1) = 3 /\ k + 1 = 3
      BY <2>2, <2>4, <2>5, <3>1
    <3>3. Reading(<<>>, path, 3, 3)
      BY DEF Reading
    <3> QED
      BY <2>1, <3>2, <3>3
  <2>6. CASE k # 2
    <3>1. ~(d + 3 <= k + 1 /\ Spelt(path, k - 1))
      <4>1. d + 3 <= k + 1 => k - 1 \in Nat /\ k - 1 >= 4 /\ (k - 1) + 2 <= Len(path)
        BY <1>2, <1>5, <2>1, <2>6
      <4> QED
        BY <1>3, <4>1
    <3>2. d = from(k + 1)
      BY <2>1, <2>6 DEF d
    <3> QED
      BY <2>1, <2>2, <2>4, <3>1, <3>2
  <2> QED
    BY <2>5, <2>6
<1>6. \A n \in 0..Len(path) : n \in T
  <2> HIDE DEF T
  <2> QED
    BY <1>2, <1>4, <1>5, InductionTo
<1> DEFINE last == f[Len(path)]
<1>7. Len(path) \in 0..Len(path) /\ from(Len(path)) = 3
  BY <1>2
<1>8. last.kept = <<>> /\ Reading(last.text, path, 3, Len(path))
  BY <1>6, <1>7
<1>9. last.text \in Seq(STRING) /\ WithoutAnchor(path) = last.kept \o last.text
  BY <1>1, <1>7 DEF ReplaceRun
<1>10. <<>> \o last.text = last.text
  <2> HIDE DEF last
  <2> QED
    BY <1>9, ConcatEmptySeq
<1> QED
  BY <1>8, <1>9, <1>10

(* An absolute path that begins with anything else keeps its first "/".    *)
LEMMA KeepsSlash ==
  ASSUME NEW path \in Seq(STRING), Absolute(path), ~IsPrefix(AnchorPath, path)
  PROVE  WithoutAnchor(path) # <<>> /\ WithoutAnchor(path)[1] = "/"
<1>1. PICK f : ReplaceRun(f, path)
  BY ReplaceRuns
<1>2. Len(path) \in Nat \ {0} /\ path[1] = "/"
  BY EmptySeq, HeadTailProperties DEF Absolute
<1>3. Len(path) >= 3 => ~Spelt(path, 1)
  BY PrefixMeans
<1> DEFINE T == {n \in 0..Len(path) :
                    \/ f[n].kept # <<>> /\ f[n].kept[1] = "/"
                    \/ f[n].kept = <<>> /\ Reading(f[n].text, path, 0, n)}
<1>4. 0 \in T
  <2>1. f[0].kept = <<>> /\ f[0].text = <<>>
    BY <1>1 DEF ReplaceRun
  <2>2. Reading(<<>>, path, 0, 0)
    BY DEF Reading
  <2> QED
    BY <1>2, <2>1, <2>2
<1>5. ASSUME NEW k \in 0..Len(path), k \in T, k < Len(path)
      PROVE  k + 1 \in T
  <2>1. k \in Nat /\ k + 1 \in 0..Len(path) /\ path[k + 1] \in STRING
    BY <1>2, <1>5, ElementOfSeq
  <2>2. /\ f[k] \in ReplaceState /\ f[k + 1] \in ReplaceState
        /\ f[k + 1] = Replace(f[k], path[k + 1])
    BY <1>1, <1>5, <2>1 DEF ReplaceRun, ReplaceState
  <2>3. CASE f[k].kept # <<>> /\ f[k].kept[1] = "/"
    <3>1. f[k + 1].kept # <<>> /\ f[k + 1].kept[1] = f[k].kept[1]
      BY <2>1, <2>2, <2>3, ReplaceKeeps
    <3> QED
      BY <2>1, <2>3, <3>1
  <2>4. CASE f[k].kept = <<>> /\ Reading(f[k].text, path, 0, k)
    <3>1. /\ 0 + 3 <= k + 1 /\ Spelt(path, k - 1) =>
                /\ f[k + 1].text = <<>>
                /\ k + 1 > 0 + 3 /\ f[k].kept = <<>> =>
                      f[k + 1].kept # <<>> /\ f[k + 1].kept[1] = path[0 + 1]
          /\ ~(0 + 3 <= k + 1 /\ Spelt(path, k - 1)) =>
                /\ f[k + 1].kept = f[k].kept
                /\ Reading(f[k + 1].text, path, 0, k + 1)
      <4>1. 0 \in Nat /\ 0 <= k
        BY <2>1
      <4> QED
        BY <1>5, <2>1, <2>2, <2>4, <4>1, ReplaceStep
    <3>2. ASSUME 0 + 3 <= k + 1, Spelt(path, k - 1)
          PROVE  k + 1 > 0 + 3
      <4>1. k # 2
        BY <1>2, <1>3, <1>5, <3>2
      <4> QED
        BY <2>1, <3>2, <4>1
    <3> QED
      BY <1>2, <2>1, <2>4, <3>1, <3>2
  <2> QED
    BY <1>5, <2>3, <2>4
<1>6. \A n \in 0..Len(path) : n \in T
  <2>1. Len(path) \in Nat
    BY <1>2
  <2> HIDE DEF T
  <2> QED
    BY <1>4, <1>5, <2>1, InductionTo
<1> DEFINE kept == f[Len(path)].kept
           text == f[Len(path)].text
<1>7. Len(path) \in 0..Len(path)
  BY <1>2
<1>8. \/ kept # <<>> /\ kept[1] = "/"
      \/ kept = <<>> /\ Reading(text, path, 0, Len(path))
  BY <1>6, <1>7
<1>9. kept \in Seq(STRING) /\ text \in Seq(STRING) /\ WithoutAnchor(path) = kept \o text
  BY <1>1, <1>7 DEF ReplaceRun
<1> HIDE DEF kept, text
<1>10. CASE kept # <<>> /\ kept[1] = "/"
  <2>1. Len(kept) \in Nat \ {0} /\ Len(text) \in Nat
    BY <1>9, <1>10, EmptySeq, LenProperties
  <2>2. /\ Len(kept \o text) = Len(kept) + Len(text)
        /\ \A i \in 1..Len(kept) + Len(text) :
              (kept \o text)[i] = IF i <= Len(kept) THEN kept[i] ELSE text[i - Len(kept)]
    BY <1>9, ConcatProperties
  <2>3. Len(kept \o text) # 0 /\ (kept \o text)[1] = kept[1]
    BY <2>1, <2>2
  <2> QED
    BY <1>9, <1>10, <2>3, EmptySeq
<1>11. CASE kept = <<>> /\ Reading(text, path, 0, Len(path))
  <2>1. WithoutAnchor(path) = text
    BY <1>9, <1>11, ConcatEmptySeq
  <2>2. Len(text) # 0 /\ text[1] = path[1]
    <3>1. Len(path) - 0 = Len(path) /\ 0 + 1 = 1 /\ 1 \in 1..Len(path)
      BY <1>2
    <3> QED
      BY <1>2, <1>11, <3>1 DEF Reading
  <2> QED
    BY <1>2, <2>1, <2>2, EmptySeq
<1> QED
  BY <1>8, <1>10, <1>11

(* The parts F are those of "/user/" and then the parts G.                 *)
Behind(F, G) ==
    /\ Len(F) = Len(G) + 2 /\ F[1] = <<>> /\ F[2] = <<"user">>
    /\ \A i \in 1..Len(G) : F[i + 2] = G[i]

(* It remains so when both get the same token more.                        *)
LEMMA CutBehind ==
  ASSUME NEW F \in Seq(Part) \ {<<>>}, NEW G \in Seq(Part) \ {<<>>}, NEW token \in STRING,
         Behind(F, G)
  PROVE  Behind(Cut(F, token), Cut(G, token))
<1> DEFINE CF == Cut(F, token)
           CG == Cut(G, token)
<1>1. /\ Len(F) \in Nat \ {0} /\ Len(G) \in Nat \ {0} /\ Len(F) = Len(G) + 2
      /\ F[1] = <<>> /\ F[2] = <<"user">>
      /\ \A i \in 1..Len(G) : F[i + 2] = G[i]
  BY CutFacts DEF Behind
<1>2. CASE token = "/"
  <2>1. /\ Len(CF) = Len(F) + 1 /\ CF[Len(F) + 1] = <<>>
        /\ \A i \in 1..Len(F) : CF[i] = F[i]
    BY <1>2, CutFacts
  <2>2. /\ Len(CG) = Len(G) + 1 /\ CG[Len(G) + 1] = <<>>
        /\ \A i \in 1..Len(G) : CG[i] = G[i]
    BY <1>2, CutFacts
  <2> HIDE DEF CF, CG
  <2>3. CF[1] = <<>> /\ CF[2] = <<"user">> /\ Len(CF) = Len(CG) + 2
    BY <1>1, <2>1, <2>2
  <2>4. ASSUME NEW i \in 1..Len(CG) PROVE CF[i + 2] = CG[i]
    <3>1. CASE i = Len(G) + 1
      <4>1. i + 2 = Len(F) + 1
        BY <1>1, <3>1
      <4> QED
        BY <2>1, <2>2, <3>1, <4>1
    <3>2. CASE i # Len(G) + 1
      <4>1. i \in 1..Len(G) /\ i + 2 \in 1..Len(F)
        BY <1>1, <2>2, <3>2
      <4> QED
        BY <1>1, <2>1, <2>2, <4>1
    <3> QED
      BY <3>1, <3>2
  <2> QED
    BY <2>3, <2>4 DEF Behind, CF, CG
<1>3. CASE token # "/"
  <2>1. /\ Len(CF) = Len(F) /\ CF[Len(F)] = Append(F[Len(F)], token)
        /\ \A i \in 1..Len(F) - 1 : CF[i] = F[i]
    BY <1>3, CutFacts
  <2>2. /\ Len(CG) = Len(G) /\ CG[Len(G)] = Append(G[Len(G)], token)
        /\ \A i \in 1..Len(G) - 1 : CG[i] = G[i]
    BY <1>3, CutFacts
  <2> HIDE DEF CF, CG
  <2>3. CF[1] = <<>> /\ CF[2] = <<"user">> /\ Len(CF) = Len(CG) + 2
    BY <1>1, <2>1, <2>2
  <2>4. ASSUME NEW i \in 1..Len(CG) PROVE CF[i + 2] = CG[i]
    <3>1. CASE i = Len(G)
      <4>1. i + 2 = Len(F) /\ F[i + 2] = G[i]
        BY <1>1, <3>1
      <4> QED
        BY <2>1, <2>2, <3>1, <4>1
    <3>2. CASE i # Len(G)
      <4>1. i \in 1..Len(G) - 1 /\ i \in 1..Len(G) /\ i + 2 \in 1..Len(F) - 1
        BY <1>1, <2>2, <3>2
      <4> QED
        BY <1>1, <2>1, <2>2, <4>1
    <3> QED
      BY <3>1, <3>2
  <2> QED
    BY <2>3, <2>4 DEF Behind, CF, CG
<1> QED
  BY <1>2, <1>3

(* The parts of a path that begins with "/user/".                          *)
LEMMA SplitBehind ==
  ASSUME NEW path \in Seq(STRING), NEW rest \in Seq(STRING), IsPrefix(AnchorPath, path),
         Reading(rest, path, 3, Len(path))
  PROVE  Behind(Split(path), Split(rest))
<1>1. PICK f : SplitRun(f, path)
  BY SplitRuns
<1>2. PICK g : SplitRun(g, rest)
  BY SplitRuns
<1>3. /\ Len(path) \in Nat /\ Len(path) >= 3
      /\ path[1] = "/" /\ path[2] = "user" /\ path[3] = "/"
      /\ \A i \in 1..Len(path) : path[i] \in STRING
  BY LenProperties, ElementOfSeq, PrefixMeans DEF Spelt
<1>4. Len(rest) = Len(path) - 3 /\ \A i \in 1..Len(rest) : rest[i] = path[3 + i]
  BY DEF Reading
<1> DEFINE T == {n \in 0..Len(rest) : Behind(f[3 + n], g[n])}
<1>5. 0 \in T
  <2> DEFINE f0 == f[0]
             f1 == f[1]
             f2 == f[2]
             f3 == f[3]
  <2>1. f0 = << <<>> >> /\ g[0] = << <<>> >>
    BY <1>1, <1>2 DEF SplitRun
  <2>2. /\ f0 \in Seq(Part) \ {<<>>} /\ f1 \in Seq(Part) \ {<<>>} /\ f2 \in Seq(Part) \ {<<>>}
        /\ f1 = Cut(f0, path[1]) /\ f2 = Cut(f1, path[2]) /\ f3 = Cut(f2, path[3])
    <3>1. \A n \in {0, 1, 2} : n \in 0..Len(path) /\ n < Len(path)
      BY <1>3
    <3>2. \A n \in {0, 1, 2} : /\ f[n] \in Seq(Part) \ {<<>>}
                               /\ f[n + 1] = Cut(f[n], path[n + 1])
      BY <1>1, <3>1 DEF SplitRun
    <3> QED
      BY <3>2
  <2>3. path[1] \in STRING /\ path[2] \in STRING /\ path[3] \in STRING
    BY <1>3
  <2> HIDE DEF f0, f1, f2, f3
  <2>4. Len(f1) = 2 /\ f1[1] = <<>> /\ f1[2] = <<>>
    <3>1. /\ Len(f1) = Len(f0) + 1 /\ f1[Len(f0) + 1] = <<>>
          /\ \A i \in 1..Len(f0) : f1[i] = f0[i]
      BY <1>3, <2>2, <2>3, CutFacts
    <3>2. Len(f0) = 1 /\ f0[1] = <<>>
      BY <2>1
    <3> QED
      BY <3>1, <3>2
  <2>5. Len(f2) = 2 /\ f2[1] = <<>> /\ f2[2] = <<"user">>
    <3> DEFINE token == path[2]
    <3>1. token # "/" /\ token \in STRING /\ f2 = Cut(f1, token) /\ token = "user"
      BY <1>3, <2>2, <2>3
    <3> HIDE DEF token
    <3>2. /\ Len(f2) = Len(f1) /\ f2[Len(f1)] = Append(f1[Len(f1)], token)
          /\ \A i \in 1..Len(f1) - 1 : f2[i] = f1[i]
      <4>1. f1 \in Seq(Part) \ {<<>>} /\ token \in STRING /\ token # "/"
        BY <2>2, <3>1
      <4>2. /\ Len(Cut(f1, token)) = Len(f1)
            /\ Cut(f1, token)[Len(f1)] = Append(f1[Len(f1)], token)
            /\ \A i \in 1..Len(f1) - 1 : Cut(f1, token)[i] = f1[i]
        BY <4>1, CutFacts
      <4>3. f2 = Cut(f1, token)
        BY <3>1
      <4> QED
        BY <4>2, <4>3
    <3>3. Append(<<>>, "user") = <<"user">>
      OBVIOUS
    <3>4. Len(f2) = 2 /\ f2[1] = <<>>
      BY <2>4, <3>2
    <3>5. f2[2] = Append(f1[2], token)
      BY <2>4, <3>2
    <3>6. f2[2] = Append(<<>>, "user")
      BY <2>4, <3>1, <3>5, Zenon
    <3> QED
      BY <3>3, <3>4, <3>6
  <2>6. Len(f3) = 3 /\ f3[1] = <<>> /\ f3[2] = <<"user">> /\ f3[3] = <<>>
    <3>1. /\ Len(f3) = Len(f2) + 1 /\ f3[Len(f2) + 1] = <<>>
          /\ \A i \in 1..Len(f2) : f3[i] = f2[i]
      BY <1>3, <2>2, <2>3, CutFacts
    <3> QED
      BY <2>5, <3>1
  <2>7. Len(g[0]) = 1 /\ g[0][1] = <<>>
    BY <2>1
  <2>8. Behind(f3, g[0])
    BY <2>6, <2>7 DEF Behind
  <2>9. 0 \in 0..Len(rest) /\ 3 + 0 = 3
    BY <1>3, <1>4
  <2> QED
    BY <2>8, <2>9 DEF f3
<1>6. ASSUME NEW k \in 0..Len(rest), k \in T, k < Len(rest)
      PROVE  k + 1 \in T
  <2>1. /\ k + 1 \in 0..Len(rest) /\ 3 + k \in 0..Len(path) /\ 3 + k < Len(path)
        /\ (3 + k) + 1 = 3 + (k + 1) /\ k + 1 \in 1..Len(rest)
        /\ 3 + (k + 1) \in 1..Len(path)
    BY <1>3, <1>4, <1>6
  <2>2. /\ f[3 + k] \in Seq(Part) \ {<<>>}
        /\ f[3 + (k + 1)] = Cut(f[3 + k], path[3 + (k + 1)])
    BY <1>1, <2>1 DEF SplitRun
  <2>3. /\ g[k] \in Seq(Part) \ {<<>>}
        /\ g[k + 1] = Cut(g[k], rest[k + 1])
    BY <1>2, <1>6, <2>1 DEF SplitRun
  <2>4. rest[k + 1] = path[3 + (k + 1)] /\ rest[k + 1] \in STRING
    BY <1>3, <1>4, <2>1
  <2>5. Behind(f[3 + k], g[k])
    BY <1>6
  <2>6. Behind(f[3 + (k + 1)], g[k + 1])
    BY <2>2, <2>3, <2>4, <2>5, CutBehind
  <2> QED
    BY <2>1, <2>6
<1>7. \A n \in 0..Len(rest) : n \in T
  <2>1. Len(rest) \in Nat
    BY <1>3, <1>4
  <2> HIDE DEF T
  <2> QED
    BY <1>5, <1>6, <2>1, InductionTo
<1>8. Len(rest) \in 0..Len(rest) /\ 3 + Len(rest) = Len(path)
  BY <1>3, <1>4
<1> DEFINE n == Len(rest)
<1>9. Behind(f[3 + n], g[n])
  <2>1. n \in T
    <3> HIDE DEF T
    <3> QED
      BY <1>7, <1>8
  <2> HIDE DEF n
  <2> QED
    BY <2>1
<1>10. Behind(f[Len(path)], g[Len(rest)])
  <2>1. f[Len(path)] = f[3 + n]
    BY <1>8, Zenon
  <2> QED
    BY <1>9, <2>1, Zenon
<1> QED
  BY <1>1, <1>2, <1>10 DEF SplitRun

(* So the parts below the root are "user" and the parts of the rest.       *)
LEMMA SegmentsBehind ==
  ASSUME NEW path \in Seq(STRING), NEW rest \in Seq(STRING), IsPrefix(AnchorPath, path),
         Reading(rest, path, 3, Len(path)), rest # <<>>
  PROVE  /\ Tail(Segments(path)) \in Seq(Part)
         /\ Len(Tail(Segments(path))) = Len(Segments(rest)) + 1
         /\ Tail(Segments(path))[1] = <<"user">>
         /\ \A i \in 1..Len(Segments(rest)) :
               Tail(Segments(path))[i + 1] = Segments(rest)[i]
<1> DEFINE F == Split(path)
           G == Split(rest)
           SF == Segments(path)
           SG == Segments(rest)
<1>1. Behind(F, G)
  BY SplitBehind
<1>2. F \in Seq(Part) \ {<<>>} /\ G \in Seq(Part) \ {<<>>}
  BY SplitType
<1>3. /\ SF = IF Last(F) = <<>> THEN Front(F) ELSE F
      /\ SG = IF Last(G) = <<>> THEN Front(G) ELSE G
  BY DEF Segments
<1>4. path # <<>>
  BY PrefixMeans, EmptySeq
<1>5. SF \in Seq(Part) /\ SF # <<>> /\ SG \in Seq(Part) /\ SG # <<>>
  BY <1>4, SegmentsSome
<1> HIDE DEF F, G, SF, SG
<1>6. /\ Len(F) \in Nat \ {0} /\ Front(F) \in Seq(Part) /\ Len(Front(F)) = Len(F) - 1
      /\ \A i \in 1..Len(F) - 1 : Front(F)[i] = F[i]
  BY <1>2, FrontFacts
<1>7. /\ Len(G) \in Nat \ {0} /\ Front(G) \in Seq(Part) /\ Len(Front(G)) = Len(G) - 1
      /\ \A i \in 1..Len(G) - 1 : Front(G)[i] = G[i]
  BY <1>2, FrontFacts
<1>8. /\ Len(F) = Len(G) + 2 /\ F[1] = <<>> /\ F[2] = <<"user">>
      /\ \A i \in 1..Len(G) : F[i + 2] = G[i]
  BY <1>1 DEF Behind
<1>9. Last(F) = Last(G)
  BY <1>7, <1>8 DEF Last
<1>10. Len(SF) = Len(SG) + 2 /\ SF[2] = <<"user">> /\ \A i \in 1..Len(SG) : SF[i + 2] = SG[i]
  <2>1. CASE Last(G) = <<>>
    <3>1. SF = Front(F) /\ SG = Front(G)
      BY <1>3, <1>9, <2>1
    <3>2. Len(SF) = Len(SG) + 2 /\ SF[2] = <<"user">>
      BY <1>6, <1>7, <1>8, <3>1
    <3>3. ASSUME NEW i \in 1..Len(SG) PROVE SF[i + 2] = SG[i]
      <4>1. i \in 1..Len(G) - 1 /\ i \in 1..Len(G) /\ i + 2 \in 1..Len(F) - 1
        BY <1>7, <1>8, <3>1
      <4> QED
        BY <1>6, <1>7, <1>8, <3>1, <4>1
    <3> QED
      BY <3>2, <3>3
  <2>2. CASE Last(G) # <<>>
    BY <1>3, <1>8, <1>9, <2>2
  <2> QED
    BY <2>1, <2>2
<1>11. /\ Tail(SF) \in Seq(Part) /\ Len(Tail(SF)) = Len(SF) - 1
       /\ \A i \in 1..Len(Tail(SF)) : Tail(SF)[i] = SF[i + 1]
  BY <1>5, HeadTailProperties
<1>12. Len(SG) \in Nat \ {0}
  BY <1>5, EmptySeq
<1>13. Len(Tail(SF)) = Len(SG) + 1 /\ Tail(SF)[1] = <<"user">>
  BY <1>10, <1>11, <1>12
<1>14. ASSUME NEW i \in 1..Len(SG) PROVE Tail(SF)[i + 1] = SG[i]
  <2>1. i + 1 \in 1..Len(Tail(SF)) /\ (i + 1) + 1 = i + 2
    BY <1>12, <1>13
  <2> QED
    BY <1>10, <1>11, <2>1
<1> QED
  BY <1>11, <1>13, <1>14, Zenon DEF SF, SG

-----------------------------------------------------------------------------
(* Ways                                                                    *)

(* What each of the three kinds of segment leads to.                       *)
LEMMA SegMeans ==
    ASSUME NEW a, NEW b, NEW seg
    PROVE  /\ IsParent(seg) => (SegLeads(a, seg, b) <=> a # BigBang /\ b = Parent[a])
           /\ IsAllChildren(seg) => (SegLeads(a, seg, b) <=> b \in ChildrenOf(a))
           /\ IsChildName(seg) =>
                 (SegLeads(a, seg, b) <=> b \in ChildrenOf(a) /\ Name[b] = seg)
<1>1. ~(IsParent(seg) /\ IsAllChildren(seg))
  BY DEF IsParent, IsAllChildren
<1> HIDE DEF IsParent, IsAllChildren
<1>2. CASE IsParent(seg)
  BY <1>1, <1>2 DEF SegLeads, IsChildName
<1>3. CASE IsAllChildren(seg)
  BY <1>1, <1>3 DEF SegLeads, IsChildName
<1>4. CASE IsChildName(seg)
  BY <1>4 DEF SegLeads, IsChildName
<1> QED
  BY <1>2, <1>3, <1>4 DEF IsChildName

(* The guardians are actors that are up, and which is above which.         *)
LEMMA TreeFacts ==
    /\ Guardians \subseteq Alive /\ Alive \subseteq Actor
    /\ BigBang \in Actor /\ Root \in Actor /\ User \in Actor
    /\ Root # BigBang /\ User # BigBang /\ User # Root
    /\ Parent[Root] = BigBang /\ Parent[User] = Root
    /\ TopLevel \subseteq Actor /\ BigBang \notin TopLevel /\ Root \notin TopLevel
    /\ \A a \in TopLevel : Parent[a] = Root
    /\ \A a \in Actor \ {BigBang} : Parent[a] \in Actor
    /\ \A a \in Actor \ Guardians : Parent[a] # Root
  BY TreeAssumption DEF Guardians, TopLevel

(* An actor listed below another has it for its parent.                    *)
LEMMA ChildFacts ==
    ASSUME NEW a, NEW c \in ChildrenOf(a)
    PROVE  c \in Actor /\ c # BigBang /\ c # Root /\ Parent[c] = a
  BY DEF ChildrenOf

(* No step but the first of a way is taken before it begins.               *)
LEMMA NoWay ==
    ASSUME NEW from \in Actor, NEW segs, NEW S
    PROVE  \E w \in Ways(from, segs, 0, S) : w[0] = from
<1> DEFINE w == [i \in 0..0 |-> from]
<1>1. w \in [0..0 -> Actor] /\ w[0] = from
  OBVIOUS
<1>2. w \in Ways(from, segs, 0, S)
  BY <1>1 DEF Ways
<1> QED
  BY <1>1, <1>2

(* A way is extended by what the next segment leads to.                    *)
LEMMA WayOn ==
    ASSUME NEW from, NEW segs, NEW S, NEW k \in Nat, NEW w \in Ways(from, segs, k, S),
           NEW b \in Actor, b \in S, SegLeads(w[k], segs[k + 1], b)
    PROVE  \E u \in Ways(from, segs, k + 1, S) : u[k + 1] = b
<1> DEFINE u == [i \in 0..k + 1 |-> IF i = k + 1 THEN b ELSE w[i]]
<1>1. w \in [0..k -> Actor] /\ w[0] = from
  BY DEF Ways
<1>2. \A i \in 1..k : w[i] \in S /\ SegLeads(w[i - 1], segs[i], w[i])
  BY DEF Ways
<1>3. u \in [0..k + 1 -> Actor] /\ u[k + 1] = b
  BY <1>1
<1>4. \A i \in 0..k : u[i] = w[i]
  BY <1>1
<1>5. u[0] = from
  BY <1>1, <1>4
<1>6. ASSUME NEW i \in 1..k + 1
      PROVE  u[i] \in S /\ SegLeads(u[i - 1], segs[i], u[i])
  <2>1. CASE i = k + 1
    <3>1. u[i - 1] = w[k]
      BY <1>4, <2>1
    <3> QED
      BY <1>3, <2>1, <3>1
  <2>2. CASE i # k + 1
    <3>1. i \in 1..k /\ i - 1 \in 0..k /\ i \in 0..k
      BY <2>2
    <3>2. u[i - 1] = w[i - 1] /\ u[i] = w[i]
      BY <1>4, <3>1
    <3> QED
      BY <1>1, <1>2, <3>1, <3>2
  <2> QED
    BY <2>1, <2>2
<1> HIDE DEF u
<1>7. u \in Ways(from, segs, k + 1, S)
  BY <1>3, <1>5, <1>6 DEF Ways
<1> QED
  BY <1>3, <1>7

(* A way through some actors is one through more.                          *)
LEMMA MoreWays ==
    ASSUME NEW from, NEW segs, NEW n, NEW S, NEW T, S \subseteq T
    PROVE  Ways(from, segs, n, S) \subseteq Ways(from, segs, n, T)
  BY DEF Ways

(* Where the path ends that has no "*" among its first k segments.         *)
LEMMA EndAfter ==
    ASSUME NEW segs, Len(segs) \in Nat, NEW k \in Nat, k < Len(segs),
           \A i \in 1..k : ~IsAllChildren(segs[i])
    PROVE  /\ \A n \in Ends(segs) : n \in k + 1..Len(segs)
           /\ (k + 1 = Len(segs) \/ IsAllChildren(segs[k + 1])) =>
                 Ends(segs) = {k + 1}
<1>1. \A n \in Ends(segs) : n \in k + 1..Len(segs)
  BY DEF Ends
<1>2. ASSUME k + 1 = Len(segs) \/ IsAllChildren(segs[k + 1])
      PROVE  Ends(segs) = {k + 1}
  <2>1. k + 1 \in Ends(segs)
    BY <1>2 DEF Ends
  <2>2. ASSUME NEW n \in Ends(segs)
        PROVE  n = k + 1
    <3>1. n \in k + 1..Len(segs) /\ \A i \in 1..n - 1 : ~IsAllChildren(segs[i])
      BY <1>1 DEF Ends
    <3> QED
      BY <1>2, <3>1
  <2> QED
    BY <2>1, <2>2
<1> QED
  BY <1>1, <1>2

(* What the step of a way is.                                              *)
LEMMA WayStep ==
    ASSUME NEW from, NEW segs, NEW n \in Nat, NEW S, NEW v \in Ways(from, segs, n, S),
           NEW i \in 1..n
    PROVE  v[i] \in S /\ v[i] \in Actor /\ SegLeads(v[i - 1], segs[i], v[i])
<1>1. v \in [0..n -> Actor]
  BY DEF Ways
<1>2. v[i] \in Actor
  BY <1>1
<1> QED
  BY <1>2 DEF Ways

(* A way less its last step.                                               *)
LEMMA WayBack ==
    ASSUME NEW from, NEW segs, NEW S, NEW k \in Nat, NEW w \in Ways(from, segs, k + 1, S)
    PROVE  \E u \in Ways(from, segs, k, S) : u[k] = w[k]
<1> DEFINE u == [i \in 0..k |-> w[i]]
<1>1. /\ w \in [0..k + 1 -> Actor] /\ w[0] = from
      /\ \A i \in 1..k + 1 : w[i] \in S /\ SegLeads(w[i - 1], segs[i], w[i])
  BY DEF Ways
<1>2. u \in [0..k -> Actor] /\ \A i \in 0..k : u[i] = w[i]
  BY <1>1
<1>3. u[0] = from /\ u[k] = w[k]
  BY <1>1, <1>2
<1>4. ASSUME NEW i \in 1..k
      PROVE  u[i] \in S /\ SegLeads(u[i - 1], segs[i], u[i])
  <2>1. i \in 1..k + 1 /\ i - 1 \in 0..k /\ i \in 0..k
    OBVIOUS
  <2>2. u[i - 1] = w[i - 1] /\ u[i] = w[i]
    BY <1>2, <2>1
  <2> QED
    BY <1>1, <2>1, <2>2
<1> HIDE DEF u
<1>5. u \in Ways(from, segs, k, S)
  BY <1>2, <1>3, <1>4 DEF Ways
<1> QED
  BY <1>3, <1>5

(* How far a path goes: it ends there and nowhere else.                    *)
LEMMA ExtentFacts ==
    ASSUME NEW segs \in Seq(Part)
    PROVE  /\ Extent(segs) \in 0..Len(segs)
           /\ segs # <<>> => Extent(segs) \in 1..Len(segs) /\ Ends(segs) = {Extent(segs)}
<1> DEFINE stars == {i \in DOMAIN segs : IsAllChildren(segs[i])}
           e == Extent(segs)
<1>1. Len(segs) \in Nat /\ DOMAIN segs = 1..Len(segs)
  BY LenProperties
<1>2. e = IF stars = {} THEN Len(segs) ELSE Min(stars)
  BY DEF Extent
<1>3. stars # {} => Min(stars) \in stars /\ \A i \in stars : Min(stars) <= i
  <2>1. stars \subseteq Nat
    BY <1>1
  <2> HIDE DEF stars
  <2> QED
    BY <2>1, LeastNat DEF Min
<1>4. segs # <<>> => Len(segs) > 0
  BY <1>1, EmptySeq
<1> HIDE DEF e
<1>5. e \in 0..Len(segs)
  BY <1>1, <1>2, <1>3
<1>6. ASSUME segs # <<>>
      PROVE  e \in 1..Len(segs) /\ Ends(segs) = {e}
  <2>1. e \in 1..Len(segs) /\ (e = Len(segs) \/ IsAllChildren(segs[e]))
    <3>1. CASE stars = {}
      BY <1>1, <1>2, <1>4, <1>6, <3>1
    <3>2. CASE stars # {}
      <4>1. e \in stars
        <5> HIDE DEF stars
        <5>1. e = Min(stars)
          BY <1>2, <3>2
        <5>2. Min(stars) \in stars
          BY <1>3, <3>2, Zenon
        <5> QED
          BY <5>1, <5>2
      <4> QED
        BY <1>1, <4>1
    <3> QED
      BY <3>1, <3>2
  <2>n. Len(segs) \in Nat /\ e \in 1..Len(segs)
    BY <1>1, <2>1
  <2>2. \A i \in 1..e - 1 : ~IsAllChildren(segs[i])
    <3> SUFFICES ASSUME NEW i \in 1..e - 1, IsAllChildren(segs[i]) PROVE FALSE
      OBVIOUS
    <3>1. i \in 1..Len(segs) /\ i < e
      BY <2>n
    <3>2. i \in stars
      BY <1>1, <3>1
    <3>3. e <= i
      BY <1>2, <1>3, <3>2
    <3> QED
      BY <2>n, <3>1, <3>3
  <2> DEFINE k == e - 1
  <2>3. k \in Nat /\ k < Len(segs) /\ k + 1 = e
    BY <2>n
  <2>4. \A i \in 1..k : ~IsAllChildren(segs[i])
    BY <2>2
  <2> HIDE DEF k
  <2>5. k + 1 = Len(segs) \/ IsAllChildren(segs[k + 1])
    <3>1. CASE e = Len(segs)
      BY <2>3, <3>1
    <3>2. CASE IsAllChildren(segs[e])
      BY <2>3, <3>2, Zenon
    <3> QED
      BY <2>1, <3>1, <3>2
  <2>6. Ends(segs) = {k + 1}
    BY <1>1, <2>3, <2>4, <2>5, EndAfter, Zenon
  <2> QED
    BY <2>1, <2>3, <2>6
<1> QED
  BY <1>5, <1>6 DEF e

(* What one segment leads to from any of several actors.                   *)
LeadsOn(before, seg, among) == {b \in among : \E a \in before : SegLeads(a, seg, b)}

(* f holds what the first n segments lead to for each n.                   *)
LeadRun(f, from, segs, among) ==
    /\ f[0] = {from}
    /\ \A n \in 0..Extent(segs) :
          n < Extent(segs) => f[n + 1] = LeadsOn(f[n], segs[n + 1], among)
    /\ LeadTo(from, segs, among) = f[Extent(segs)]

(* There are such sets of actors.                                          *)
LEMMA LeadRuns ==
  ASSUME NEW segs \in Seq(Part), NEW from \in Actor, NEW among \in SUBSET Actor
  PROVE  \E f : LeadRun(f, from, segs, among)
<1> DEFINE S == SUBSET Actor
           N == Extent(segs)
           step == [k \in 1..N |-> [before \in S |-> LeadsOn(before, segs[k], among)]]
           Reads(f) == f = [n \in 0..Extent(segs) |->
                              IF n = 0 THEN {from}
                              ELSE LET before == f[n - 1]
                                   IN  {b \in among : \E a \in before : SegLeads(a, segs[n], b)}]
           reached == CHOOSE f : Reads(f)
<1>1. N \in Nat
  BY ExtentFacts, LenProperties
<1>2. {from} \in S
  OBVIOUS
<1>3. \A before \in S : \A k \in 1..N : LeadsOn(before, segs[k], among) \in S
  BY DEF LeadsOn
<1>4. \E f : Reads(f)
  <2>1. step \in [1..N -> [S -> S]]
    <3> HIDE DEF S, N
    <3> QED
      BY <1>3
  <2>2. PICK f : Goes(f, S, {from}, step, N)
    <3> HIDE DEF S, step, N
    <3> QED
      BY <1>1, <1>2, <2>1, RecursionTo
  <2>3. ASSUME NEW k \in 0..N
        PROVE  f[k] = IF k = 0 THEN {from} ELSE LeadsOn(f[k - 1], segs[k], among)
    <3> HIDE DEF N
    <3>1. k # 0 => k \in 1..N /\ k - 1 \in 0..N
      BY <1>1
    <3>2. k # 0 => f[k - 1] \in S
      BY <2>2, <3>1 DEF Goes
    <3>3. k # 0 => step[k][f[k - 1]] = LeadsOn(f[k - 1], segs[k], among)
      <4> HIDE DEF S
      <4> QED
        BY <3>1, <3>2
    <3> HIDE DEF S, step
    <3> QED
      BY <2>2, <3>3 DEF Goes
  <2>4. f = [n \in 0..N |-> f[n]]
    BY <2>2 DEF Goes
  <2>5. Reads(f)
    BY <2>3, <2>4, Zenon DEF LeadsOn
  <2> QED
    BY <2>5
<1>5. Reads(reached)
  <2> HIDE DEF Reads
  <2> QED
    BY <1>4
<1>6. /\ reached[0] = {from}
      /\ \A n \in 0..N :
            n < N => reached[n + 1] = LeadsOn(reached[n], segs[n + 1], among)
  <2> HIDE DEF reached
  <2> QED
    BY <1>1, <1>5 DEF LeadsOn
<1>7. LeadTo(from, segs, among) = reached[N]
  BY Zenon DEF LeadTo
<1> HIDE DEF reached
<1> QED
  BY <1>6, <1>7 DEF LeadRun

(* A path leads to the ends of its ways.                                   *)
LEMMA LeadToWays ==
  ASSUME NEW segs \in Seq(Part), NEW from \in Actor, NEW among \in SUBSET Actor
  PROVE  LeadTo(from, segs, among) =
            {w[Extent(segs)] : w \in Ways(from, segs, Extent(segs), among)}
<1>1. PICK f : LeadRun(f, from, segs, among)
  BY LeadRuns
<1> DEFINE N == Extent(segs)
           At(n) == {w[n] : w \in Ways(from, segs, n, among)}
           T == {n \in 0..N : f[n] = At(n)}
<1>2. N \in Nat
  BY ExtentFacts, LenProperties
<1>3. 0 \in T
  <2>1. \A w \in Ways(from, segs, 0, among) : w[0] = from
    BY DEF Ways
  <2>2. from \in At(0)
    BY NoWay
  <2>3. At(0) = {from}
    BY <2>1, <2>2
  <2> QED
    BY <1>1, <1>2, <2>3 DEF LeadRun
<1>4. ASSUME NEW k \in 0..N, k \in T, k < N
      PROVE  k + 1 \in T
  <2>1. k \in Nat /\ k + 1 \in 0..N /\ f[k] = At(k)
    BY <1>2, <1>4
  <2>2. f[k + 1] = LeadsOn(At(k), segs[k + 1], among)
    BY <1>1, <1>4, <2>1 DEF LeadRun
  <2>3. ASSUME NEW b \in At(k + 1)
        PROVE  b \in LeadsOn(At(k), segs[k + 1], among)
    <3>1. PICK w \in Ways(from, segs, k + 1, among) : b = w[k + 1]
      OBVIOUS
    <3>2. k + 1 \in Nat /\ k + 1 \in 1..k + 1 /\ (k + 1) - 1 = k
      BY <2>1
    <3>3. w[k + 1] \in among /\ SegLeads(w[(k + 1) - 1], segs[k + 1], w[k + 1])
      BY <3>2, WayStep
    <3>4. w[k] \in At(k)
      BY <2>1, WayBack
    <3> HIDE DEF At
    <3> QED
      BY <3>1, <3>2, <3>3, <3>4 DEF LeadsOn
  <2>4. ASSUME NEW b \in LeadsOn(At(k), segs[k + 1], among)
        PROVE  b \in At(k + 1)
    <3>1. b \in among /\ \E a \in At(k) : SegLeads(a, segs[k + 1], b)
      <4> HIDE DEF At
      <4> QED
        BY DEF LeadsOn
    <3>2. PICK w \in Ways(from, segs, k, among) : SegLeads(w[k], segs[k + 1], b)
      BY <3>1
    <3>3. b \in Actor
      BY <3>1
    <3> QED
      BY <2>1, <3>1, <3>2, <3>3, WayOn
  <2>5. f[k + 1] = At(k + 1)
    <3> HIDE DEF At
    <3> QED
      BY <2>2, <2>3, <2>4
  <2> QED
    BY <2>1, <2>5
<1>5. \A n \in 0..N : n \in T
  <2> HIDE DEF T, N
  <2> QED
    BY <1>2, <1>3, <1>4, InductionTo
<1>6. f[N] = At(N)
  BY <1>2, <1>5
<1> QED
  BY <1>1, <1>6 DEF LeadRun

-----------------------------------------------------------------------------
(* The tree under the walk                                                 *)

TreeStep == \E a \in Actor : Create(a) \/ Unregister(a) \/ End(a) \/ DeathWatch(a)

(* A change of the tree leaves the walk alone, and makes nobody stable.    *)
LEMMA TreeFrame ==
    ASSUME TreeStep
    PROVE  UNCHANGED <<pc, selection, op, walk, told>> /\ stable' \subseteq stable
  BY DEF TreeStep, Create, Unregister, End, DeathWatch

(* It keeps the types of the tree.                                         *)
LEMMA TreeTypes ==
    ASSUME TypeOK, TreeInv, TreeStep
    PROVE  /\ open' \subseteq born' /\ born' \subseteq Actor
           /\ ended' \subseteq born' \ open' /\ freed' \subseteq open' \ Guardians
           /\ children' \in [Actor -> SUBSET Actor]
<1>1. /\ open \subseteq born /\ born \subseteq Actor /\ ended \subseteq born \ open
      /\ children \in [Actor -> SUBSET Actor] /\ freed \subseteq open \ Guardians
  BY DEF TypeOK
<1>2. PICK a \in Actor : Create(a) \/ Unregister(a) \/ End(a) \/ DeathWatch(a)
  BY DEF TreeStep
<1>3. CASE Create(a)
  <2>1. /\ a \notin born /\ born' = born \cup {a} /\ open' = open \cup {a} /\ ended' = ended
        /\ freed' = freed
        /\ children' = [children EXCEPT ![Parent[a]] =
                            {d \in children[Parent[a]] : Name[d] # Name[a]} \cup {a}]
    BY <1>3 DEF Create
  <2> QED
    BY <1>1, <2>1
<1>4. CASE Unregister(a) \/ End(a)
  BY <1>1, <1>4 DEF Unregister, End
<1>5. CASE DeathWatch(a)
  <2>1. /\ born' = born /\ open' = open /\ freed' = freed /\ ended' = ended \ {a}
        /\ children' = [children EXCEPT ![Parent[a]] = children[Parent[a]] \
                            {d \in children[Parent[a]] : Name[d] = Name[a]}]
    BY <1>5 DEF DeathWatch
  <2> QED
    BY <1>1, <2>1
<1> QED
  BY <1>2, <1>3, <1>4, <1>5

(* Create takes no stable actor off a list: the path was free.  DeathWatch *)
(* may take one, which is stable no longer.                                *)
LEMMA TreeKept == ASSUME TypeOK, TreeInv, TreeStep PROVE TreeInv'
<1>1. /\ open \subseteq born /\ born \subseteq Actor /\ ended \subseteq born \ open
      /\ children \in [Actor -> SUBSET Actor] /\ stable \subseteq open \ freed
      /\ freed \subseteq open \ Guardians
  BY DEF TypeOK
<1>2. /\ \A a \in Actor : children[a] \subseteq ChildrenOf(a) \cap born
      /\ \A a \in Actor : \A c, d \in children[a] : Name[c] = Name[d] => c = d
      /\ Guardians \subseteq open
      /\ TopLevel \subseteq children[Root]
      /\ \A a \in stable : /\ a \in open \ freed
                           /\ a \in Guardians \/ a \in children[Parent[a]]
  BY DEF TreeInv, IsUp
<1>3. PICK a \in Actor : Create(a) \/ Unregister(a) \/ End(a) \/ DeathWatch(a)
  BY DEF TreeStep
<1>g. User \in Guardians /\ Root \in Guardians /\ BigBang \in Guardians
  BY DEF Guardians, TopLevel
<1>4. CASE Create(a)
  <2> DEFINE p == Parent[a]
             kept == {d \in children[p] : Name[d] # Name[a]}
  <2>1. /\ a \notin born /\ born' = born \cup {a} /\ open' = open \cup {a}
        /\ stable' = stable /\ freed' = freed /\ p \in open
        /\ \A d \in open \ (freed \cup {BigBang}) : <<Parent[d], Name[d]>> # <<p, Name[a]>>
        /\ children' = [children EXCEPT ![p] = kept \cup {a}]
    BY <1>4 DEF Create
  <2>2. a \notin Guardians /\ p # Root /\ p \in Actor
    BY <1>1, <1>2, <2>1, TreeFacts
  <2>3. a \in ChildrenOf(p)
    BY <1>g, <2>2 DEF ChildrenOf
  <2>4. /\ children'[p] = kept \cup {a}
        /\ \A b \in Actor \ {p} : children'[b] = children[b]
    BY <1>1, <2>1, <2>2
  <2> HIDE DEF p
  <2>5. \A b \in Actor : children'[b] \subseteq ChildrenOf(b) \cap born'
    BY <1>2, <2>1, <2>3, <2>4
  <2>6. \A b \in Actor : \A c, d \in children'[b] : Name[c] = Name[d] => c = d
    BY <1>2, <2>2, <2>4
  <2>7. Guardians \subseteq open' /\ TopLevel \subseteq children'[Root]
    BY <1>2, <2>1, <2>2, <2>4, TreeFacts
  <2>8. ASSUME NEW b \in stable
        PROVE  b \in open' \ freed' /\ (b \in Guardians \/ b \in children'[Parent[b]])
    <3>1. b \in open \ freed /\ (b \in Guardians \/ b \in children[Parent[b]])
      BY <1>2
    <3>2. ASSUME b \notin Guardians
          PROVE  b \in children'[Parent[b]]
      <4>1. b \in children[Parent[b]] /\ b \in Actor /\ b # BigBang /\ Parent[b] \in Actor
        BY <1>1, <1>g, <3>1, <3>2, TreeFacts
      <4>2. Parent[b] = p => Name[b] # Name[a]
        BY <2>1, <3>1, <4>1
      <4> QED
        BY <2>4, <4>1, <4>2
    <3> QED
      BY <2>1, <3>1, <3>2
  <2> QED
    BY <2>1, <2>5, <2>6, <2>7, <2>8 DEF TreeInv, IsUp
<1>u. CASE Unregister(a)
  <2>1. /\ open' = open /\ freed' = freed \cup {a} /\ stable' = stable \ {a}
        /\ children' = children /\ born' = born
    BY <1>u DEF Unregister
  <2> QED
    BY <1>2, <2>1 DEF TreeInv, IsUp
<1>5. CASE End(a)
  <2>1. /\ open' = open \ {a} /\ freed' = freed \ {a} /\ a \in freed
        /\ stable' = stable /\ children' = children /\ born' = born
    BY <1>5 DEF End
  <2> QED
    BY <1>1, <1>2, <2>1 DEF TreeInv, IsUp
<1>6. CASE DeathWatch(a)
  <2> DEFINE p == Parent[a]
             gone == {d \in children[p] : Name[d] = Name[a]}
  <2>1. /\ a \in ended /\ born' = born /\ open' = open /\ freed' = freed
        /\ stable' = stable \ gone
        /\ children' = [children EXCEPT ![p] = children[p] \ gone]
    BY <1>6 DEF DeathWatch
  <2>2. a \notin Guardians /\ p # Root /\ p \in Actor
    BY <1>1, <1>2, <1>g, <2>1, TreeFacts
  <2>3. /\ children'[p] = children[p] \ gone
        /\ \A b \in Actor \ {p} : children'[b] = children[b]
    BY <1>1, <2>1, <2>2
  <2>4. gone \subseteq children[p]
    OBVIOUS
  <2> HIDE DEF p, gone
  <2>5. \A b \in Actor : children'[b] \subseteq children[b]
    BY <2>3
  <2>6. /\ \A b \in Actor : children'[b] \subseteq ChildrenOf(b) \cap born'
        /\ \A b \in Actor : \A c, d \in children'[b] : Name[c] = Name[d] => c = d
    BY <1>2, <2>1, <2>5
  <2>7. Guardians \subseteq open' /\ TopLevel \subseteq children'[Root]
    BY <1>2, <2>1, <2>2, <2>3, TreeFacts
  <2>8. ASSUME NEW b \in stable'
        PROVE  b \in open' \ freed' /\ (b \in Guardians \/ b \in children'[Parent[b]])
    <3>1. b \in open \ freed /\ b \notin gone /\ (b \in Guardians \/ b \in children[Parent[b]])
      BY <1>2, <2>1
    <3>2. ASSUME b \notin Guardians
          PROVE  b \in children'[Parent[b]]
      <4>1. b \in children[Parent[b]] /\ Parent[b] \in Actor
        BY <1>1, <1>g, <3>1, <3>2, TreeFacts
      <4> QED
        BY <2>3, <3>1, <4>1
    <3> QED
      BY <2>1, <3>1, <3>2
  <2> QED
    BY <2>6, <2>7, <2>8 DEF TreeInv, IsUp
<1> QED
  BY <1>3, <1>4, <1>u, <1>5, <1>6

(* A stable actor is on the list of the actor it is a child of.            *)
LEMMA StableListed ==
    ASSUME TypeOK, TreeInv, NEW a, NEW c \in stable, c \in ChildrenOf(a)
    PROVE  c \in children[a]
<1>1. c # BigBang /\ c # Root /\ Parent[c] = a
  BY ChildFacts
<1>2. CASE c \in Guardians
  BY <1>1, <1>2, TreeFacts DEF Guardians, TreeInv
<1>3. CASE c \notin Guardians
  BY <1>1, <1>3 DEF TreeInv, IsUp
<1> QED
  BY <1>2, <1>3

(* The rest of the invariant only gets easier when fewer actors are stable. *)
LEMMA StableFewer ==
    ASSUME SelectionInv, UNCHANGED <<pc, selection, op, walk, told>>,
           stable' \subseteq stable
    PROVE  /\ WalkInv' /\ Untold'
           /\ OnlySelected' /\ StableReached' /\ PanicsExplained'
<1>1. UNCHANGED <<pc, selection, op, anchor, path_vec, unvisited, child, told>>
  BY DEF walk
<1>2. /\ Segs' = Segs /\ From' = From
      /\ \A a : Suits(a)' = Suits(a) /\ Copies(a)' = Copies(a) /\ Takes(a)' = Takes(a)
      /\ EndsInName' = EndsInName
  BY <1>1 DEF Segs, From, Suits, Copies, Takes, EndsInName
<1>3. \A n \in Ends(Segs) :
          Ways(From, Segs, n, stable') \subseteq Ways(From, Segs, n, stable)
  BY MoreWays
<1>4. ASSUME NEW k, OnWay(k)
      PROVE  OnWay(k)'
  BY <1>1, <1>2, <1>3, <1>4 DEF OnWay
<1>5. NamedOK => NamedOK'
  BY <1>1, <1>2, <1>3 DEF NamedOK
<1>6. AllOK => AllOK'
  BY <1>1, <1>2 DEF AllOK
<1>7. WalkInv'
  BY <1>1, <1>2, <1>4, <1>5, <1>6 DEF WalkInv, SelectionInv
<1>8. Named(stable)' \subseteq Named(stable) /\ Named(Actor)' = Named(Actor)
  BY <1>1, <1>3 DEF Named, Segs, From
<1>9. OnlySelected'
  BY <1>1, <1>2, <1>8 DEF OnlySelected, SelectionInv
<1>10. StableReached'
  BY <1>1, <1>2, <1>8 DEF StableReached, SelectionInv
<1>11. PanicsExplained'
  BY <1>1, <1>2, <1>8 DEF PanicsExplained, SelectionInv
<1>12. Untold'
  BY <1>1 DEF Untold, SelectionInv, NotTold
<1> QED
  BY <1>7, <1>9, <1>10, <1>11, <1>12

-----------------------------------------------------------------------------
(* The walk                                                                *)

(* The walk leaves the tree alone.                                         *)
LEMMA WalkFrame == WalkStep => UNCHANGED <<tree, selection, op, stable>>
  BY DEF WalkStep, WalkParent, WalkAllChildren, WalkChildName, TellNamed, AllVisited,
         VisitChild

(* What does not change while the tree and the selection do not.           *)
LEMMA Same ==
    ASSUME UNCHANGED <<tree, selection, op, stable>>
    PROVE  /\ Segs' = Segs /\ From' = From
           /\ Named(Actor)' = Named(Actor) /\ Named(stable)' = Named(stable)
           /\ EndsInName' = EndsInName
           /\ \A a : Suits(a)' = Suits(a) /\ Takes(a)' = Takes(a)
           /\ TreeInv => TreeInv'
<1>1. UNCHANGED <<born, open, freed, children, ended, selection, op, stable>>
  BY DEF tree
<1>2. Segs' = Segs /\ From' = From
  BY <1>1 DEF Segs, From
<1>3. Named(Actor)' = Named(Actor) /\ Named(stable)' = Named(stable)
  BY <1>1 DEF Named
<1>4. EndsInName' = EndsInName
  BY <1>1 DEF EndsInName
<1>5. \A a : Suits(a)' = Suits(a) /\ Takes(a)' = Takes(a)
  BY <1>1, <1>4 DEF Suits, Takes
<1>6. TreeInv => TreeInv'
  BY <1>1 DEF TreeInv, IsUp
<1> QED
  BY <1>2, <1>3, <1>4, <1>5, <1>6

Told == [Actor -> [user : 0..1, sys : 0..1]]

(* At the start of a walk nobody has been told.                            *)
LEMMA NotToldFacts == NotTold \in Told /\ \A a \in Actor : NotTold[a].user + NotTold[a].sys = 0
  BY DEF NotTold, Told

(* A message is put into the mailbox of an actor that has none yet.        *)
LEMMA Delivers ==
    ASSUME told \in Told, NEW a \in Actor, Copies(a) = 0,
           NEW how \in {"try_tell", "sys_tell"}, Deliver(a, how)
    PROVE  /\ told' \in Told
           /\ \A b \in Actor \ {a} : told'[b] = told[b]
           /\ told'[a].user + told'[a].sys \in 0..1
           /\ told'[a].sys > 0 => how = "sys_tell"
           /\ (how = "try_tell" /\ TryTellOk(a)) \/ (how = "sys_tell" /\ a \in open) =>
                 told'[a].user + told'[a].sys = 1
<1>1. told[a] \in [user : 0..1, sys : 0..1]
  BY DEF Told
<1>2. told[a].user = 0 /\ told[a].sys = 0
  BY <1>1 DEF Copies
<1>3. CASE how = "try_tell" /\ TryTellOk(a)
  <2>1. told' = [told EXCEPT ![a].user = told[a].user + 1]
    BY <1>3 DEF Deliver
  <2>2. told' = [told EXCEPT ![a] = [told[a] EXCEPT !.user = told[a].user + 1]]
    BY <2>1
  <2>3. [told[a] EXCEPT !.user = told[a].user + 1] = [user |-> 1, sys |-> 0]
    BY <1>1, <1>2
  <2>4. told' = [told EXCEPT ![a] = [user |-> 1, sys |-> 0]]
    BY <2>2, <2>3
  <2> QED
    BY <1>3, <2>4 DEF Told
<1>4. CASE how = "sys_tell" /\ a \in open
  <2>1. told' = [told EXCEPT ![a].sys = told[a].sys + 1]
    BY <1>4 DEF Deliver
  <2>2. told' = [told EXCEPT ![a] = [told[a] EXCEPT !.sys = told[a].sys + 1]]
    BY <2>1
  <2>3. [told[a] EXCEPT !.sys = told[a].sys + 1] = [user |-> 0, sys |-> 1]
    BY <1>1, <1>2
  <2>4. told' = [told EXCEPT ![a] = [user |-> 0, sys |-> 1]]
    BY <2>2, <2>3
  <2> QED
    BY <1>4, <2>4 DEF Told
<1>5. CASE ~(how = "try_tell" /\ TryTellOk(a)) /\ ~(how = "sys_tell" /\ a \in open)
  <2>1. told' = told
    BY <1>5 DEF Deliver
  <2> QED
    BY <1>2, <1>5, <2>1
<1> QED
  BY <1>3, <1>4, <1>5

(* Parents and all children are told in the way of the caller.             *)
LEMMA DeliveryHow ==
    ASSUME TypeOK, NEW kind \in {"Parent", "AllChildren"}
    PROVE  Delivery(kind) = op.how /\ op.how \in {"try_tell", "sys_tell"}
<1>1. op.how \in {"try_tell", "sys_tell"}
  BY DEF TypeOK
<1> QED
  BY <1>1 DEF Delivery, TryTellWalk, SysTellWalk

(* The segment the walk is at, and where its path ends.                    *)
LEMMA AtSeg ==
    ASSUME TypeOK, NEW k \in 0..Len(Segs), OnWay(k), path_vec # <<>>
    PROVE  /\ Len(Segs) \in Nat /\ k \in Nat /\ k < Len(Segs)
           /\ Len(path_vec) \in Nat /\ Len(path_vec) > 0
           /\ Head(path_vec) = path_vec[1] /\ Head(path_vec) = Segs[k + 1]
           /\ IsLast <=> k + 1 = Len(Segs)
           /\ \A n \in Ends(Segs) : n \in k + 1..Len(Segs)
           /\ IsLast \/ IsAllChildren(Head(path_vec)) => Ends(Segs) = {k + 1}
<1>1. path_vec \in Seq(Part) /\ Segs \in Seq(Part)
  BY DEF TypeOK, Segs
<1>2. Len(Segs) \in Nat /\ Len(path_vec) \in Nat /\ Len(path_vec) > 0
  BY <1>1, LenProperties, EmptySeq
<1>3. k \in Nat /\ k < Len(Segs)
  BY <1>2 DEF OnWay
<1>4. Head(path_vec) = path_vec[1] /\ Head(path_vec) = Segs[k + 1]
  BY <1>1, <1>2, <1>3, HeadTailProperties DEF OnWay
<1>5. IsLast <=> k + 1 = Len(Segs)
  BY <1>2, <1>3 DEF IsLast, OnWay
<1>6. \A i \in 1..k : ~IsAllChildren(Segs[i])
  BY DEF OnWay
<1>7. /\ \A n \in Ends(Segs) : n \in k + 1..Len(Segs)
      /\ (k + 1 = Len(Segs) \/ IsAllChildren(Segs[k + 1])) => Ends(Segs) = {k + 1}
  BY <1>2, <1>3, <1>6, EndAfter
<1> QED
  BY <1>2, <1>3, <1>4, <1>5, <1>7

(* The next step of every way there is: of those through stable actors,    *)
(* and of one to whatever the segment leads to.                            *)
LEMMA NextSeg ==
    ASSUME TypeOK, NEW k \in 0..Len(Segs), OnWay(k), path_vec # <<>>
    PROVE  /\ \A n \in Ends(Segs) : \A v \in Ways(From, Segs, n, stable) :
                 /\ v[k + 1] \in stable /\ v[k + 1] \in Actor
                 /\ SegLeads(anchor, Head(path_vec), v[k + 1])
           /\ \A b \in Actor : SegLeads(anchor, Head(path_vec), b) =>
                 \E w \in Ways(From, Segs, k + 1, Actor) : w[k + 1] = b
<1>1. /\ Len(Segs) \in Nat /\ k \in Nat /\ k < Len(Segs)
      /\ Head(path_vec) = Segs[k + 1]
      /\ \A n \in Ends(Segs) : n \in k + 1..Len(Segs)
  BY AtSeg
<1>2. ASSUME NEW n \in Ends(Segs), NEW v \in Ways(From, Segs, n, stable)
      PROVE  /\ v[k + 1] \in stable /\ v[k + 1] \in Actor
             /\ SegLeads(anchor, Head(path_vec), v[k + 1])
  <2>1. n \in Nat /\ k + 1 \in 1..n /\ (k + 1) - 1 = k
    BY <1>1
  <2>2. v[k + 1] \in stable /\ v[k + 1] \in Actor
        /\ SegLeads(v[(k + 1) - 1], Segs[k + 1], v[k + 1])
    BY <2>1, WayStep
  <2>3. v[k] = anchor
    BY DEF OnWay
  <2> QED
    BY <1>1, <2>1, <2>2, <2>3
<1>3. ASSUME NEW b \in Actor, SegLeads(anchor, Head(path_vec), b)
      PROVE  \E w \in Ways(From, Segs, k + 1, Actor) : w[k + 1] = b
  <2>1. PICK w \in Ways(From, Segs, k, Actor) : w[k] = anchor
    BY DEF OnWay
  <2>2. SegLeads(w[k], Segs[k + 1], b)
    BY <1>1, <1>3, <2>1
  <2>3. k \in Nat /\ b \in Actor
    BY <1>1
  <2>4. \A S : w \in Ways(From, Segs, k, S) /\ b \in S =>
                 \E u \in Ways(From, Segs, k + 1, S) : u[k + 1] = b
    BY <2>2, <2>3, WayOn
  <2> QED
    BY <2>3, <2>4
<1> QED
  BY <1>2, <1>3

(* One segment further.                                                    *)
LEMMA Advance ==
    ASSUME TypeOK, NEW k \in 0..Len(Segs), OnWay(k), path_vec # <<>>,
           ~IsAllChildren(Head(path_vec)),
           NEW b \in Actor, SegLeads(anchor, Head(path_vec), b),
           \A n \in Ends(Segs) : \A v \in Ways(From, Segs, n, stable) : v[k + 1] = b,
           anchor' = b, path_vec' = Tail(path_vec), UNCHANGED <<selection, stable>>
    PROVE  k + 1 \in 0..Len(Segs) /\ OnWay(k + 1)'
<1>1. /\ Len(Segs) \in Nat /\ k \in Nat /\ k < Len(Segs)
      /\ Head(path_vec) = Segs[k + 1]
  BY AtSeg
<1>2. Segs' = Segs /\ From' = From /\ stable' = stable
  BY DEF Segs, From
<1>3. path_vec \in Seq(Part) /\ Len(path_vec) = Len(Segs) - k
  BY DEF TypeOK, OnWay
<1>4. /\ Len(path_vec') = Len(path_vec) - 1
      /\ \A i \in 1..Len(path_vec') : path_vec'[i] = path_vec[i + 1]
  BY <1>3, HeadTailProperties
<1>5. Len(path_vec') = Len(Segs) - (k + 1)
  BY <1>1, <1>3, <1>4
<1>6. \A i \in 1..Len(path_vec') : path_vec'[i] = Segs[(k + 1) + i]
  <2> SUFFICES ASSUME NEW i \in 1..Len(path_vec')
               PROVE  path_vec'[i] = Segs[(k + 1) + i]
    OBVIOUS
  <2>1. i + 1 \in 1..Len(path_vec) /\ k + (i + 1) = (k + 1) + i
    BY <1>1, <1>3, <1>5
  <2> QED
    BY <1>4, <2>1 DEF OnWay
<1>7. \A i \in 1..k + 1 : ~IsAllChildren(Segs[i])
  BY <1>1 DEF OnWay
<1>8. \E w \in Ways(From, Segs, k + 1, Actor) : w[k + 1] = b
  BY NextSeg
<1> QED
  BY <1>1, <1>2, <1>5, <1>6, <1>7, <1>8 DEF OnWay

(* A step of the walk keeps the types if it keeps its own.                 *)
LEMMA WalkTypes ==
    ASSUME TypeOK, UNCHANGED <<tree, selection, op, stable>>, told' \in Told,
           pc' \in {"walk", "all", "named", "done", "panicked"},
           anchor' \in Actor, path_vec' \in Seq(Part), child' \in Actor,
           unvisited' \subseteq Names
    PROVE  TypeOK'
  BY DEF TypeOK, tree, Told

(* What has been told, apart from the other types.                         *)
LEMMA ToldType == TypeOK => told \in Told
  BY DEF TypeOK, Told

(* The end of the path is at hand: what it names.                          *)
LEMMA NamedAtEnd ==
    ASSUME TypeOK, NEW k \in 0..Len(Segs), OnWay(k), path_vec # <<>>,
           IsLast \/ IsAllChildren(Head(path_vec))
    PROVE  /\ \A a \in Named(stable) : a \in stable /\ a \in Actor
                                      /\ SegLeads(anchor, Head(path_vec), a)
           /\ \A b \in Actor : SegLeads(anchor, Head(path_vec), b) => b \in Named(Actor)
           /\ EndsInName <=> IsChildName(Head(path_vec))
<1>1. Ends(Segs) = {k + 1} /\ Head(path_vec) = Segs[k + 1]
  BY AtSeg
<1>2. \A S : Named(S) = {w[k + 1] : w \in Ways(From, Segs, k + 1, S)}
  BY <1>1 DEF Named, From, Segs
<1>3. EndsInName <=> IsChildName(Head(path_vec))
  BY <1>1 DEF EndsInName, Segs
<1> QED
  BY <1>1, <1>2, <1>3, NextSeg

(* Nobody has been told anything.                                          *)
LEMMA NobodyTold ==
    ASSUME told' = NotTold
    PROVE  OnlySelected' /\ told' \in Told
  BY NotToldFacts DEF OnlySelected, Copies

(* The walk ends with a message for one actor that its path names.         *)
LEMMA OneTold ==
    ASSUME told = NotTold, NEW a \in Named(Actor), a \in Actor,
           NEW how \in {"try_tell", "sys_tell"}, how = "sys_tell" => op.how = "sys_tell",
           Deliver(a, how), UNCHANGED <<tree, selection, op, stable>>
    PROVE  OnlySelected' /\ told' \in Told
<1>1. told \in Told /\ Copies(a) = 0
  BY NotToldFacts DEF Copies
<1>2. /\ told' \in Told
      /\ \A b \in Actor \ {a} : told'[b] = told[b]
      /\ told'[a].user + told'[a].sys \in 0..1
      /\ told'[a].sys > 0 => how = "sys_tell"
  BY <1>1, Delivers
<1>3. Named(Actor)' = Named(Actor) /\ op' = op
  BY Same
<1>4. \A b \in Actor \ {a} : told'[b].user + told'[b].sys = 0
  BY <1>2, NotToldFacts
<1> QED
  BY <1>2, <1>3, <1>4 DEF OnlySelected, Copies

(* A step up keeps the invariant (Selection::Parent).                      *)
LEMMA ParentStep == ASSUME SelectionInv, WalkParent PROVE SelectionInv'
<1>1. /\ TypeOK /\ TreeInv /\ told = NotTold /\ pc = "walk" /\ path_vec # <<>>
      /\ IsParent(Head(path_vec))
  BY DEF SelectionInv, WalkParent, AtSegment, Untold
<1>2. /\ UNCHANGED <<tree, selection, op, stable>>
      /\ unvisited' = unvisited /\ child' = child
  BY DEF WalkParent
<1>3. PICK k \in 0..Len(Segs) : OnWay(k)
  BY <1>1 DEF SelectionInv, WalkInv
<1>4. ~IsAllChildren(Head(path_vec)) /\ ~IsChildName(Head(path_vec))
  BY <1>1 DEF IsParent, IsAllChildren, IsChildName
<1>5. /\ Len(Segs) \in Nat /\ k \in Nat /\ k < Len(Segs)
      /\ IsLast <=> k + 1 = Len(Segs)
  BY <1>1, <1>3, AtSeg
<1>6. \A b : SegLeads(anchor, Head(path_vec), b) <=> anchor # BigBang /\ b = Parent[anchor]
  BY <1>1, SegMeans
<1>7. /\ TreeInv' /\ Segs' = Segs /\ From' = From
      /\ Named(stable)' = Named(stable) /\ \A a : Suits(a)' = Suits(a)
  BY <1>1, <1>2, Same
<1>8. /\ anchor \in Actor /\ path_vec \in Seq(Part) /\ child \in Actor
      /\ unvisited \subseteq Names /\ stable \subseteq open \ freed
  BY <1>1 DEF TypeOK
<1>9. CASE /\ anchor = BigBang \/ (anchor = Root /\ IsLast)
           /\ pc' = "panicked" /\ UNCHANGED <<anchor, path_vec, told>>
  <2>1. OnlySelected' /\ told' \in Told
    BY <1>1, <1>9, NobodyTold
  <2>2. TypeOK'
    BY <1>1, <1>2, <1>8, <1>9, <2>1, WalkTypes
  <2>3. \E n \in 1..Len(Segs) : \E w \in Ways(From, Segs, n, Actor) : w[n] = BigBang
    <3>1. CASE anchor = BigBang
      <4>1. PICK w \in Ways(From, Segs, k, Actor) : w[k] = anchor
        BY <1>3 DEF OnWay
      <4>2. w[0] = From
        BY DEF Ways
      <4>3. From # BigBang
        BY <1>1 DEF TypeOK, From
      <4>4. k # 0
        BY <3>1, <4>1, <4>2, <4>3
      <4>5. k \in 1..Len(Segs)
        BY <1>5, <4>4
      <4> QED
        BY <3>1, <4>1, <4>5
    <3>2. CASE anchor = Root /\ IsLast
      <4>1. SegLeads(anchor, Head(path_vec), BigBang)
        BY <1>6, <3>2, TreeFacts
      <4>2. \E w \in Ways(From, Segs, k + 1, Actor) : w[k + 1] = BigBang
        BY <1>1, <1>3, <4>1, NextSeg, TreeFacts
      <4>3. k + 1 \in 1..Len(Segs)
        BY <1>5
      <4> QED
        BY <4>2, <4>3
    <3> QED
      BY <1>9, <3>1, <3>2
  <2>4. PanicsExplained'
    BY <1>7, <2>3 DEF PanicsExplained, Segs, From
  <2>5. WalkInv' /\ Untold' /\ StableReached'
    BY <1>1, <1>9 DEF WalkInv, Untold, StableReached, NotTold
  <2> QED
    BY <1>7, <2>1, <2>2, <2>4, <2>5 DEF SelectionInv
<1>10. CASE /\ anchor # BigBang /\ anchor # Root /\ IsLast
            /\ Deliver(Parent[anchor], Delivery("Parent"))
            /\ pc' = "done" /\ UNCHANGED <<anchor, path_vec>>
  <2> DEFINE a == Parent[anchor]
  <2>1. a \in Actor /\ SegLeads(anchor, Head(path_vec), a)
    BY <1>6, <1>8, <1>10, TreeFacts
  <2>2. a \in Named(Actor) /\ ~EndsInName
    BY <1>1, <1>3, <1>4, <1>10, <2>1, NamedAtEnd
  <2>3. Delivery("Parent") = op.how /\ op.how \in {"try_tell", "sys_tell"}
    BY <1>1, DeliveryHow
  <2>4. Deliver(a, op.how)
    BY <1>10, <2>3
  <2>5. OnlySelected' /\ told' \in Told
    BY <1>1, <1>2, <2>1, <2>2, <2>3, <2>4, OneTold
  <2>6. TypeOK'
    BY <1>1, <1>2, <1>8, <1>10, <2>5, WalkTypes
  <2>7. ASSUME NEW b \in Named(stable), Suits(b)
        PROVE  told'[b].user + told'[b].sys = 1
    <3>1. b = a /\ b \in open
      BY <1>1, <1>3, <1>6, <1>8, <1>10, NamedAtEnd
    <3>2. op.how = "try_tell" => TryTellOk(b)
      BY <2>7, <3>1 DEF Suits, TryTellOk
    <3>3. told \in Told /\ Copies(a) = 0
      BY <1>1, <2>1, NotToldFacts DEF Copies
    <3> HIDE DEF a
    <3> QED
      BY <2>1, <2>3, <2>4, <3>1, <3>2, <3>3, Delivers
  <2>8. StableReached'
    BY <1>7, <2>7 DEF StableReached, Copies
  <2>9. WalkInv' /\ Untold' /\ PanicsExplained'
    BY <1>10 DEF WalkInv, Untold, PanicsExplained
  <2> QED
    BY <1>7, <2>5, <2>6, <2>8, <2>9 DEF SelectionInv
<1>11. CASE /\ anchor # BigBang /\ ~IsLast
            /\ anchor' = Parent[anchor] /\ path_vec' = Tail(path_vec)
            /\ UNCHANGED <<pc, told>>
  <2> DEFINE b == Parent[anchor]
  <2>1. b \in Actor /\ SegLeads(anchor, Head(path_vec), b)
    BY <1>6, <1>8, <1>11, TreeFacts
  <2>2. \A n \in Ends(Segs) : \A v \in Ways(From, Segs, n, stable) : v[k + 1] = b
    BY <1>1, <1>3, <1>6, NextSeg
  <2>3. UNCHANGED <<selection, stable>> /\ anchor' = b /\ path_vec' = Tail(path_vec)
    BY <1>2, <1>11
  <2> HIDE DEF b
  <2>4. k + 1 \in 0..Len(Segs) /\ OnWay(k + 1)'
    BY <1>1, <1>3, <1>4, <2>1, <2>2, <2>3, Advance
  <2>5. OnlySelected' /\ told' \in Told
    BY <1>1, <1>11, NobodyTold
  <2>6. path_vec' \in Seq(Part)
    BY <1>1, <1>8, <1>11, HeadTailProperties
  <2>7. TypeOK'
    BY <1>1, <1>2, <1>8, <1>11, <2>1, <2>3, <2>5, <2>6, WalkTypes
  <2>8. WalkInv'
    BY <1>1, <1>7, <1>11, <2>4 DEF WalkInv
  <2>9. Untold' /\ StableReached' /\ PanicsExplained'
    BY <1>1, <1>11 DEF Untold, StableReached, PanicsExplained, NotTold
  <2> QED
    BY <1>7, <2>5, <2>7, <2>8, <2>9 DEF SelectionInv
<1> QED
  BY <1>9, <1>10, <1>11 DEF WalkParent

(* So does the begin of an iteration over all children.                    *)
LEMMA AllChildrenStep == ASSUME SelectionInv, WalkAllChildren PROVE SelectionInv'
<1>1. /\ TypeOK /\ TreeInv /\ told = NotTold /\ pc = "walk" /\ path_vec # <<>>
      /\ IsAllChildren(Head(path_vec))
  BY DEF SelectionInv, WalkAllChildren, AtSegment, Untold
<1>2. /\ UNCHANGED <<tree, selection, op, stable>> /\ unvisited' = Names /\ pc' = "all"
      /\ UNCHANGED <<anchor, path_vec, child, told>>
  BY DEF WalkAllChildren
<1>3. PICK k \in 0..Len(Segs) : OnWay(k)
  BY <1>1 DEF SelectionInv, WalkInv
<1>4. TreeInv' /\ Segs' = Segs /\ From' = From
  BY <1>1, <1>2, Same
<1>5. OnlySelected' /\ told' \in Told
  BY <1>1, <1>2, NobodyTold
<1>6. TypeOK'
  BY <1>1, <1>2, <1>5, WalkTypes DEF TypeOK
<1>7. OnWay(k)'
  BY <1>2, <1>3, <1>4 DEF OnWay
<1>8. AllOK'
  <2>1. Len(path_vec) > 0 /\ Head(path_vec) = path_vec[1]
    BY <1>1, <1>3, AtSeg
  <2>2. \A a \in Actor : told'[a].user + told'[a].sys = 0
    BY <1>1, <1>2, NotToldFacts
  <2>3. \A a \in Actor : a \in ChildrenOf(anchor) => Name[a] \in Names
    BY DEF ChildrenOf, Names
  <2> QED
    BY <1>1, <1>2, <2>1, <2>2, <2>3 DEF AllOK, Copies
<1>9. WalkInv'
  BY <1>2, <1>4, <1>7, <1>8 DEF WalkInv
<1>10. Untold' /\ StableReached' /\ PanicsExplained'
  BY <1>2 DEF Untold, StableReached, PanicsExplained
<1> QED
  BY <1>4, <1>5, <1>6, <1>9, <1>10 DEF SelectionInv

(* A stable child with the name is the one that the iteration finds, for   *)
(* names are unique in the map at any time.                                *)
LEMMA VisitStep ==
    ASSUME SelectionInv, NEW name \in Names, VisitChild(name)
    PROVE  SelectionInv'
<1>1. /\ TypeOK /\ TreeInv /\ AllOK /\ OnlySelected /\ pc = "all" /\ name \in unvisited
  BY DEF SelectionInv, WalkInv, VisitChild
<1>2. /\ UNCHANGED <<tree, selection, op, stable>> /\ unvisited' = unvisited \ {name}
      /\ UNCHANGED <<pc, anchor, path_vec, child>>
  BY DEF VisitChild
<1>3. PICK k \in 0..Len(Segs) : OnWay(k)
  BY <1>1 DEF SelectionInv, WalkInv
<1>4. /\ TreeInv' /\ Segs' = Segs /\ From' = From /\ Named(Actor)' = Named(Actor)
      /\ \A a : Suits(a)' = Suits(a)
  BY <1>1, <1>2, Same
<1>5. OnWay(k)'
  BY <1>2, <1>3, <1>4 DEF OnWay
<1>6. path_vec # <<>> /\ Head(path_vec) = path_vec[1] /\ IsAllChildren(Head(path_vec))
  <2>1. path_vec \in Seq(Part) /\ Len(path_vec) > 0
    BY <1>1 DEF TypeOK, AllOK
  <2> QED
    BY <1>1, <2>1, EmptySeq, HeadTailProperties DEF AllOK
<1>7. told \in Told /\ anchor \in Actor
  BY <1>1, ToldType DEF TypeOK
<1>8. \A c, d \in Listed(name) : c = d
  BY <1>1, <1>7 DEF Listed, TreeInv
<1>9. \A c \in stable \cap ChildrenOf(anchor) : Name[c] = name => c \in Listed(name)
  BY <1>1, StableListed DEF Listed
<1>10. StableReached' /\ PanicsExplained' /\ Untold'
  BY <1>1, <1>2 DEF StableReached, PanicsExplained, Untold
<1>11. ASSUME OnlySelected', told' \in Told, AllOK'
       PROVE  SelectionInv'
  <2>1. TypeOK'
    BY <1>1, <1>2, <1>11, WalkTypes DEF TypeOK
  <2>2. WalkInv'
    BY <1>1, <1>2, <1>4, <1>5, <1>11 DEF WalkInv
  <2> QED
    BY <1>4, <1>10, <1>11, <2>1, <2>2 DEF SelectionInv
<1>12. CASE Listed(name) = {} /\ told' = told
  <2>1. \A a : Copies(a)' = Copies(a)
    BY <1>12 DEF Copies
  <2>2. OnlySelected'
    BY <1>1, <1>2, <1>4, <1>12, <2>1 DEF OnlySelected
  <2>3. AllOK'
    BY <1>1, <1>2, <1>4, <1>9, <1>12, <2>1 DEF AllOK
  <2> QED
    BY <1>7, <1>11, <1>12, <2>2, <2>3
<1>13. ASSUME NEW c \in Listed(name), Deliver(c, Delivery("AllChildren"))
       PROVE  SelectionInv'
  <2>1. c \in ChildrenOf(anchor) /\ c \in Actor /\ Name[c] = name
    BY <1>1, <1>7, ChildFacts DEF Listed, TreeInv
  <2>2. Copies(c) = 0
    <3>1. told[c] \in [user : 0..1, sys : 0..1]
      BY <1>7, <2>1 DEF Told
    <3>2. ~(Copies(c) > 0)
      BY <1>1, <2>1 DEF AllOK
    <3> QED
      BY <3>1, <3>2 DEF Copies
  <2>3. Delivery("AllChildren") = op.how /\ op.how \in {"try_tell", "sys_tell"}
    BY <1>1, DeliveryHow
  <2>4. Deliver(c, op.how)
    BY <1>13, <2>3
  <2>5. /\ told' \in Told
        /\ \A b \in Actor \ {c} : told'[b] = told[b]
        /\ told'[c].user + told'[c].sys \in 0..1
        /\ told'[c].sys > 0 => op.how = "sys_tell"
        /\ (op.how = "try_tell" /\ TryTellOk(c)) \/ (op.how = "sys_tell" /\ c \in open) =>
              told'[c].user + told'[c].sys = 1
    BY <1>7, <2>1, <2>2, <2>3, <2>4, Delivers
  <2>6. c \in Named(Actor)
    <3>1. SegLeads(anchor, Head(path_vec), c)
      BY <1>6, <2>1, SegMeans
    <3> QED
      BY <1>1, <1>3, <1>6, <2>1, <3>1, NamedAtEnd
  <2>7. \A b \in Actor \ {c} : Copies(b)' = Copies(b)
    BY <2>5 DEF Copies
  <2>8. OnlySelected'
    <3>1. \A b \in Actor \ {c} : told'[b].sys = told[b].sys
      BY <2>5
    <3>2. op' = op
      BY <1>2
    <3>3. Copies(c)' \in 0..1
      BY <2>5 DEF Copies
    <3> QED
      BY <1>1, <1>4, <2>1, <2>5, <2>6, <2>7, <3>1, <3>2, <3>3 DEF OnlySelected
  <2>9. AllOK'
    <3>1. ASSUME NEW a \in Actor, Copies(a)' > 0
          PROVE  a \in ChildrenOf(anchor') /\ Name[a] \notin unvisited'
      BY <1>1, <1>2, <2>1, <2>7, <3>1 DEF AllOK
    <3>2. ASSUME NEW a \in stable \cap ChildrenOf(anchor), a \in Actor, Suits(a)
          PROVE  Name[a] \in unvisited' \/ Copies(a)' = 1
      <4>1. CASE Name[a] = name
        <5>1. a = c
          BY <1>8, <1>9, <4>1
        <5>2. a \in open
          BY <1>1 DEF TypeOK
        <5>3. op.how = "try_tell" => TryTellOk(c)
          BY <3>2, <5>1, <5>2 DEF Suits, TryTellOk
        <5> QED
          BY <2>3, <2>5, <5>1, <5>2, <5>3 DEF Copies
      <4>2. CASE Name[a] # name
        BY <1>1, <1>2, <2>1, <2>7, <3>2, <4>2 DEF AllOK
      <4> QED
        BY <4>1, <4>2
    <3>3. Len(path_vec') > 0 /\ IsAllChildren(path_vec'[1])
      BY <1>1, <1>2 DEF AllOK
    <3>4. anchor' = anchor /\ stable' = stable
      BY <1>2
    <3> QED
      BY <1>4, <3>1, <3>2, <3>3, <3>4 DEF AllOK
  <2> QED
    BY <1>11, <2>5, <2>8, <2>9
<1> QED
  BY <1>12, <1>13 DEF VisitChild

(* So does its end.                                                        *)
LEMMA VisitedStep == ASSUME SelectionInv, AllVisited PROVE SelectionInv'
<1>1. /\ TypeOK /\ TreeInv /\ AllOK /\ OnlySelected /\ pc = "all" /\ unvisited = {}
  BY DEF SelectionInv, WalkInv, AllVisited
<1>2. /\ UNCHANGED <<tree, selection, op, stable>> /\ pc' = "done" /\ told' = told
      /\ UNCHANGED <<anchor, path_vec, unvisited, child>>
  BY DEF AllVisited, walk
<1>3. PICK k \in 0..Len(Segs) : OnWay(k)
  BY <1>1 DEF SelectionInv, WalkInv
<1>4. /\ TreeInv' /\ Named(Actor)' = Named(Actor) /\ Named(stable)' = Named(stable)
      /\ \A a : Suits(a)' = Suits(a)
  BY <1>1, <1>2, Same
<1>5. path_vec # <<>> /\ Head(path_vec) = path_vec[1] /\ IsAllChildren(Head(path_vec))
  <2>1. path_vec \in Seq(Part) /\ Len(path_vec) > 0
    BY <1>1 DEF TypeOK, AllOK
  <2> QED
    BY <1>1, <2>1, EmptySeq, HeadTailProperties DEF AllOK
<1>6. \A a : Copies(a)' = Copies(a)
  BY <1>2 DEF Copies
<1>7. OnlySelected'
  BY <1>1, <1>2, <1>4, <1>6 DEF OnlySelected
<1>8. ASSUME NEW a \in Named(stable), Suits(a)
      PROVE  Copies(a) = 1
  <2>1. a \in stable /\ a \in Actor /\ SegLeads(anchor, Head(path_vec), a)
    BY <1>1, <1>3, <1>5, NamedAtEnd
  <2>2. a \in ChildrenOf(anchor)
    BY <1>5, <2>1, SegMeans
  <2> QED
    BY <1>1, <1>8, <2>1, <2>2 DEF AllOK
<1>9. StableReached'
  BY <1>4, <1>6, <1>8 DEF StableReached
<1>10. TypeOK'
  BY <1>1, <1>2, ToldType, WalkTypes DEF TypeOK
<1>11. WalkInv' /\ Untold' /\ PanicsExplained'
  BY <1>2 DEF WalkInv, Untold, PanicsExplained
<1> QED
  BY <1>4, <1>7, <1>9, <1>10, <1>11 DEF SelectionInv

(* So does the lookup of a child by name (Selection::ChildName).           *)
LEMMA ChildNameStep == ASSUME SelectionInv, WalkChildName PROVE SelectionInv'
<1>1. /\ TypeOK /\ TreeInv /\ told = NotTold /\ pc = "walk" /\ path_vec # <<>>
      /\ IsChildName(Head(path_vec))
  BY DEF SelectionInv, WalkChildName, AtSegment, Untold
<1>2. /\ UNCHANGED <<tree, selection, op, stable>>
      /\ unvisited' = unvisited /\ told' = told
  BY DEF WalkChildName
<1>3. PICK k \in 0..Len(Segs) : OnWay(k)
  BY <1>1 DEF SelectionInv, WalkInv
<1>4. ~IsAllChildren(Head(path_vec))
  BY <1>1 DEF IsChildName
<1>5. /\ Len(Segs) \in Nat /\ k \in Nat /\ k < Len(Segs) /\ Len(path_vec) > 0
      /\ Head(path_vec) = path_vec[1]
      /\ IsLast <=> k + 1 = Len(Segs)
      /\ IsLast => Ends(Segs) = {k + 1}
      /\ \A n \in Ends(Segs) : n \in k + 1..Len(Segs)
  BY <1>1, <1>3, AtSeg
<1>6. \A b : SegLeads(anchor, Head(path_vec), b) <=>
                b \in ChildrenOf(anchor) /\ Name[b] = Head(path_vec)
  BY <1>1, SegMeans
<1>7. /\ TreeInv' /\ Segs' = Segs /\ From' = From
      /\ Named(stable)' = Named(stable)
  BY <1>1, <1>2, Same
<1>8. /\ anchor \in Actor /\ path_vec \in Seq(Part) /\ child \in Actor
      /\ unvisited \subseteq Names
  BY <1>1 DEF TypeOK
<1>9. OnlySelected' /\ told' \in Told
  BY <1>1, <1>2, NobodyTold
<1>10. \A b \in stable : SegLeads(anchor, Head(path_vec), b) => b \in Listed(Head(path_vec))
  BY <1>1, <1>6, StableListed DEF Listed
<1>11. \A c, d \in Listed(Head(path_vec)) : c = d
  BY <1>1, <1>8 DEF Listed, TreeInv
<1>12. \A c \in Listed(Head(path_vec)) : c \in Actor /\ SegLeads(anchor, Head(path_vec), c)
  BY <1>1, <1>6, <1>8, ChildFacts DEF Listed, TreeInv
<1>13. \A n \in Ends(Segs) : \A v \in Ways(From, Segs, n, stable) :
           v[k + 1] \in Listed(Head(path_vec))
  BY <1>1, <1>3, <1>10, NextSeg
<1>14. CASE /\ Listed(Head(path_vec)) = {} /\ pc' = "done"
            /\ UNCHANGED <<anchor, path_vec, child>>
  <2>1. Named(stable) = {}
    <3>1. \A n \in Ends(Segs) : Ways(From, Segs, n, stable) = {}
      BY <1>13, <1>14
    <3> QED
      BY <3>1 DEF Named, Segs, From
  <2>2. StableReached'
    BY <1>7, <2>1 DEF StableReached
  <2>3. TypeOK'
    BY <1>1, <1>2, <1>8, <1>9, <1>14, WalkTypes
  <2>4. WalkInv' /\ Untold' /\ PanicsExplained'
    BY <1>14 DEF WalkInv, Untold, PanicsExplained
  <2> QED
    BY <1>7, <1>9, <2>2, <2>3, <2>4 DEF SelectionInv
<1>15. ASSUME NEW c \in Listed(Head(path_vec)), IsLast, pc' = "named", child' = c,
              UNCHANGED <<anchor, path_vec>>
       PROVE  SelectionInv'
  <2>1. OnWay(k)'
    BY <1>2, <1>3, <1>7, <1>15 DEF OnWay
  <2>2. NamedOK'
    <3>1. Len(path_vec) = 1
      BY <1>15 DEF IsLast
    <3>2. \A n \in Ends(Segs) : \A v \in Ways(From, Segs, n, stable) : v[n] = c
      <4>1. Ends(Segs) = {k + 1}
        BY <1>5, <1>15
      <4> QED
        BY <1>11, <1>13, <4>1
    <3> QED
      BY <1>1, <1>2, <1>5, <1>7, <1>12, <1>15, <3>1, <3>2 DEF NamedOK
  <2>3. TypeOK'
    BY <1>1, <1>2, <1>8, <1>9, <1>12, <1>15, WalkTypes
  <2>4. WalkInv'
    BY <1>7, <1>15, <2>1, <2>2 DEF WalkInv
  <2>5. Untold' /\ StableReached' /\ PanicsExplained'
    BY <1>1, <1>2, <1>15 DEF Untold, StableReached, PanicsExplained, NotTold
  <2> QED
    BY <1>7, <1>9, <2>3, <2>4, <2>5 DEF SelectionInv
<1>16. ASSUME NEW c \in Listed(Head(path_vec)), ~IsLast, anchor' = c,
              path_vec' = Tail(path_vec), UNCHANGED <<pc, child>>
       PROVE  SelectionInv'
  <2>1. c \in Actor /\ SegLeads(anchor, Head(path_vec), c)
    BY <1>12
  <2>2. \A n \in Ends(Segs) : \A v \in Ways(From, Segs, n, stable) : v[k + 1] = c
    BY <1>11, <1>13
  <2>3. UNCHANGED <<selection, stable>>
    BY <1>2
  <2>4. k + 1 \in 0..Len(Segs) /\ OnWay(k + 1)'
    BY <1>1, <1>3, <1>4, <1>16, <2>1, <2>2, <2>3, Advance
  <2>5. path_vec' \in Seq(Part)
    BY <1>1, <1>8, <1>16, HeadTailProperties
  <2>6. TypeOK'
    BY <1>1, <1>2, <1>8, <1>9, <1>16, <2>1, <2>5, WalkTypes
  <2>7. WalkInv'
    BY <1>1, <1>7, <1>16, <2>4 DEF WalkInv
  <2>8. Untold' /\ StableReached' /\ PanicsExplained'
    BY <1>1, <1>2, <1>16 DEF Untold, StableReached, PanicsExplained, NotTold
  <2> QED
    BY <1>7, <1>9, <2>6, <2>7, <2>8 DEF SelectionInv
<1> QED
  BY <1>14, <1>15, <1>16 DEF WalkChildName

(* The child found by name may have ended since: then it is not stable.    *)
LEMMA TellNamedStep == ASSUME SelectionInv, TellNamed PROVE SelectionInv'
<1>1. /\ TypeOK /\ TreeInv /\ told = NotTold /\ pc = "named" /\ NamedOK
  BY DEF SelectionInv, TellNamed, Untold, WalkInv
<1>2. /\ UNCHANGED <<tree, selection, op, stable>>
      /\ UNCHANGED <<anchor, path_vec, unvisited, child>>
  BY DEF TellNamed, walk
<1>3. PICK k \in 0..Len(Segs) : OnWay(k)
  BY <1>1 DEF SelectionInv, WalkInv
<1>4. /\ anchor \in Actor /\ path_vec \in Seq(Part) /\ child \in Actor
      /\ unvisited \subseteq Names /\ stable \subseteq open \ freed
  BY <1>1 DEF TypeOK
<1>5. path_vec # <<>> /\ IsLast /\ Head(path_vec) = path_vec[1]
  <2>1. Len(path_vec) = 1 /\ path_vec \in Seq(Part)
    BY <1>1, <1>4 DEF NamedOK
  <2>2. path_vec # <<>>
    BY <2>1, EmptySeq
  <2> QED
    BY <2>1, <2>2, HeadTailProperties DEF IsLast
<1>6. child \in Named(Actor) /\ EndsInName
  BY <1>1, <1>3, <1>4, <1>5, NamedAtEnd DEF NamedOK
<1>7. \A a \in Named(stable) : a = child
  BY <1>1 DEF NamedOK, Named, Segs, From
<1>8. /\ TreeInv' /\ Named(Actor)' = Named(Actor) /\ Named(stable)' = Named(stable)
      /\ EndsInName' = EndsInName /\ \A a : Takes(a)' = Takes(a)
  BY <1>1, <1>2, Same
<1>9. CASE TryTellOk(child) /\ Deliver(child, "try_tell") /\ pc' = "done"
  <2>1. OnlySelected' /\ told' \in Told
    BY <1>1, <1>2, <1>4, <1>6, <1>9, OneTold
  <2>2. told'[child].user + told'[child].sys = 1
    <3>1. told \in Told /\ Copies(child) = 0
      BY <1>1, <1>4, NotToldFacts DEF Copies
    <3> QED
      BY <1>4, <1>9, <3>1, Delivers
  <2>3. StableReached'
    BY <1>7, <1>8, <2>2 DEF StableReached, Copies
  <2>4. TypeOK'
    BY <1>1, <1>2, <1>4, <1>9, <2>1, WalkTypes
  <2>5. WalkInv' /\ Untold' /\ PanicsExplained'
    BY <1>9 DEF WalkInv, Untold, PanicsExplained
  <2> QED
    BY <1>8, <2>1, <2>3, <2>4, <2>5 DEF SelectionInv
<1>10. CASE ~TryTellOk(child) /\ pc' = "panicked" /\ UNCHANGED told
  <2>1. OnlySelected' /\ told' \in Told
    BY <1>1, <1>10, NobodyTold
  <2>2. child \notin stable \/ ~Takes(child)
    BY <1>4, <1>10 DEF TryTellOk
  <2>3. PanicsExplained'
    BY <1>2, <1>6, <1>8, <2>2 DEF PanicsExplained
  <2>4. TypeOK'
    BY <1>1, <1>2, <1>4, <1>10, <2>1, WalkTypes
  <2>5. WalkInv' /\ Untold' /\ StableReached'
    BY <1>1, <1>10 DEF WalkInv, Untold, StableReached, NotTold
  <2> QED
    BY <1>8, <2>1, <2>3, <2>4, <2>5 DEF SelectionInv
<1> QED
  BY <1>9, <1>10 DEF TellNamed

-----------------------------------------------------------------------------
(* Selecting and telling                                                   *)

(* A new selection keeps the invariant (ActorSelection::new).              *)
LEMMA SelectStep ==
    ASSUME SelectionInv, NEW by \in Selectors, NEW path \in Paths, Select(by, path)
    PROVE  SelectionInv'
<1>1. TypeOK /\ TreeInv /\ told = NotTold /\ pc = "none"
  BY DEF SelectionInv, Select, Untold
<1>2. /\ UNCHANGED <<tree, op, walk, told, stable>>
      /\ UNCHANGED <<born, open, freed, children, ended, anchor, path_vec, unvisited, child>>
      /\ pc' \in {"invalid", "selected"}
  BY DEF Select, tree, walk
<1>3. selection' \in [anchor : Actor \ {BigBang}, path_vec : Seq(Part),
                      path : Paths \cup {<<>>}, by : Selectors \cup {"system"}]
  <2>1. CASE UNCHANGED selection
    BY <1>1, <2>1 DEF TypeOK
  <2>2. CASE selection' = [anchor |-> AnchorFor(by, path),
                           path_vec |-> Segments(PathStr(path)), path |-> path, by |-> by]
    <3>1. AnchorFor(by, path) \in Actor \ {BigBang}
      BY SelectorAssumption, TreeFacts DEF AnchorFor, Guardians, TopLevel
    <3>2. Segments(PathStr(path)) \in Seq(Part)
      BY PartsType
    <3> QED
      BY <2>2, <3>1, <3>2
  <2> QED
    BY <2>1, <2>2 DEF Select
<1>4. OnlySelected' /\ told' \in Told
  BY <1>1, <1>2, NobodyTold
<1>5. TypeOK'
  BY <1>1, <1>2, <1>3, <1>4 DEF TypeOK, Told
<1>6. TreeInv'
  BY <1>1, <1>2 DEF TreeInv, IsUp
<1>7. WalkInv' /\ Untold' /\ StableReached' /\ PanicsExplained'
  BY <1>1, <1>2 DEF WalkInv, Untold, StableReached, PanicsExplained, NotTold
<1> QED
  BY <1>4, <1>5, <1>6, <1>7 DEF SelectionInv

(* A walk begins with the whole path ahead and nobody told.                *)
LEMMA TellStep ==
    ASSUME SelectionInv, NEW how \in {"try_tell", "sys_tell"},
           NEW type \in Types \cup {"SystemMsg"}, Tell(how, type)
    PROVE  SelectionInv'
<1>1. TypeOK /\ TreeInv
  BY DEF SelectionInv
<1>2. /\ UNCHANGED <<born, open, freed, children, ended, selection, unvisited>>
      /\ op' = [how |-> how, type |-> type] /\ pc' = "walk" /\ told' = NotTold
      /\ anchor' = selection.anchor /\ path_vec' = selection.path_vec
      /\ child' = selection.anchor /\ stable' = {a \in Actor : IsUp(a)}
  BY DEF Tell, tree
<1>3. selection.anchor \in Actor \ {BigBang} /\ selection.path_vec \in Seq(Part)
  BY <1>1 DEF TypeOK
<1>4. OnlySelected' /\ told' \in Told
  BY <1>2, NobodyTold
<1>5. stable' \subseteq open' \ freed' /\ \A a \in stable' : IsUp(a)'
  BY <1>2 DEF IsUp
<1>6. TypeOK'
  BY <1>1, <1>2, <1>3, <1>4, <1>5 DEF TypeOK, Told
<1>7. TreeInv'
  BY <1>1, <1>2, <1>5 DEF TreeInv
<1>8. OnWay(0)'
  <2>1. Segs' = Segs /\ From' = From /\ anchor' = From /\ path_vec' = Segs
    BY <1>2 DEF Segs, From
  <2>2. Len(Segs) \in Nat
    BY <1>3, LenProperties DEF Segs
  <2>3. \E w \in Ways(From, Segs, 0, Actor) : w[0] = From
    BY <1>3, NoWay DEF From
  <2>4. \A n, S : \A v \in Ways(From, Segs, n, S) : v[0] = From
    BY DEF Ways
  <2>5. \A i \in 1..Len(Segs) : 0 + i = i
    BY <2>2
  <2> QED
    BY <2>1, <2>2, <2>3, <2>4, <2>5 DEF OnWay
<1>9. WalkInv'
  <2>1. Len(Segs') \in Nat
    BY <1>2, <1>3, LenProperties DEF Segs
  <2> QED
    BY <1>2, <1>8, <2>1 DEF WalkInv
<1>10. Untold' /\ StableReached' /\ PanicsExplained'
  BY <1>2 DEF Untold, StableReached, PanicsExplained, NotTold
<1> QED
  BY <1>4, <1>6, <1>7, <1>9, <1>10 DEF SelectionInv

(* Actors that end or are created keep the invariant of the walk.          *)
LEMMA ChangeStep == ASSUME SelectionInv, TreeStep PROVE SelectionInv'
<1>1. UNCHANGED <<pc, selection, op, walk, told>> /\ stable' \subseteq stable
  BY TreeFrame
<1>2. TypeOK /\ TreeInv
  BY DEF SelectionInv
<1>3. TreeInv'
  BY <1>2, TreeKept
<1>4. TypeOK'
  <2>1. /\ open' \subseteq born' /\ born' \subseteq Actor /\ ended' \subseteq born' \ open'
        /\ children' \in [Actor -> SUBSET Actor] /\ freed' \subseteq open' \ Guardians
    BY <1>2, TreeTypes
  <2>2. stable' \subseteq open' \ freed'
    BY <1>3 DEF TreeInv, IsUp
  <2> QED
    BY <1>1, <1>2, <2>1, <2>2 DEF TypeOK, walk
<1> QED
  BY <1>1, <1>3, <1>4, StableFewer DEF SelectionInv

(* A step that changes nothing keeps it.                                   *)
LEMMA StutterStep == ASSUME SelectionInv, UNCHANGED vars PROVE SelectionInv'
<1>1. UNCHANGED <<pc, selection, op, walk, told, tree, stable>>
  BY DEF vars
<1>2. TypeOK'
  BY <1>1 DEF SelectionInv, TypeOK, tree, walk
<1>3. TreeInv'
  BY <1>1, Same DEF SelectionInv
<1> QED
  BY <1>1, <1>2, <1>3, StableFewer DEF SelectionInv

(* It holds at first.                                                      *)
LEMMA SelectionInit == Init => SelectionInv
<1> SUFFICES ASSUME Init PROVE SelectionInv
  OBVIOUS
<1>1. /\ born = Alive /\ open = Alive /\ freed = {} /\ ended = {} /\ pc = "none" /\ stable = {}
      /\ children = [a \in Actor |-> ChildrenOf(a) \cap Alive]
      /\ told = NotTold /\ unvisited = {} /\ anchor = User /\ path_vec = <<>> /\ child = User
      /\ selection = [anchor |-> User, path_vec |-> <<>>, path |-> <<>>, by |-> "system"]
      /\ op = [how |-> "try_tell", type |-> "SystemMsg"]
  BY DEF Init
<1>2. told \in Told /\ OnlySelected
  BY <1>1, NotToldFacts DEF OnlySelected, Copies
<1>3. TypeOK
  <2>1. children \in [Actor -> SUBSET Actor]
    BY <1>1, TreeFacts
  <2>2. /\ selection \in [anchor : Actor \ {BigBang}, path_vec : Seq(Part),
                          path : Paths \cup {<<>>}, by : Selectors \cup {"system"}]
        /\ op \in [how : {"try_tell", "sys_tell"}, type : Types \cup {"SystemMsg"}]
    BY <1>1, TreeFacts
  <2> QED
    BY <1>1, <1>2, <2>1, <2>2, TreeFacts DEF TypeOK, Told
<1>4. TreeInv
  <2>1. \A a \in Actor : children[a] = ChildrenOf(a) \cap Alive
    BY <1>1
  <2>2. \A a \in Actor : \A c, d \in children[a] : Name[c] = Name[d] => c = d
    BY <2>1, TreeAssumption, ChildFacts
  <2>3. TopLevel \subseteq children[Root]
    BY <2>1, TreeFacts DEF ChildrenOf, Guardians
  <2> QED
    BY <1>1, <2>1, <2>2, <2>3, TreeFacts DEF TreeInv
<1>5. WalkInv /\ Untold /\ StableReached /\ PanicsExplained
  BY <1>1 DEF WalkInv, Untold, StableReached, PanicsExplained
<1> QED
  BY <1>2, <1>3, <1>4, <1>5 DEF SelectionInv

(* Every step keeps it.                                                    *)
LEMMA SelectionStep == SelectionInv /\ [Next]_vars => SelectionInv'
<1> SUFFICES ASSUME SelectionInv, [Next]_vars PROVE SelectionInv'
  OBVIOUS
<1>1. CASE WalkStep
  BY <1>1, ParentStep, AllChildrenStep, ChildNameStep, TellNamedStep, VisitedStep,
     VisitStep DEF WalkStep
<1>2. CASE TreeStep
  BY <1>2, ChangeStep
<1>3. ASSUME NEW type \in Types, TryTell(type)
      PROVE  SelectionInv'
  BY <1>3, TellStep DEF TryTell
<1>4. CASE SysTell
  BY <1>4, TellStep DEF SysTell
<1>5. CASE UNCHANGED vars
  BY <1>5, StutterStep
<1> QED
  BY <1>1, <1>2, <1>3, <1>4, <1>5, SelectStep DEF Next, TreeStep

(* It is an invariant.                                                     *)
LEMMA SelectionInvariant == Spec => []SelectionInv
  BY SelectionInit, SelectionStep, PTL DEF Spec

-----------------------------------------------------------------------------
(* What a path means                                                       *)

(* Below the root only the guardian of /user is called "user".             *)
LEMMA UserBelowRoot ==
    /\ SegLeads(Root, <<"user">>, User)
    /\ \A a : SegLeads(Root, <<"user">>, a) => a = User
    /\ ~IsAllChildren(<<"user">>)
<1>1. IsChildName(<<"user">>) /\ ~IsAllChildren(<<"user">>)
  BY DEF IsChildName, IsParent, IsAllChildren
<1>2. \A a : SegLeads(Root, <<"user">>, a) <=> a \in ChildrenOf(Root) /\ Name[a] = <<"user">>
  BY <1>1, SegMeans
<1>3. User \in ChildrenOf(Root) /\ Name[User] = <<"user">>
  BY TreeFacts, NameAssumption DEF ChildrenOf
<1>4. ASSUME NEW a \in ChildrenOf(Root), Name[a] = <<"user">>
      PROVE  a = User
  <2>1. a \in Actor /\ a # BigBang /\ a # Root /\ Parent[a] = Root
    BY ChildFacts
  <2>2. a \in Guardians /\ User \in Guardians
    BY <2>1, TreeFacts DEF Guardians, TopLevel
  <2>3. a \in Alive \ {BigBang, Root} /\ User \in Alive \ {BigBang, Root}
    BY <2>1, <2>2, TreeFacts
  <2> QED
    BY <1>3, <1>4, <2>1, <2>3, TreeFacts, TreeAssumption
<1> QED
  BY <1>1, <1>2, <1>3, <1>4

(* T is "user" and then the segments R.                                    *)
BelowRoot(T, R) ==
    /\ T \in Seq(Part) /\ R \in Seq(Part) /\ Len(T) = Len(R) + 1
    /\ T[1] = <<"user">> /\ \A i \in 1..Len(R) : T[i + 1] = R[i]

(* A way from the root down "user" goes on from the guardian of /user.     *)
LEMMA WayDown ==
  ASSUME NEW T, NEW R, BelowRoot(T, R), NEW S, NEW n \in 0..Len(R),
         NEW w \in Ways(Root, T, n + 1, S)
  PROVE  \E u \in Ways(User, R, n, S) : u[n] = w[n + 1]
<1> DEFINE u == [i \in 0..n |-> w[i + 1]]
<1>1. Len(R) \in Nat /\ n \in Nat /\ n <= Len(R)
  BY LenProperties DEF BelowRoot
<1>2. /\ w \in [0..n + 1 -> Actor] /\ w[0] = Root
      /\ \A i \in 1..n + 1 : w[i] \in S /\ SegLeads(w[i - 1], T[i], w[i])
  BY DEF Ways
<1>3. u \in [0..n -> Actor] /\ \A i \in 0..n : u[i] = w[i + 1]
  BY <1>1, <1>2
<1> HIDE DEF u
<1>4. u[0] = User
  <2>1. 1 \in 1..n + 1 /\ 1 - 1 = 0 /\ 0 \in 0..n /\ 0 + 1 = 1
    BY <1>1
  <2>2. SegLeads(Root, <<"user">>, w[1])
    BY <1>2, <2>1 DEF BelowRoot
  <2> QED
    BY <1>3, <2>1, <2>2, UserBelowRoot
<1>5. ASSUME NEW i \in 1..n
      PROVE  u[i] \in S /\ SegLeads(u[i - 1], R[i], u[i])
  <2>1. /\ i + 1 \in 1..n + 1 /\ (i + 1) - 1 = i /\ i \in 0..n /\ i - 1 \in 0..n
        /\ (i - 1) + 1 = i /\ i \in 1..Len(R)
    BY <1>1
  <2>2. u[i] = w[i + 1] /\ u[i - 1] = w[i] /\ T[i + 1] = R[i]
    BY <1>3, <2>1 DEF BelowRoot
  <2>3. w[i + 1] \in S /\ SegLeads(w[(i + 1) - 1], T[i + 1], w[i + 1])
    BY <1>2, <2>1
  <2> QED
    BY <2>1, <2>2, <2>3
<1>6. u \in Ways(User, R, n, S)
  BY <1>3, <1>4, <1>5 DEF Ways
<1>7. n \in 0..n
  BY <1>1
<1> QED
  BY <1>3, <1>6, <1>7

(* A way from the guardian of /user has one from the root before it.       *)
LEMMA WayUp ==
  ASSUME NEW T, NEW R, BelowRoot(T, R), NEW S, User \in S, NEW n \in 0..Len(R),
         NEW u \in Ways(User, R, n, S)
  PROVE  \E w \in Ways(Root, T, n + 1, S) : w[n + 1] = u[n]
<1> DEFINE w == [i \in 0..n + 1 |-> IF i = 0 THEN Root ELSE u[i - 1]]
<1>1. Len(R) \in Nat /\ n \in Nat /\ n <= Len(R)
  BY LenProperties DEF BelowRoot
<1>2. /\ u \in [0..n -> Actor] /\ u[0] = User
      /\ \A i \in 1..n : u[i] \in S /\ SegLeads(u[i - 1], R[i], u[i])
  BY DEF Ways
<1>3. /\ w \in [0..n + 1 -> Actor] /\ w[0] = Root
      /\ \A i \in 1..n + 1 : w[i] = u[i - 1]
  <2>1. \A i \in 1..n + 1 : i - 1 \in 0..n /\ i # 0 /\ i \in 0..n + 1
    BY <1>1
  <2>2. \A i \in 0..n + 1 : i = 0 \/ i \in 1..n + 1
    BY <1>1
  <2>3. \A i \in 0..n + 1 : (IF i = 0 THEN Root ELSE u[i - 1]) \in Actor
    BY <1>2, <2>1, <2>2, TreeFacts
  <2>4. 0 \in 0..n + 1
    BY <1>1
  <2> QED
    BY <2>1, <2>3, <2>4
<1> HIDE DEF w
<1>4. ASSUME NEW i \in 1..n + 1
      PROVE  w[i] \in S /\ SegLeads(w[i - 1], T[i], w[i])
  <2>1. CASE i = 1
    <3>1. 1 \in 1..n + 1 /\ 1 - 1 = 0
      BY <1>1
    <3>2. w[1] = User /\ w[0] = Root /\ T[1] = <<"user">>
      BY <1>2, <1>3, <3>1 DEF BelowRoot
    <3> QED
      BY <2>1, <3>1, <3>2, UserBelowRoot
  <2>2. CASE i # 1
    <3> DEFINE j == i - 1
    <3>1. /\ j \in 1..n /\ j \in 1..n + 1 /\ j + 1 = i /\ j \in 1..Len(R)
      BY <1>1, <2>2
    <3> HIDE DEF j
    <3>2. w[i] = u[j] /\ w[j] = u[j - 1] /\ T[i] = R[j]
      <4>1. T[j + 1] = R[j]
        BY <3>1 DEF BelowRoot
      <4>2. w[j] = u[j - 1]
        BY <1>3, <3>1
      <4>3. w[i] = u[j]
        BY <1>3 DEF j
      <4> QED
        BY <3>1, <4>1, <4>2, <4>3
    <3>3. u[j] \in S /\ SegLeads(u[j - 1], R[j], u[j])
      BY <1>2, <3>1
    <3> QED
      BY <3>2, <3>3 DEF j
  <2> QED
    BY <2>1, <2>2
<1>5. w \in Ways(Root, T, n + 1, S)
  BY <1>3, <1>4 DEF Ways
<1>6. n + 1 \in 1..n + 1 /\ (n + 1) - 1 = n
  BY <1>1
<1> QED
  BY <1>3, <1>5, <1>6

(* Both end at the same place: what they lead to is the same, if the       *)
(* guardian of /user may be gone through.                                  *)
LEMMA LeadBelowRoot ==
  ASSUME NEW T, NEW R, BelowRoot(T, R), R # <<>>, NEW S \in SUBSET Actor
  PROVE  /\ LeadTo(Root, T, S) \subseteq LeadTo(User, R, S)
         /\ User \in S => LeadTo(User, R, S) \subseteq LeadTo(Root, T, S)
<1> DEFINE e == Extent(R)
<1>1. T \in Seq(Part) /\ R \in Seq(Part) /\ Len(R) \in Nat \ {0} /\ Len(T) = Len(R) + 1
  BY EmptySeq DEF BelowRoot
<1>2. e \in 1..Len(R) /\ Ends(R) = {e}
  BY <1>1, ExtentFacts
<1>3. T # <<>>
  BY <1>1, EmptySeq
<1>4. e + 1 \in Ends(T)
  <2> HIDE DEF e
  <2>1. e \in Ends(R)
    BY <1>2
  <2>2. \A i \in 1..e - 1 : ~IsAllChildren(R[i])
    BY <2>1 DEF Ends
  <2>3. e = Len(R) \/ IsAllChildren(R[e])
    BY <2>1 DEF Ends
  <2>4. ASSUME NEW i \in 1..(e + 1) - 1 PROVE ~IsAllChildren(T[i])
    <3>1. CASE i = 1
      BY <3>1, UserBelowRoot DEF BelowRoot
    <3>2. CASE i # 1
      <4> DEFINE j == i - 1
      <4>1. j \in 1..e - 1 /\ j \in 1..Len(R) /\ j + 1 = i
        BY <1>1, <1>2, <3>2
      <4> HIDE DEF j
      <4>2. T[j + 1] = R[j]
        BY <4>1 DEF BelowRoot
      <4> QED
        BY <2>2, <4>1, <4>2
    <3> QED
      BY <3>1, <3>2
  <2>5. e + 1 \in 1..Len(T) /\ (e = Len(R) => e + 1 = Len(T))
    BY <1>1, <1>2
  <2>6. T[e + 1] = R[e]
    BY <1>2 DEF BelowRoot
  <2> QED
    BY <2>3, <2>4, <2>5, <2>6 DEF Ends
<1>5. Extent(T) = e + 1
  BY <1>1, <1>3, <1>4, ExtentFacts
<1>6. LeadTo(Root, T, S) = {w[e + 1] : w \in Ways(Root, T, e + 1, S)}
  BY <1>1, <1>5, LeadToWays, TreeFacts
<1>7. LeadTo(User, R, S) = {u[e] : u \in Ways(User, R, e, S)}
  BY <1>1, LeadToWays, TreeFacts
<1>8. e \in 0..Len(R)
  BY <1>1, <1>2
<1> HIDE DEF e
<1>9. ASSUME NEW b \in LeadTo(Root, T, S) PROVE b \in LeadTo(User, R, S)
  <2>1. PICK w \in Ways(Root, T, e + 1, S) : w[e + 1] = b
    BY <1>6
  <2>2. PICK u \in Ways(User, R, e, S) : u[e] = w[e + 1]
    BY <1>8, WayDown
  <2> QED
    BY <1>7, <2>1, <2>2
<1>10. ASSUME User \in S, NEW b \in LeadTo(User, R, S) PROVE b \in LeadTo(Root, T, S)
  <2>1. PICK u \in Ways(User, R, e, S) : u[e] = b
    BY <1>7
  <2>2. PICK w \in Ways(Root, T, e + 1, S) : w[e + 1] = u[e]
    BY <1>8, <1>10, WayUp
  <2> QED
    BY <1>6, <2>1, <2>2
<1> QED
  BY <1>9, <1>10

(* Nobody bears an empty name, so an empty part leads to nobody.           *)
LEMMA NoName ==
  ASSUME NEW from \in Actor, NEW segs \in Seq(Part), segs # <<>>, segs[1] = <<>>,
         NEW S \in SUBSET Actor
  PROVE  LeadTo(from, segs, S) = {}
<1> DEFINE e == Extent(segs)
<1>1. e \in 1..Len(segs) /\ Len(segs) \in Nat
  BY ExtentFacts, LenProperties
<1>2. LeadTo(from, segs, S) = {w[e] : w \in Ways(from, segs, e, S)}
  BY LeadToWays
<1> HIDE DEF e
<1>3. IsChildName(<<>>)
  BY DEF IsChildName, IsParent, IsAllChildren
<1>4. ASSUME NEW w \in Ways(from, segs, e, S) PROVE FALSE
  <2>1. e \in Nat /\ 1 \in 1..e
    BY <1>1
  <2>2. SegLeads(w[1 - 1], <<>>, w[1])
    <3>1. \A i \in 1..e : SegLeads(w[i - 1], segs[i], w[i])
      BY DEF Ways
    <3> QED
      BY <2>1, <3>1
  <2>3. w[1] \in ChildrenOf(w[1 - 1]) /\ Name[w[1]] = <<>>
    BY <1>3, <2>2, SegMeans
  <2>4. w[1] \in Actor \ {BigBang}
    BY <2>3, ChildFacts
  <2> QED
    BY <2>3, <2>4, NameAssumption
<1> QED
  BY <1>2, <1>4

(* The selection that pc tells of has been made of its path.               *)
SelectionMade ==
    pc \notin {"none", "invalid"} =>
        /\ selection.path \in Paths /\ selection.by \in Selectors
        /\ ValidPath(PathStr(selection.path))
        /\ selection.anchor = AnchorFor(selection.by, selection.path)
        /\ selection.path_vec = Segments(PathStr(selection.path))

(* It is so from select on, for nothing changes a selection.               *)
LEMMA MadeStep == SelectionMade /\ [Next]_vars => SelectionMade'
<1> SUFFICES ASSUME SelectionMade, [Next]_vars PROVE SelectionMade'
  OBVIOUS
<1>1. CASE UNCHANGED vars
  BY <1>1 DEF vars, SelectionMade
<1>2. CASE TreeStep
  <2>1. UNCHANGED <<pc, selection>>
    BY <1>2, TreeFrame
  <2> QED
    BY <2>1 DEF SelectionMade
<1>3. ASSUME NEW by \in Selectors, NEW path \in Paths, Select(by, path)
      PROVE  SelectionMade'
  <2>1. CASE pc' = "invalid"
    BY <2>1 DEF SelectionMade
  <2>2. CASE /\ ValidPath(PathStr(path))
             /\ selection' = [anchor |-> AnchorFor(by, path),
                              path_vec |-> Segments(PathStr(path)), path |-> path, by |-> by]
    BY <2>2 DEF SelectionMade
  <2> QED
    BY <1>3, <2>1, <2>2 DEF Select
<1>4. ASSUME NEW how, NEW type, Tell(how, type)
      PROVE  SelectionMade'
  <2>1. pc \in {"selected", "done"} /\ selection' = selection
    BY <1>4 DEF Tell
  <2> QED
    BY <2>1 DEF SelectionMade
<1>5. CASE WalkStep
  <2>1. pc \in {"walk", "all", "named"} /\ selection' = selection
    BY <1>5 DEF WalkStep, WalkParent, WalkAllChildren, WalkChildName, TellNamed, AllVisited,
                VisitChild, AtSegment
  <2> QED
    BY <2>1 DEF SelectionMade
<1> QED
  BY <1>1, <1>2, <1>3, <1>4, <1>5 DEF Next, TreeStep, TryTell, SysTell

(* What a selection made of a path leads to, and what the path means.      *)
LEMMA MadeMeans == TypeOK /\ SelectionMade => PathMeans
<1> SUFFICES ASSUME TypeOK, SelectionMade, pc \in {"selected", "done", "panicked"}
             PROVE  /\ ~RepeatsUser(selection.path) => Named(Actor) \subseteq Selected(Actor)
                    /\ BelowUser(selection.path) => Selected(stable) \subseteq Named(stable)
  BY DEF PathMeans
<1> DEFINE path == selection.path
           str == PathStr(path)
<1>1. /\ path \in Seq(STRING) /\ ValidPath(str)
      /\ selection.by \in Selectors /\ From = AnchorFor(selection.by, path)
      /\ Segs = Segments(str)
  BY PathAssumption DEF SelectionMade, From, Segs
<1>2. str \in Seq(STRING) /\ str # <<>>
  BY <1>1, WithoutAnchorType DEF PathStr, ValidPath
<1>3. Segs \in Seq(Part) /\ Segs # <<>>
  BY <1>1, <1>2, SegmentsSome
<1>4. From \in Actor /\ stable \in SUBSET Actor /\ User \in Actor
  BY TreeFacts DEF TypeOK, From
<1>5. \A S \in SUBSET Actor : Named(S) = LeadTo(From, Segs, S)
  <2>1. Ends(Segs) = {Extent(Segs)}
    BY <1>3, ExtentFacts
  <2>2. \A S : Named(S) = {w[Extent(Segs)] : w \in Ways(From, Segs, Extent(Segs), S)}
    BY <2>1 DEF Named, From, Segs
  <2> QED
    BY <1>3, <1>4, <2>2, LeadToWays
<1> HIDE DEF path, str
<1>6. CASE ~Absolute(path)
  <2>1. str = path /\ From = IF selection.by = "system" THEN User ELSE selection.by
    BY <1>1, <1>6 DEF str, PathStr, AnchorFor
  <2>2. \A S : Selected(S) = LeadTo(From, Segs, S)
    BY <1>1, <1>6, <2>1 DEF Selected, path
  <2> QED
    BY <1>4, <1>5, <2>2
<1>7. CASE Absolute(path) /\ ~IsPrefix(AnchorPath, path)
  <2>1. str = WithoutAnchor(path) /\ str[1] = "/"
    BY <1>1, <1>7, KeepsSlash DEF str, PathStr
  <2>2. Segs[1] = <<>>
    BY <1>1, <1>2, <2>1, SplitSlash
  <2>3. Named(Actor) = {}
    BY <1>3, <1>4, <1>5, <2>2, NoName
  <2>4. ~BelowUser(path)
    BY <1>7 DEF BelowUser
  <2> QED
    BY <2>3, <2>4 DEF path
<1>8. CASE Absolute(path) /\ IsPrefix(AnchorPath, path)
  <2>1. CASE RepeatsUser(path)
    BY <1>8, <2>1 DEF BelowUser, path
  <2>2. CASE ~RepeatsUser(path)
    <3>1. str = WithoutAnchor(path) /\ From = User
      BY <1>1, <1>8 DEF str, PathStr, AnchorFor
    <3>2. Reading(str, path, 3, Len(path))
      BY <1>1, <1>8, <2>2, <3>1, WithoutPrefix
    <3> DEFINE T == Tail(Segments(path))
    <3>3. BelowRoot(T, Segs)
      BY <1>1, <1>2, <1>3, <1>8, <3>2, SegmentsBehind DEF BelowRoot
    <3>4. \A S : Selected(S) = LeadTo(Root, T, S)
      BY <1>8 DEF Selected, path
    <3> HIDE DEF T
    <3>5. /\ LeadTo(Root, T, stable) \subseteq LeadTo(User, Segs, stable)
          /\ LeadTo(User, Segs, Actor) \subseteq LeadTo(Root, T, Actor)
      BY <1>3, <1>4, <3>3, LeadBelowRoot
    <3> QED
      BY <1>4, <1>5, <3>1, <3>4, <3>5
  <2> QED
    BY <2>1, <2>2
<1> QED
  BY <1>6, <1>7, <1>8

-----------------------------------------------------------------------------
(* Nobody is told more than once in a walk, though actors come and go      *)
(* under the iterator, and an actor that is stable is up (selection.rs).   *)
THEOREM SelectionTypeOK == Spec => []TypeOK
<1>1. SelectionInv => TypeOK
  BY DEF SelectionInv
<1> QED
  BY <1>1, SelectionInvariant, PTL

(* In every tree and for every path, whoever ends or is created under the  *)
(* walk, a message goes only to actors to which the selection leads, once  *)
(* to each, and to a system mailbox only in sys_tell (selection.rs walk).  *)
THEOREM SelectionOnlySelected == Spec => []OnlySelected
<1>1. SelectionInv => OnlySelected
  BY DEF SelectionInv
<1> QED
  BY <1>1, SelectionInvariant, PTL

(* An actor to which the selection leads, up all along with every actor on *)
(* the way, gets the message (selection.rs walk over Children).            *)
THEOREM SelectionStableReached == Spec => []StableReached
<1>1. SelectionInv => StableReached
  BY DEF SelectionInv
<1> QED
  BY <1>1, SelectionInvariant, PTL

(* The caller panics only if the path leads above the root or ends in the  *)
(* name of an actor that ended or does not take the message (selection.rs  *)
(* unwrap, actor_cell.rs parent and kernel).                               *)
THEOREM SelectionPanicsExplained == Spec => []PanicsExplained
<1>1. SelectionInv => PanicsExplained
  BY DEF SelectionInv
<1> QED
  BY <1>1, SelectionInvariant, PTL

(* In every tree and for every path, a selection leads to no actor but     *)
(* those its path means, unless "/user/" comes twice in it, and to all of  *)
(* them if it is a path below /user (select, ActorSelection::new).         *)
THEOREM SelectionPathMeans == Spec => []PathMeans
<1>1. Init => SelectionMade
  BY DEF Init, SelectionMade
<1>2. Spec => []SelectionMade
  BY <1>1, MadeStep, PTL DEF Spec
<1> QED
  BY <1>2, MadeMeans, SelectionTypeOK, PTL

=============================================================================
