---------------------------- MODULE HistoryProofs ---------------------------
(***************************************************************************)
(* What the histories of Sessions hold, for any number of requests and     *)
(* messages and any KeepPairs: first what compacting, undoing and          *)
(* appending make of one well-formed history, then that every command      *)
(* keeps all stored and copied histories well-formed.                      *)
(***************************************************************************)
EXTENDS SessionsProofs, SequenceTheorems, FiniteSetTheorems, WellFoundedInduction

(* What Lead, Cut and Undone ask of Max: a bounded set has a greatest one.  *)
LEMMA GreatestNat ==
  ASSUME NEW S \in SUBSET Nat, S # {}, NEW b \in Nat, \A x \in S : x <= b
  PROVE  Max(S) \in S /\ \A x \in S : x <= Max(S)
<1> DEFINE less == OpToRel(<, Nat)
           room == {b - x : x \in S}
<1>1. room \in SUBSET Nat /\ room # {}
  <2>1. \A x \in S : b - x \in Nat
    OBVIOUS
  <2> QED
    BY <2>1
<1>2. PICK r \in room : \A q \in room : <<q, r>> \notin less
  BY <1>1, NatLessThanWellFounded, WFMin
<1>3. \A q \in room : ~(q < r)
  BY <1>1, <1>2 DEF OpToRel
<1>4. PICK n \in S : r = b - n
  BY <1>2
<1>5. \A x \in S : n >= x
  BY <1>3, <1>4
<1> QED
  BY <1>5 DEF Max

LEMMA LeadIs ==
  ASSUME NEW h \in Seq(Messages)
  PROVE  /\ Lead(h) \in 0..Len(h)
         /\ \A i \in 1..Lead(h) : IsSystem(h[i])
         /\ Lead(h) < Len(h) => ~IsSystem(h[Lead(h) + 1])
<1> DEFINE led == {n \in 0..Len(h) : \A i \in 1..n : IsSystem(h[i])}
<1>1. led \in SUBSET Nat /\ 0 \in led /\ (\A n \in led : n <= Len(h)) /\ Len(h) \in Nat
  OBVIOUS
<1>2. Lead(h) \in led /\ \A n \in led : n <= Lead(h)
  BY <1>1, GreatestNat DEF Lead
<1>3. ASSUME Lead(h) < Len(h), IsSystem(h[Lead(h) + 1]) PROVE FALSE
  <2>1. Lead(h) + 1 \in led
    BY <1>2, <1>3
  <2> QED
    BY <1>2, <2>1
<1> QED
  BY <1>2, <1>3

(* The prompt, and a summary if there is one. *)
LEMMA LeadOfWellFormed ==
  ASSUME NEW h \in Seq(Messages), WellFormed(h), h # <<>>
  PROVE  /\ Len(h) >= 1 /\ h[1] = Prompt
         /\ Lead(h) \in {1, 2}
         /\ \A i \in 1..Len(h) : h[i].role \in {"user", "assistant"} <=> i > Lead(h)
<1>1. Len(h) \in Nat /\ Len(h) >= 1 /\ DOMAIN h = 1..Len(h) /\ h[1] = Prompt
  BY DEF WellFormed
<1>2. ASSUME NEW i \in 1..Len(h)
      PROVE  h[i].role \in Roles /\ (IsSystem(h[i]) => i \in {1, 2})
  <2>1. h[i] \in Messages
    OBVIOUS
  <2>2. (h[i].role = "system" => i = 1) /\ (h[i].role = "summary" => i = 2)
    BY <1>1 DEF WellFormed
  <2> QED
    BY <2>1, <2>2 DEF Messages, IsSystem
<1>3. Lead(h) \in 0..Len(h) /\ (\A i \in 1..Lead(h) : IsSystem(h[i]))
      /\ (Lead(h) < Len(h) => ~IsSystem(h[Lead(h) + 1]))
  BY LeadIs
<1>4. Lead(h) # 0
  BY <1>1, <1>3 DEF Prompt, IsSystem
<1>5. Lead(h) <= 2
  BY <1>2, <1>3
<1>6. ASSUME NEW i \in 1..Len(h), i > Lead(h), IsSystem(h[i]) PROVE FALSE
  <2>1. i = 2 /\ Lead(h) = 1
    BY <1>2, <1>3, <1>4, <1>5, <1>6
  <2> QED
    BY <1>3, <1>6, <2>1
<1> QED
  BY <1>1, <1>2, <1>3, <1>4, <1>5, <1>6 DEF IsSystem, Roles

LEMMA CutIs ==
  ASSUME NEW h \in Seq(Messages)
  PROVE  /\ Cut(h) \in Lead(h)..Len(h)
         /\ Cut(h) = Lead(h) \/ (Cut(h) + 2 * KeepPairs <= Len(h) /\ h[Cut(h) + 1].role = "user")
         /\ \A c \in Lead(h)..Len(h) :
              c + 2 * KeepPairs <= Len(h) /\ h[c + 1].role = "user" => c <= Cut(h)
<1> DEFINE cuts == {c \in Lead(h)..Len(h) :
         c = Lead(h) \/ (c + 2 * KeepPairs <= Len(h) /\ h[c + 1].role = "user")}
<1>1. Lead(h) \in 0..Len(h) /\ Len(h) \in Nat
  BY LeadIs
<1>2. cuts \in SUBSET Nat /\ Lead(h) \in cuts /\ \A c \in cuts : c <= Len(h)
  BY <1>1
<1>3. Cut(h) \in cuts /\ \A c \in cuts : c <= Cut(h)
  BY <1>1, <1>2, GreatestNat DEF Cut
<1> QED
  BY <1>3

LEMMA PreludeIsPrompt ==
  ASSUME NEW h \in Seq(Messages), WellFormed(h), h # <<>>
  PROVE  Prelude(h) = <<Prompt>>
<1> DEFINE kept == {i \in 1..Lead(h) : h[i].role = "system"}
           At(n) == CHOOSE i \in kept : Cardinality({j \in kept : j < i}) = n - 1
<1>1. kept = {1}
  <2>1. Lead(h) \in {1, 2} /\ Lead(h) <= Len(h) /\ h[1] = Prompt
    BY LeadOfWellFormed, LeadIs
  <2>2. \A i \in 1..Len(h) : h[i].role = "system" => i = 1
    BY DEF WellFormed
  <2> QED
    BY <2>1, <2>2 DEF Prompt
<1>2. Cardinality(kept) = 1 /\ Cardinality({}) = 0
  BY <1>1, FS_Singleton, FS_EmptySet
<1>3. {j \in kept : j < 1} = {}
  BY <1>1
<1>4. At(1) = 1
  BY <1>1, <1>2, <1>3
<1>5. Prelude(h) = [n \in 1..1 |-> h[At(n)]]
  BY <1>2 DEF Prelude
<1> HIDE DEF At
<1>6. [n \in 1..1 |-> h[At(n)]] = <<h[1]>>
  BY <1>4
<1> QED
  BY <1>5, <1>6, LeadOfWellFormed

LEMMA ToldMember ==
  ASSUME NEW h \in Seq(Messages), NEW m
  PROVE  m \in Told(h) <=> \E i \in 1..Len(h) : m \in h[i].tells
  BY DEF Told

LEMMA ToldOfStart ==
  ASSUME NEW h \in Seq(Messages), NEW n \in 0..Len(h)
  PROVE  /\ SubSeq(h, 1, n) \in Seq(Messages) /\ Len(SubSeq(h, 1, n)) = n
         /\ \A i \in 1..n : SubSeq(h, 1, n)[i] = h[i]
         /\ \A m : m \in Told(SubSeq(h, 1, n)) <=> \E i \in 1..n : m \in h[i].tells
<1>1. /\ SubSeq(h, 1, n) \in Seq(Messages) /\ Len(SubSeq(h, 1, n)) = n
      /\ \A i \in 1..n : SubSeq(h, 1, n)[i] = h[i]
  <2>1. \A i \in 1..n : h[i] \in Messages
    OBVIOUS
  <2> QED
    BY <2>1, SubSeqProperties
<1> QED
  BY <1>1, ToldMember

(* The telling of a history is what its speakers said and heard. *)
LEMMA ToldTyped ==
  ASSUME NEW h \in Seq(Messages)
  PROVE  Told(h) \subseteq Speakers \X {"said", "heard"}
<1>1. ASSUME NEW i \in 1..Len(h) PROVE h[i].tells \subseteq Speakers \X {"said", "heard"}
  <2>1. h[i] \in Messages
    OBVIOUS
  <2> QED
    BY <2>1 DEF Messages
<1> QED
  BY <1>1, ToldMember

(* What compact_history returns: the prompt, the summary of all that is     *)
(* older, and the recent exchanges.                                         *)
LEMMA CompactedIs ==
  ASSUME NEW h \in Seq(Messages), WellFormed(h), Compactable(h)
  PROVE  /\ h # <<>>
         /\ Cut(h) \in 2..Len(h) /\ Cut(h) > Lead(h) /\ Cut(h) + 2 <= Len(h)
         /\ h[Cut(h) + 1].role = "user"
         /\ Compacted(h) \in Seq(Messages)
         /\ Len(Compacted(h)) = Len(h) - Cut(h) + 2
         /\ Compacted(h)[1] = Prompt
         /\ Compacted(h)[2].role = "summary"
         /\ \A m : m \in Compacted(h)[2].tells <=> \E i \in 1..Cut(h) : m \in h[i].tells
         /\ \A i \in 3..Len(Compacted(h)) : Compacted(h)[i] = h[Cut(h) + i - 2]
<1> DEFINE summary == [role |-> "summary", tells |-> Told(SubSeq(h, 1, Cut(h)))]
           recent == SubSeq(h, Cut(h) + 1, Len(h))
<1>1. Len(h) \in Nat /\ Lead(h) \in 0..Len(h) /\ Cut(h) \in Lead(h)..Len(h) /\ Cut(h) > Lead(h)
      /\ Cut(h) + 2 * KeepPairs <= Len(h) /\ h[Cut(h) + 1].role = "user"
  BY LeadIs, CutIs DEF Compactable
<1>2. h # <<>>
  BY <1>1
<1>3. Lead(h) >= 1
  BY <1>1, <1>2, LeadOfWellFormed
<1>4. Cut(h) \in 2..Len(h) /\ Cut(h) + 2 <= Len(h)
  BY <1>1, <1>3, SessionsAssumption
<1>5. /\ SubSeq(h, 1, Cut(h)) \in Seq(Messages)
      /\ \A m : m \in Told(SubSeq(h, 1, Cut(h))) <=> \E i \in 1..Cut(h) : m \in h[i].tells
  BY <1>4, ToldOfStart
<1>6. summary \in Messages /\ Prompt \in Messages
  BY <1>5, ToldTyped DEF Messages, Roles, Prompt
<1>7. /\ recent \in Seq(Messages) /\ Len(recent) = Len(h) - Cut(h)
      /\ \A i \in 1..Len(recent) : recent[i] = h[Cut(h) + i]
  <2>1. \A i \in Cut(h) + 1..Len(h) : h[i] \in Messages
    BY <1>4
  <2> QED
    BY <1>4, <2>1, SubSeqProperties
<1>8. Compacted(h) = <<Prompt>> \o <<summary>> \o recent
  BY <1>2, PreludeIsPrompt DEF Compacted
<1> HIDE DEF summary, recent
<1>9. /\ Compacted(h) \in Seq(Messages) /\ Len(Compacted(h)) = Len(recent) + 2
      /\ Compacted(h)[1] = Prompt /\ Compacted(h)[2] = summary
      /\ \A i \in 3..Len(Compacted(h)) : Compacted(h)[i] = recent[i - 2]
  <2>0. <<Prompt>> \in Seq(Messages) /\ <<summary>> \in Seq(Messages)
        /\ Len(<<Prompt>>) = 1 /\ Len(<<summary>>) = 1
        /\ <<Prompt>>[1] = Prompt /\ <<summary>>[1] = summary
    BY <1>6
  <2>1. LET two == <<Prompt>> \o <<summary>>
        IN two \in Seq(Messages) /\ Len(two) = 2 /\ two[1] = Prompt /\ two[2] = summary
    BY <2>0, ConcatProperties
  <2> QED
    BY <1>6, <1>7, <1>8, <2>1, ConcatProperties
<1>10. \A i \in 3..Len(Compacted(h)) : Compacted(h)[i] = h[Cut(h) + i - 2]
  <2>1. \A i \in 3..Len(Compacted(h)) : i - 2 \in 1..Len(recent) /\ Cut(h) + (i - 2) = Cut(h) + i - 2
    BY <1>4, <1>7, <1>9
  <2> QED
    BY <1>7, <1>9, <2>1
<1>11. /\ Compacted(h)[2].role = "summary"
       /\ \A m : m \in Compacted(h)[2].tells <=> \E i \in 1..Cut(h) : m \in h[i].tells
  BY <1>5, <1>9 DEF summary
<1>12. Len(Compacted(h)) = Len(h) - Cut(h) + 2
  BY <1>7, <1>9, <1>4
<1> QED
  BY <1>1, <1>2, <1>4, <1>9, <1>10, <1>11, <1>12

(* Folding forgets nothing. *)
LEMMA CompactedTells ==
  ASSUME NEW h \in Seq(Messages), WellFormed(h), Compactable(h)
  PROVE  Told(Compacted(h)) = Told(h)
<1> DEFINE c == Compacted(h)
<1>1. /\ Cut(h) \in 2..Len(h) /\ c \in Seq(Messages) /\ Len(c) = Len(h) - Cut(h) + 2 /\ Len(h) \in Nat
      /\ c[1] = Prompt /\ Cut(h) + 2 <= Len(h)
      /\ \A m : m \in c[2].tells <=> \E i \in 1..Cut(h) : m \in h[i].tells
      /\ \A i \in 3..Len(c) : c[i] = h[Cut(h) + i - 2]
  BY CompactedIs
<1> HIDE DEF c
<1>2. ASSUME NEW m \in Told(c) PROVE m \in Told(h)
  <2>1. PICK i \in 1..Len(c) : m \in c[i].tells
    BY <1>1, ToldMember
  <2>2. i # 1
    BY <1>1, <2>1 DEF Prompt
  <2>3. CASE i = 2
    <3>1. PICK k \in 1..Cut(h) : m \in h[k].tells
      BY <1>1, <2>1, <2>3
    <3> QED
      BY <1>1, <3>1, ToldMember
  <2>4. CASE i >= 3
    <3>1. Cut(h) + i - 2 \in 1..Len(h) /\ m \in h[Cut(h) + i - 2].tells
      BY <1>1, <2>1, <2>4
    <3> QED
      BY <3>1, ToldMember
  <2> QED
    BY <2>2, <2>3, <2>4
<1>3. ASSUME NEW m \in Told(h) PROVE m \in Told(c)
  <2>1. PICK i \in 1..Len(h) : m \in h[i].tells
    BY ToldMember
  <2>2. CASE i <= Cut(h)
    <3>1. 2 \in 1..Len(c) /\ m \in c[2].tells
      BY <1>1, <2>1, <2>2
    <3> QED
      BY <1>1, <3>1, ToldMember
  <2>3. CASE i > Cut(h)
    <3>1. i - Cut(h) + 2 \in 3..Len(c) /\ Cut(h) + (i - Cut(h) + 2) - 2 = i
      BY <1>1, <2>3
    <3>2. c[i - Cut(h) + 2] = h[i] /\ i - Cut(h) + 2 \in 1..Len(c)
      BY <1>1, <3>1
    <3> QED
      BY <1>1, <2>1, <3>2, ToldMember
  <2> QED
    BY <1>1, <2>2, <2>3
<1> QED
  BY <1>2, <1>3 DEF c

(* A well-formed history, by position.                                      *)
LEMMA Reading ==
  ASSUME NEW h \in Seq(Messages)
  PROVE  WellFormed(h) <=>
           /\ Len(h) > 0 => h[1] = Prompt
           /\ \A i \in 1..Len(h) :
                /\ h[i].role = "system" => i = 1
                /\ h[i].role = "summary" =>
                     i = 2 /\ \A t \in Speakers : <<t, "heard">> \in h[i].tells => <<t, "said">> \in h[i].tells
                /\ h[i].role = "user" => \E t \in Speakers : h[i] = Says(t)
                /\ h[i].role = "assistant" =>
                     i > 1 /\ \E t \in Speakers : h[i] = Reply(t) /\ h[i - 1] = Says(t)
           /\ \A i, j \in 1..Len(h) : i # j => h[i].tells \cap h[j].tells = {}
<1>1. Len(h) \in Nat /\ DOMAIN h = 1..Len(h) /\ (h # <<>> <=> Len(h) > 0)
  OBVIOUS
<1> QED
  BY <1>1 DEF WellFormed

(* Folding keeps a history well-formed. *)
LEMMA CompactedWellFormed ==
  ASSUME NEW h \in Seq(Messages), WellFormed(h), Compactable(h)
  PROVE  WellFormed(Compacted(h))
<1> DEFINE c == Compacted(h)
           k == Cut(h)
<1>1. /\ k \in 2..Len(h) /\ c \in Seq(Messages) /\ Len(c) = Len(h) - k + 2 /\ Len(h) \in Nat
      /\ c[1] = Prompt /\ k + 2 <= Len(h) /\ k > Lead(h) /\ h[k + 1].role = "user"
      /\ c[2].role = "summary"
      /\ \A m : m \in c[2].tells <=> \E i \in 1..k : m \in h[i].tells
      /\ \A i \in 3..Len(c) : c[i] = h[k + i - 2]
  BY CompactedIs
<1> HIDE DEF c, k
<1>2. /\ Len(h) > 0 => h[1] = Prompt
      /\ \A i \in 1..Len(h) :
           /\ h[i].role = "system" => i = 1
           /\ h[i].role = "summary" =>
                i = 2 /\ \A t \in Speakers : <<t, "heard">> \in h[i].tells => <<t, "said">> \in h[i].tells
           /\ h[i].role = "user" => \E t \in Speakers : h[i] = Says(t)
           /\ h[i].role = "assistant" =>
                i > 1 /\ \E t \in Speakers : h[i] = Reply(t) /\ h[i - 1] = Says(t)
      /\ \A i, j \in 1..Len(h) : i # j => h[i].tells \cap h[j].tells = {}
  BY Reading
<1>3. \A i \in 3..Len(c) : k + i - 2 \in k + 1..Len(h) /\ k + i - 2 \in 3..Len(h)
  BY <1>1
<1>4. ASSUME NEW t \in Speakers, <<t, "heard">> \in c[2].tells PROVE <<t, "said">> \in c[2].tells
  <2>1. PICK i \in 1..k : <<t, "heard">> \in h[i].tells
    BY <1>1, <1>4
  <2>2. i \in 1..Len(h) /\ h[i] \in Messages
    BY <1>1
  <2>3. h[i].role # "system"
    BY <1>2, <2>1, <2>2 DEF Prompt
  <2>4. ASSUME h[i].role = "user" PROVE FALSE
    <3>1. PICK u \in Speakers : h[i] = Says(u)
      BY <1>2, <2>2, <2>4
    <3> QED
      BY <2>1, <3>1 DEF Says
  <2>5. CASE h[i].role = "summary"
    BY <1>1, <1>2, <2>1, <2>2, <2>5
  <2>6. CASE h[i].role = "assistant"
    <3>1. PICK u \in Speakers : i > 1 /\ h[i] = Reply(u) /\ h[i - 1] = Says(u)
      BY <1>2, <2>2, <2>6
    <3>2. u = t
      BY <2>1, <3>1 DEF Reply
    <3>3. i - 1 \in 1..k /\ <<t, "said">> \in h[i - 1].tells
      BY <1>1, <2>2, <3>1, <3>2 DEF Says
    <3> QED
      BY <1>1, <3>3
  <2> QED
    BY <2>2, <2>3, <2>4, <2>5, <2>6 DEF Messages, Roles
<1>5. ASSUME NEW i \in 1..Len(c)
      PROVE  /\ c[i].role = "system" => i = 1
             /\ c[i].role = "summary" =>
                  i = 2 /\ \A t \in Speakers : <<t, "heard">> \in c[i].tells => <<t, "said">> \in c[i].tells
             /\ c[i].role = "user" => \E t \in Speakers : c[i] = Says(t)
             /\ c[i].role = "assistant" =>
                  i > 1 /\ \E t \in Speakers : c[i] = Reply(t) /\ c[i - 1] = Says(t)
  <2>1. CASE i = 1
    BY <1>1, <2>1 DEF Prompt
  <2>2. CASE i = 2
    BY <1>1, <1>4, <2>2
  <2>3. CASE i >= 3
    <3> DEFINE j == k + i - 2
    <3>1. j \in 1..Len(h) /\ j >= 3 /\ c[i] = h[j]
      BY <1>1, <1>3, <2>3
    <3>2. c[i].role \notin {"system", "summary"} /\ (c[i].role = "user" => \E t \in Speakers : c[i] = Says(t))
      <4> HIDE DEF j
      <4> QED
        BY <1>2, <3>1
    <3>3. ASSUME c[i].role = "assistant" PROVE \E t \in Speakers : c[i] = Reply(t) /\ c[i - 1] = Says(t)
      <4>1. PICK t \in Speakers : h[j] = Reply(t) /\ h[j - 1] = Says(t)
        <5> HIDE DEF j
        <5> QED
          BY <1>2, <3>1, <3>3
      <4>2. i # 3
        BY <1>1, <3>1, <3>3
      <4>3. i - 1 \in 3..Len(c) /\ k + (i - 1) - 2 = j - 1
        BY <1>1, <2>3, <4>2
      <4>4. c[i - 1] = h[j - 1]
        BY <1>1, <4>3
      <4> QED
        BY <3>1, <4>1, <4>4
    <3> QED
      BY <2>3, <3>2, <3>3
  <2> QED
    BY <1>1, <2>1, <2>2, <2>3
<1>6. ASSUME NEW i \in 1..Len(c), NEW j \in 1..Len(c), i < j PROVE c[i].tells \cap c[j].tells = {}
  <2>1. CASE i = 1
    BY <1>1, <2>1 DEF Prompt
  <2>2. CASE i = 2
    <3>1. k + j - 2 \in k + 1..Len(h) /\ c[j] = h[k + j - 2]
      BY <1>1, <1>3, <1>6, <2>2
    <3>2. ASSUME NEW n \in 1..k PROVE h[n].tells \cap h[k + j - 2].tells = {}
      <4>1. n \in 1..Len(h) /\ k + j - 2 \in 1..Len(h) /\ n # k + j - 2
        BY <1>1, <3>1
      <4> QED
        BY <1>2, <4>1
    <3> QED
      BY <1>1, <2>2, <3>1, <3>2
  <2>3. CASE i >= 3
    <3>1. /\ k + i - 2 \in 1..Len(h) /\ k + j - 2 \in 1..Len(h) /\ k + i - 2 # k + j - 2
          /\ c[i] = h[k + i - 2] /\ c[j] = h[k + j - 2]
      BY <1>1, <1>3, <1>6, <2>3
    <3> QED
      BY <1>2, <3>1
  <2> QED
    BY <1>1, <2>1, <2>2, <2>3
<1>7. \A i, j \in 1..Len(c) : i # j => c[i].tells \cap c[j].tells = {}
  <2> SUFFICES ASSUME NEW i \in 1..Len(c), NEW j \in 1..Len(c), i # j PROVE c[i].tells \cap c[j].tells = {}
    OBVIOUS
  <2>1. i < j \/ j < i
    BY <1>1
  <2> QED
    BY <1>6, <2>1
<1>8. WellFormed(c)
  BY <1>1, <1>5, <1>7, Reading
<1> QED
  BY <1>8 DEF c

(* Folding settles: nothing is left to fold. *)
LEMMA CompactedSettles ==
  ASSUME NEW h \in Seq(Messages), WellFormed(h), Compactable(h)
  PROVE  ~Compactable(Compacted(h))
<1> DEFINE c == Compacted(h)
           k == Cut(h)
<1>1. /\ k \in 2..Len(h) /\ c \in Seq(Messages) /\ Len(c) = Len(h) - k + 2 /\ Len(h) \in Nat
      /\ k + 2 <= Len(h) /\ k > Lead(h) /\ h[k + 1].role = "user"
      /\ c[1] = Prompt /\ c[2].role = "summary"
      /\ \A i \in 3..Len(c) : c[i] = h[k + i - 2]
  BY CompactedIs
<1>2. Lead(h) \in 0..Len(h) /\ \A n \in Lead(h)..Len(h) :
              n + 2 * KeepPairs <= Len(h) /\ h[n + 1].role = "user" => n <= k
  BY LeadIs, CutIs
<1>3. WellFormed(c) /\ c # <<>>
  BY <1>1, CompactedWellFormed
<1>4. SUFFICES ASSUME Cut(c) > Lead(c) PROVE FALSE
  BY DEF Compactable
<1> HIDE DEF c, k
<1>5. Lead(c) = 2
  <2>0. 2 \in 1..Len(c)
    BY <1>1
  <2>1. Lead(c) \in {1, 2} /\ (c[2].role \in {"user", "assistant"} <=> 2 > Lead(c))
    BY <1>1, <1>3, <2>0, LeadOfWellFormed
  <2> QED
    BY <1>1, <2>1
<1>6. Cut(c) \in 3..Len(c) /\ Cut(c) + 2 * KeepPairs <= Len(c) /\ c[Cut(c) + 1].role = "user"
  <2>1. /\ Cut(c) \in Lead(c)..Len(c)
        /\ Cut(c) = Lead(c) \/ (Cut(c) + 2 * KeepPairs <= Len(c) /\ c[Cut(c) + 1].role = "user")
    BY <1>1, CutIs
  <2> QED
    BY <1>1, <1>4, <1>5, <2>1
<1> DEFINE n == k + Cut(c) - 2
<1>7. n \in Lead(h)..Len(h) /\ n + 2 * KeepPairs <= Len(h) /\ n > k
      /\ Cut(c) + 1 \in 3..Len(c) /\ k + (Cut(c) + 1) - 2 = n + 1
  <2> DEFINE w == 2 * KeepPairs
  <2>1. w \in Nat /\ w >= 2
    BY SessionsAssumption
  <2>2. k \in Nat /\ Cut(c) \in Nat /\ Len(c) \in Nat /\ Len(h) \in Nat /\ Lead(h) \in Nat
        /\ Len(c) = Len(h) - k + 2 /\ k > Lead(h) /\ Cut(c) >= 3 /\ Cut(c) + w <= Len(c)
    BY <1>1, <1>2, <1>6
  <2> HIDE DEF w
  <2>3. n \in Lead(h)..Len(h) /\ n + w <= Len(h) /\ n > k
        /\ Cut(c) + 1 \in 3..Len(c) /\ k + (Cut(c) + 1) - 2 = n + 1
    BY <2>1, <2>2
  <2> QED
    BY <2>3 DEF w
<1>9. h[n + 1].role = "user"
  BY <1>1, <1>6, <1>7
<1> HIDE DEF n
<1>10. n <= k
  BY <1>2, <1>7, <1>9
<1> QED
  BY <1>1, <1>7, <1>10

(* The last message is recent: it stays where it is. *)
LEMMA CompactedEnds ==
  ASSUME NEW h \in Seq(Messages), WellFormed(h), Compactable(h)
  PROVE  Compacted(h) # <<>> /\ Compacted(h)[Len(Compacted(h))] = h[Len(h)]
<1>1. /\ Cut(h) \in 2..Len(h) /\ Cut(h) + 2 <= Len(h) /\ Compacted(h) \in Seq(Messages)
      /\ Len(Compacted(h)) = Len(h) - Cut(h) + 2
      /\ \A i \in 3..Len(Compacted(h)) : Compacted(h)[i] = h[Cut(h) + i - 2]
  BY CompactedIs
<1>2. Len(Compacted(h)) \in 3..Len(Compacted(h)) /\ Cut(h) + Len(Compacted(h)) - 2 = Len(h)
  BY <1>1
<1>3. Compacted(h)[Len(Compacted(h))] = h[Len(h)]
  BY <1>1, <1>2
<1> QED
  BY <1>1, <1>2, <1>3
-----------------------------------------------------------------------------
LEMMA SaysAndReply ==
  ASSUME NEW t \in Speakers
  PROVE  /\ Says(t) \in Messages /\ Says(t).role = "user" /\ Says(t).tells = {<<t, "said">>}
         /\ Reply(t) \in Messages /\ Reply(t).role = "assistant" /\ Reply(t).tells = {<<t, "heard">>}
  BY DEF Says, Reply, Messages, Roles

LEMMA Appended ==
  ASSUME NEW h \in Seq(Messages), NEW m \in Messages
  PROVE  /\ Append(h, m) \in Seq(Messages) /\ Append(h, m) # <<>> /\ Len(Append(h, m)) = Len(h) + 1
         /\ \A i \in 1..Len(h) : Append(h, m)[i] = h[i]
         /\ Append(h, m)[Len(h) + 1] = m
         /\ Told(Append(h, m)) = Told(h) \cup m.tells
<1> DEFINE a == Append(h, m)
<1>1. /\ a \in Seq(Messages) /\ a # <<>> /\ Len(a) = Len(h) + 1
      /\ \A i \in 1..Len(h) : a[i] = h[i]
      /\ a[Len(h) + 1] = m
  BY AppendProperties
<1> HIDE DEF a
<1>2. 1..Len(a) = 1..Len(h) \cup {Len(h) + 1}
  BY <1>1
<1>3. ASSUME NEW x PROVE x \in Told(a) <=> x \in Told(h) \cup m.tells
  BY <1>1, <1>2, ToldMember
<1>4. Told(a) = Told(h) \cup m.tells
  BY <1>3
<1> QED
  BY <1>1, <1>4 DEF a

(* A message of a turn nobody has told of yet joins a history. *)
LEMMA TurnJoins ==
  ASSUME NEW h \in Seq(Messages), WellFormed(h), h # <<>>, NEW t \in Speakers, NEW m \in Messages,
         m.tells \cap Told(h) = {},
         m = Says(t) \/ (m = Reply(t) /\ h[Len(h)] = Says(t))
  PROVE  WellFormed(Append(h, m))
<1> DEFINE a == Append(h, m)
<1>1. /\ a \in Seq(Messages) /\ Len(a) = Len(h) + 1 /\ Len(h) \in Nat /\ Len(h) > 0
      /\ \A i \in 1..Len(h) : a[i] = h[i]
      /\ a[Len(h) + 1] = m
  BY Appended
<1> HIDE DEF a
<1>2. /\ h[1] = Prompt
      /\ \A i \in 1..Len(h) :
           /\ h[i].role = "system" => i = 1
           /\ h[i].role = "summary" =>
                i = 2 /\ \A u \in Speakers : <<u, "heard">> \in h[i].tells => <<u, "said">> \in h[i].tells
           /\ h[i].role = "user" => \E u \in Speakers : h[i] = Says(u)
           /\ h[i].role = "assistant" =>
                i > 1 /\ \E u \in Speakers : h[i] = Reply(u) /\ h[i - 1] = Says(u)
      /\ \A i, j \in 1..Len(h) : i # j => h[i].tells \cap h[j].tells = {}
  BY <1>1, Reading
<1>3. ASSUME NEW i \in 1..Len(a)
      PROVE  /\ a[i].role = "system" => i = 1
             /\ a[i].role = "summary" =>
                  i = 2 /\ \A u \in Speakers : <<u, "heard">> \in a[i].tells => <<u, "said">> \in a[i].tells
             /\ a[i].role = "user" => \E u \in Speakers : a[i] = Says(u)
             /\ a[i].role = "assistant" =>
                  i > 1 /\ \E u \in Speakers : a[i] = Reply(u) /\ a[i - 1] = Says(u)
  <2>1. CASE i <= Len(h)
    <3>1. i \in 1..Len(h) /\ a[i] = h[i] /\ (i > 1 => a[i - 1] = h[i - 1])
      BY <1>1, <2>1
    <3> QED
      BY <1>2, <3>1
  <2>2. CASE i = Len(h) + 1
    <3>1. a[i] = m /\ i > 1 /\ a[i - 1] = h[Len(h)]
      BY <1>1, <2>2
    <3> QED
      BY <3>1, SaysAndReply
  <2> QED
    BY <1>1, <2>1, <2>2
<1>4. ASSUME NEW i \in 1..Len(h) PROVE h[i].tells \cap m.tells = {}
  BY ToldMember
<1>5. ASSUME NEW i \in 1..Len(a), NEW j \in 1..Len(a), i # j PROVE a[i].tells \cap a[j].tells = {}
  <2>1. CASE i \in 1..Len(h) /\ j \in 1..Len(h)
    BY <1>1, <1>2, <1>5, <2>1
  <2>2. CASE i = Len(h) + 1 /\ j \in 1..Len(h)
    BY <1>1, <1>4, <2>2
  <2>3. CASE i \in 1..Len(h) /\ j = Len(h) + 1
    BY <1>1, <1>4, <2>3
  <2> QED
    BY <1>1, <1>5, <2>1, <2>2, <2>3
<1>6. WellFormed(a)
  BY <1>1, <1>2, <1>3, <1>5, Reading
<1> QED
  BY <1>6 DEF a

(* What an undo leaves: the history up to the last user message.            *)
LEMMA UndoneIs ==
  ASSUME NEW h \in Seq(Messages), WellFormed(h), UserTurns(h) # {}
  PROVE  LET n == Max(UserTurns(h)) - 1
         IN /\ n \in 1..Len(h) - 1 /\ h[n + 1].role = "user"
            /\ \A i \in n + 2..Len(h) : h[i].role # "user"
            /\ Undone(h) \in Seq(Messages) /\ Len(Undone(h)) = n
            /\ \A i \in 1..n : Undone(h)[i] = h[i]
            /\ \A m : m \in Told(Undone(h)) <=> \E i \in 1..n : m \in h[i].tells
<1> DEFINE users == UserTurns(h)
           n == Max(users) - 1
<1>1. users \in SUBSET Nat /\ Len(h) \in Nat /\ (\A i \in users : i <= Len(h))
      /\ users = {i \in 1..Len(h) : h[i].role = "user"}
  BY DEF UserTurns
<1>2. Max(users) \in users /\ \A i \in users : i <= Max(users)
  BY <1>1, GreatestNat
<1>3. h[1] = Prompt
  BY <1>1, LeadOfWellFormed
<1>4. Max(users) # 1
  BY <1>1, <1>2, <1>3 DEF Prompt
<1>5. n \in 1..Len(h) - 1 /\ n + 1 = Max(users) /\ n \in 0..Len(h)
  BY <1>1, <1>2, <1>4
<1>6. ASSUME NEW i \in n + 2..Len(h), h[i].role = "user" PROVE FALSE
  <2>1. i \in users /\ i > Max(users)
    BY <1>1, <1>2, <1>5, <1>6
  <2> QED
    BY <1>1, <1>2, <2>1
<1>7. Undone(h) = SubSeq(h, 1, n)
  BY DEF Undone
<1>8. h[n + 1].role = "user"
  BY <1>1, <1>2, <1>5
<1> HIDE DEF n
<1>9. /\ Undone(h) \in Seq(Messages) /\ Len(Undone(h)) = n
      /\ \A i \in 1..n : Undone(h)[i] = h[i]
      /\ \A m : m \in Told(Undone(h)) <=> \E i \in 1..n : m \in h[i].tells
  BY <1>5, <1>7, ToldOfStart
<1> QED
  BY <1>5, <1>6, <1>8, <1>9 DEF n

LEMMA UndoneWellFormed ==
  ASSUME NEW h \in Seq(Messages), WellFormed(h), UserTurns(h) # {}
  PROVE  Undone(h) # <<>> /\ WellFormed(Undone(h)) /\ Told(Undone(h)) \subseteq Told(h)
<1> DEFINE n == Max(UserTurns(h)) - 1
           c == Undone(h)
<1>1. /\ n \in 1..Len(h) - 1 /\ Len(h) \in Nat
      /\ c \in Seq(Messages) /\ Len(c) = n
      /\ \A i \in 1..n : c[i] = h[i]
  BY UndoneIs
<1> HIDE DEF n, c
<1>2. /\ Len(h) > 0 => h[1] = Prompt
      /\ \A i \in 1..Len(h) :
           /\ h[i].role = "system" => i = 1
           /\ h[i].role = "summary" =>
                i = 2 /\ \A u \in Speakers : <<u, "heard">> \in h[i].tells => <<u, "said">> \in h[i].tells
           /\ h[i].role = "user" => \E u \in Speakers : h[i] = Says(u)
           /\ h[i].role = "assistant" =>
                i > 1 /\ \E u \in Speakers : h[i] = Reply(u) /\ h[i - 1] = Says(u)
      /\ \A i, j \in 1..Len(h) : i # j => h[i].tells \cap h[j].tells = {}
  BY Reading
<1>3. \A i \in 1..Len(c) : i \in 1..Len(h) /\ c[i] = h[i] /\ (i > 1 => c[i - 1] = h[i - 1])
  BY <1>1
<1>4. Len(c) > 0 /\ c[1] = Prompt
  BY <1>1, <1>2
<1>5. WellFormed(c)
  <2>1. ASSUME NEW i \in 1..Len(c)
        PROVE  /\ c[i].role = "system" => i = 1
               /\ c[i].role = "summary" =>
                    i = 2 /\ \A u \in Speakers : <<u, "heard">> \in c[i].tells => <<u, "said">> \in c[i].tells
               /\ c[i].role = "user" => \E u \in Speakers : c[i] = Says(u)
               /\ c[i].role = "assistant" =>
                    i > 1 /\ \E u \in Speakers : c[i] = Reply(u) /\ c[i - 1] = Says(u)
    BY <1>2, <1>3
  <2>2. \A i, j \in 1..Len(c) : i # j => c[i].tells \cap c[j].tells = {}
    BY <1>2, <1>3
  <2> QED
    BY <1>1, <1>4, <2>1, <2>2, Reading
<1>6. Told(c) \subseteq Told(h)
  BY <1>1, <1>3, ToldMember
<1> QED
  BY <1>1, <1>4, <1>5, <1>6 DEF c

(* An undo takes one exchange. *)
LEMMA UndoneTakesOne ==
  ASSUME NEW h \in Seq(Messages), WellFormed(h), UserTurns(h) # {}
  PROVE  \E u \in Speakers :
           /\ <<u, "said">> \in Told(h)
           /\ Told(h) \ Told(Undone(h)) = Told(h) \cap ({u} \X {"said", "heard"})
<1> DEFINE n == Max(UserTurns(h)) - 1
           left == Told(Undone(h))
<1>1. /\ n \in 1..Len(h) - 1 /\ Len(h) \in Nat /\ h[n + 1].role = "user"
      /\ \A i \in n + 2..Len(h) : h[i].role # "user"
  BY UndoneIs
<1>1a. \A m : m \in left <=> \E i \in 1..n : m \in h[i].tells
  BY UndoneIs
<1> HIDE DEF n, left
<1>2. /\ \A i \in 1..Len(h) :
           /\ h[i].role = "system" => i = 1
           /\ h[i].role = "summary" =>
                i = 2 /\ \A u \in Speakers : <<u, "heard">> \in h[i].tells => <<u, "said">> \in h[i].tells
           /\ h[i].role = "user" => \E u \in Speakers : h[i] = Says(u)
           /\ h[i].role = "assistant" =>
                i > 1 /\ \E u \in Speakers : h[i] = Reply(u) /\ h[i - 1] = Says(u)
      /\ \A i, j \in 1..Len(h) : i # j => h[i].tells \cap h[j].tells = {}
  BY Reading
<1>3. n + 1 \in 1..Len(h)
  BY <1>1
<1>4. PICK u \in Speakers : h[n + 1] = Says(u)
  BY <1>1, <1>2, <1>3
<1>5. h[n + 1].tells = {<<u, "said">>} /\ <<u, "said">> \in Told(h)
  BY <1>3, <1>4, SaysAndReply, ToldMember
<1>6. <<u, "said">> \notin left
  <2>1. \A i \in 1..n : i \in 1..Len(h) /\ i # n + 1
    BY <1>1
  <2> QED
    BY <1>1, <1>1a, <1>2, <1>3, <1>5, <2>1
(* Behind the last user message there is only its answer. *)
<1>7. ASSUME NEW i \in n + 2..Len(h) PROVE h[i] = Reply(u)
  <2>1. i \in 1..Len(h) /\ i >= 3 /\ h[i] \in Messages
    BY <1>1
  <2>2. h[i].role = "assistant"
    BY <1>1, <1>2, <2>1 DEF Messages, Roles
  <2>3. PICK v \in Speakers : h[i] = Reply(v) /\ h[i - 1] = Says(v)
    BY <1>2, <2>1, <2>2
  <2>4. i - 1 = n + 1
    <3>1. h[i - 1].role = "user"
      BY <2>3, SaysAndReply
    <3> QED
      BY <1>1, <3>1
  <2>5. v = u
    BY <1>5, <2>3, <2>4, SaysAndReply
  <2> QED
    BY <2>3, <2>5
<1>8. ASSUME NEW m \in Told(h), m \notin left PROVE m \in {u} \X {"said", "heard"}
  <2>1. PICK i \in 1..Len(h) : m \in h[i].tells
    BY ToldMember
  <2>2. i = n + 1 \/ i \in n + 2..Len(h)
    BY <1>1, <1>1a, <1>8, <2>1
  <2> QED
    BY <1>5, <1>7, <2>1, <2>2, SaysAndReply
<1>9. <<u, "heard">> \notin left
  <2> SUFFICES ASSUME <<u, "heard">> \in left PROVE FALSE
    OBVIOUS
  <2>1. PICK i \in 1..n : <<u, "heard">> \in h[i].tells
    BY <1>1, <1>1a
  <2>2. i \in 1..Len(h) /\ h[i] \in Messages
    BY <1>1
  <2>3. i # 1
    BY <1>3, <2>1, LeadOfWellFormed DEF Prompt
  <2>4. CASE h[i].role = "summary"
    <3>1. <<u, "said">> \in h[i].tells
      BY <1>2, <2>1, <2>2, <2>4
    <3> QED
      BY <1>1, <1>1a, <1>6, <3>1
  <2>5. CASE h[i].role = "user"
    <3>1. PICK v \in Speakers : h[i] = Says(v)
      BY <1>2, <2>2, <2>5
    <3> QED
      BY <2>1, <3>1, SaysAndReply
  <2>6. CASE h[i].role = "assistant"
    <3>1. PICK v \in Speakers : h[i] = Reply(v) /\ h[i - 1] = Says(v)
      BY <1>2, <2>2, <2>6
    <3>2. v = u
      BY <2>1, <3>1, SaysAndReply
    <3>3. i - 1 \in 1..n /\ <<u, "said">> \in h[i - 1].tells
      BY <1>1, <2>3, <3>1, <3>2, SaysAndReply
    <3> QED
      BY <1>1, <1>1a, <1>6, <3>3
  <2> QED
    BY <1>2, <2>2, <2>3, <2>4, <2>5, <2>6 DEF Messages, Roles
<1>10. Told(h) \ left = Told(h) \cap ({u} \X {"said", "heard"})
  BY <1>6, <1>8, <1>9
<1> QED
  BY <1>5, <1>10 DEF left
-----------------------------------------------------------------------------
(* From its first command to the one that binds it, nobody can know of a    *)
(* turn; until it stores an answer, nobody can know of that.                *)
Opening == {"idle", "rewrite", "fetch", "refresh", "bind"}
Asking  == {"compose", "save", "answer", "answered"}
News == {<<t, "said">> : t \in {u \in Ops : pc[u] \in Opening}}
          \cup {<<t, "heard">> : t \in {u \in Ops : pc[u] \in Opening \cup Asking}}

(* What is known of a request's copy from where the request is.             *)
Own(t) ==
  /\ WellFormed(copy[t]) /\ WellFormed(seen[t])
  /\ pc[t] \in Asking => copy[t] # <<>> /\ copy[t][Len(copy[t])] = Says(t)
  /\ pc[t] \in Asking \cup {"refresh", "bind", "fold", "folded"} =>
       copy[t] # <<>> /\ Told(seen[t]) \subseteq Told(copy[t])
  /\ pc[t] = "undo" => UserTurns(seen[t]) # {} /\ copy[t] = Undone(seen[t])
  /\ pc[t] = "fold" => Compactable(copy[t])
  /\ pc[t] = "folded" => ~Compactable(copy[t])

Lists ==
  /\ history \in [Sessions -> Seq(Messages)]
  /\ copy \in [Ops -> Seq(Messages)]
  /\ seen \in [Ops -> Seq(Messages)]

(* Stored and copied histories are well-formed and tell no news.            *)
Sound ==
  /\ Lists
  /\ \A s \in Sessions : WellFormed(history[s]) /\ Told(history[s]) \cap News = {}
  /\ \A t \in Ops : Own(t) /\ Told(copy[t]) \cap News = {} /\ Told(seen[t]) \cap News = {}
-----------------------------------------------------------------------------
LEMMA NothingTold == <<>> \in Seq(Messages) /\ WellFormed(<<>>) /\ Told(<<>>) = {}
<1>1. <<>> \in Seq(Messages) /\ DOMAIN <<>> = {}
  OBVIOUS
<1>2. WellFormed(<<>>)
  BY <1>1 DEF WellFormed
<1>3. Told(<<>>) = {}
  BY <1>1 DEF Told
<1>4. QED
  BY <1>1, <1>2, <1>3

LEMMA PromptAlone == <<Prompt>> \in Seq(Messages) /\ WellFormed(<<Prompt>>) /\ Told(<<Prompt>>) = {}
<1>1. Prompt \in Messages /\ Prompt.role = "system" /\ Prompt.tells = {}
  BY DEF Prompt, Messages, Roles
<1>2. <<Prompt>> \in Seq(Messages) /\ Len(<<Prompt>>) = 1 /\ <<Prompt>>[1] = Prompt
  BY <1>1
<1> DEFINE h == <<Prompt>>
<1> HIDE DEF h
<1>3. h \in Seq(Messages) /\ Len(h) = 1 /\ h[1] = Prompt
  BY <1>2 DEF h
<1>4. \A i \in 1..Len(h) : i = 1
  BY <1>3
<1>5. WellFormed(h) /\ Told(h) = {}
  BY <1>1, <1>3, <1>4, Reading, ToldMember
<1>6. QED
  BY <1>2, <1>5 DEF h

(* A request that goes on, to stage c, makes no news.                       *)
LEMMA NoNewNews ==
  ASSUME Shape, NEW t \in Ops, NEW c, pc' = [pc EXCEPT ![t] = c],
         c \in Opening => pc[t] \in Opening,
         c \in Asking => pc[t] \in Opening \cup Asking
  PROVE  /\ News' \subseteq News
         /\ c \notin Opening => <<t, "said">> \notin News'
         /\ c \notin Opening \cup Asking => <<t, "heard">> \notin News'
  BY DEF News, Shape

(* Stored lists and the copies of others stay sound when a request goes on  *)
(* with a sound copy, and what it stores is sound.                          *)
LEMMA SoundKept ==
  ASSUME Shape, Sound, NEW t \in Ops, NEW c, pc' = [pc EXCEPT ![t] = c],
         c \in Opening => pc[t] \in Opening,
         c \in Asking => pc[t] \in Opening \cup Asking,
         Lists',
         \A s \in Sessions : \/ history'[s] = history[s]
                             \/ WellFormed(history'[s]) /\ Told(history'[s]) \cap News' = {},
         \A u \in Ops \ {t} : copy'[u] = copy[u] /\ seen'[u] = seen[u],
         Own(t)', Told(copy'[t]) \cap News' = {}, Told(seen'[t]) \cap News' = {}
  PROVE  Sound'
<1>1. News' \subseteq News
  BY NoNewNews
<1>2. ASSUME NEW s \in Sessions PROVE WellFormed(history'[s]) /\ Told(history'[s]) \cap News' = {}
  BY <1>1 DEF Sound
<1>3. ASSUME NEW u \in Ops
      PROVE  Own(u)' /\ Told(copy'[u]) \cap News' = {} /\ Told(seen'[u]) \cap News' = {}
  <2>1. CASE u = t
    BY <2>1
  <2>2. CASE u # t
    <3>1. pc'[u] = pc[u] /\ copy'[u] = copy[u] /\ seen'[u] = seen[u]
      BY <2>2 DEF Shape
    <3>2. Own(u) /\ Told(copy[u]) \cap News = {} /\ Told(seen[u]) \cap News = {}
      BY DEF Sound
    <3>3. Own(u)'
      BY <3>1, <3>2 DEF Own
    <3>4. QED
      BY <1>1, <3>1, <3>2, <3>3
  <2>3. QED
    BY <2>1, <2>2
<1>4. QED
  BY <1>2, <1>3 DEF Sound

(* A request that ends, having stored h if anything.                        *)
LEMMA EndKeeps ==
  ASSUME Shape, Sound, NEW t \in Ops, NEW c \in Over, Return(t, c),
         \/ UNCHANGED history
         \/ \E h \in Seq(Messages) : /\ history' = [history EXCEPT ![sid[t]] = h]
                                     /\ WellFormed(h) /\ Told(h) \cap News' = {}
  PROVE  Sound'
<1>1. pc' = [pc EXCEPT ![t] = c] /\ copy' = [copy EXCEPT ![t] = <<>>] /\ seen' = [seen EXCEPT ![t] = <<>>]
  BY DEF Return, Goto
<1>2. c \notin Opening \cup Asking /\ c \notin {"refresh", "bind", "fold", "folded", "undo"}
  BY DEF Over, Opening, Asking
<1>3. Lists'
  BY <1>1, NothingTold DEF Sound, Lists
<1>4. pc'[t] = c /\ copy'[t] = <<>> /\ seen'[t] = <<>> /\ \A u \in Ops \ {t} : copy'[u] = copy[u] /\ seen'[u] = seen[u]
  BY <1>1 DEF Shape, Sound, Lists
<1>5. Own(t)'
  BY <1>2, <1>4, NothingTold DEF Own
<1>6. \A s \in Sessions : \/ history'[s] = history[s]
                          \/ WellFormed(history'[s]) /\ Told(history'[s]) \cap News' = {}
  BY DEF Sound, Lists
<1>7. Told(copy'[t]) \cap News' = {} /\ Told(seen'[t]) \cap News' = {}
  BY <1>4, NothingTold
<1>8. QED
  BY <1>1, <1>2, <1>3, <1>4, <1>5, <1>6, <1>7, SoundKept

(* A request that goes on and leaves every list alone.                      *)
LEMMA WalkKeeps ==
  ASSUME Shape, Sound, NEW t \in Ops, NEW c, pc' = [pc EXCEPT ![t] = c],
         c \in Opening => pc[t] \in Opening,
         c \in Asking => pc[t] \in Asking,
         c \in {"refresh", "bind"} => pc[t] \in {"refresh", "bind"},
         c \notin {"undo", "fold", "folded"},
         UNCHANGED <<copy, seen>>, Lists',
         \A s \in Sessions : history'[s] \in {history[s], <<>>}
  PROVE  Sound'
<1>1. pc'[t] = c /\ Own(t) /\ Told(copy[t]) \cap News = {} /\ Told(seen[t]) \cap News = {}
  BY DEF Shape, Sound
<1>2. News' \subseteq News
  BY NoNewNews
<1>3. Own(t)'
  BY <1>1 DEF Own
<1>4. \A s \in Sessions : \/ history'[s] = history[s]
                          \/ WellFormed(history'[s]) /\ Told(history'[s]) \cap News' = {}
  BY NothingTold
<1>5. Told(copy'[t]) \cap News' = {} /\ Told(seen'[t]) \cap News' = {}
  BY <1>1, <1>2
<1>6. QED
  BY <1>3, <1>4, <1>5, SoundKept
-----------------------------------------------------------------------------
LEMMA Speaking == \A t \in Ops : t \in Speakers
  BY DEF Speakers

LEMMA SoundInit == Init => Sound
<1> SUFFICES ASSUME Init PROVE Sound
  OBVIOUS
<1>1. PICK h \in Starts : history = [s \in Sessions |-> IF s = Known THEN h ELSE <<>>]
  BY DEF Init
<1>2. h \in Seq(Messages) /\ WellFormed(h) /\ Told(h) \subseteq Past \X {"said", "heard"}
  BY SessionsAssumption, StartsAssumption
<1>3. /\ copy = [t \in Ops |-> <<>>] /\ seen = [t \in Ops |-> <<>>] /\ pc = [t \in Ops |-> "idle"]
  BY DEF Init
<1>4. Lists
  BY <1>1, <1>2, <1>3, NothingTold DEF Lists
<1>5. News \subseteq Ops \X {"said", "heard"}
  BY DEF News
<1>6. ASSUME NEW s \in Sessions PROVE WellFormed(history[s]) /\ Told(history[s]) \cap News = {}
  <2>1. CASE s = Known
    <3>1. history[s] = h
      BY <1>1, <2>1
    <3>2. Told(h) \cap News = {}
      BY <1>2, <1>5, SessionsAssumption
    <3> QED
      BY <1>2, <3>1, <3>2
  <2>2. CASE s # Known
    BY <1>1, <2>2, NothingTold
  <2> QED
    BY <2>1, <2>2
<1>7. ASSUME NEW t \in Ops PROVE Own(t) /\ Told(copy[t]) \cap News = {} /\ Told(seen[t]) \cap News = {}
  <2>1. copy[t] = <<>> /\ seen[t] = <<>> /\ pc[t] = "idle"
    BY <1>3
  <2> QED
    BY <2>1, NothingTold DEF Own, Asking
<1> QED
  BY <1>4, <1>6, <1>7 DEF Sound

(* The commands that change no list: the expiries, and the keys beside the  *)
(* history.                                                                 *)
LEMMA PlainSteps ==
  ASSUME Shape, Sound, NEW t \in Ops,
         \/ \E s \in Sessions : BeginTurn(t, s)
         \/ Reformulate(t) \/ Refresh(t) \/ Record(t) \/ Scan(t)
         \/ DropModel(t)
  PROVE  Sound'
<1> DEFINE Walks(c) == pc' = [pc EXCEPT ![t] = c] /\ UNCHANGED <<history, copy, seen>>
                       /\ (c \in Opening => pc[t] \in Opening) /\ (c \in Asking => pc[t] \in Asking)
                       /\ (c \in {"refresh", "bind"} => pc[t] \in {"refresh", "bind"})
                       /\ c \notin {"undo", "fold", "folded"}
<1>1. \E c : Walks(c)
  <2> USE DEF Goto, Locals, Opening, Asking
  <2>1. CASE \E s \in Sessions : BeginTurn(t, s)
    <3>1. Walks("fetch") \/ Walks("rewrite")
      BY <2>1 DEF BeginTurn
    <3> QED
      BY <3>1
  <2>2. CASE Reformulate(t)
    <3>1. Walks("fetch")
      BY <2>2 DEF Reformulate
    <3> QED
      BY <3>1
  <2>3. CASE Refresh(t)
    <3>1. Walks("bind")
      BY <2>3 DEF Refresh
    <3> QED
      BY <3>1
  <2>4. CASE Record(t)
    <3>1. Walks("answered")
      BY <2>4 DEF Record
    <3> QED
      BY <3>1
  <2>5. CASE Scan(t)
    <3>1. Walks("wipeHistory") \/ Walks("wipeModels") \/ Walks("wipeUsage")
      BY <2>5 DEF Scan
    <3> QED
      BY <3>1
  <2>6. CASE DropModel(t)
    <3>1. Walks("dropUsage")
      BY <2>6 DEF DropModel
    <3> QED
      BY <3>1
  <2> QED
    BY <2>1, <2>2, <2>3, <2>4, <2>5, <2>6
<1>2. PICK c : Walks(c)
  BY <1>1
<1>3. Lists' /\ \A s \in Sessions : history'[s] \in {history[s], <<>>}
  BY <1>2 DEF Sound, Lists
<1> QED
  BY <1>2, <1>3, WalkKeeps

(* The commands that delete histories. *)
LEMMA DeletingSteps ==
  ASSUME Shape, Sound, NEW t \in Ops,
         (\E s \in Sessions : Delete(t, s)) \/ WipeHistory(t)
  PROVE  Sound'
<1>1. CASE \E s \in Sessions : Delete(t, s)
  <2>1. PICK s \in Sessions : Delete(t, s)
    BY <1>1
  <2>2. /\ pc' = [pc EXCEPT ![t] = "dropModel"] /\ UNCHANGED <<copy, seen>>
        /\ history' = [history EXCEPT ![s] = <<>>]
    BY <2>1 DEF Delete, Goto
  <2>3. Lists' /\ \A r \in Sessions : history'[r] \in {history[r], <<>>}
    BY <2>2, NothingTold DEF Sound, Lists
  <2> QED
    BY <2>2, <2>3, WalkKeeps DEF Opening, Asking
<1>2. CASE WipeHistory(t)
  <2>1. /\ pc' = [pc EXCEPT ![t] = "findModels"] /\ UNCHANGED <<copy, seen>>
        /\ history' = [s \in Sessions |-> IF s \in marked[t] THEN <<>> ELSE history[s]]
    BY <1>2 DEF WipeHistory, Goto, Locals
  <2>2. Lists' /\ \A r \in Sessions : history'[r] \in {history[r], <<>>}
    BY <2>1, NothingTold DEF Sound, Lists
  <2> QED
    BY <2>1, <2>2, WalkKeeps DEF Opening, Asking
<1> QED
  BY <1>1, <1>2

LEMMA WipeSounds ==
  ASSUME Shape, Sound, NEW t \in Ops, Wipe(t)
  PROVE  Sound'
<1>1. CASE pc[t] = "wipeModels"
  <2>1. pc' = [pc EXCEPT ![t] = "findUsage"] /\ UNCHANGED <<history, copy, seen>>
    BY <1>1 DEF Wipe, Goto, Locals
  <2>2. Lists' /\ \A r \in Sessions : history'[r] \in {history[r], <<>>}
    BY <2>1 DEF Sound, Lists
  <2> QED
    BY <2>1, <2>2, WalkKeeps DEF Opening, Asking
<1>2. CASE pc[t] = "wipeUsage"
  <2>1. Return(t, "done") /\ UNCHANGED history
    BY <1>2 DEF Wipe
  <2> QED
    BY <2>1, EndKeeps DEF Over
<1> QED
  BY <1>1, <1>2 DEF Wipe

LEMMA TickSounds == Shape /\ Sound /\ Tick => Sound'
<1> SUFFICES ASSUME Shape, Sound, Tick PROVE Sound'
  OBVIOUS
<1>1. /\ UNCHANGED <<pc, copy, seen>>
      /\ history' = [s \in Sessions |-> IF due["history"][s] <= clock + 1 THEN <<>> ELSE history[s]]
  BY DEF Tick, Locals
<1>2. Lists' /\ \A s \in Sessions : history'[s] \in {history[s], <<>>}
  BY <1>1, NothingTold DEF Sound, Lists
<1>3. News' = News
  BY <1>1 DEF News
<1>4. \A s \in Sessions : WellFormed(history'[s]) /\ Told(history'[s]) \cap News = {}
  BY <1>2, NothingTold DEF Sound
<1>5. \A u \in Ops : Own(u)'
  BY <1>1 DEF Own, Sound
<1> QED
  BY <1>1, <1>2, <1>3, <1>4, <1>5 DEF Sound

LEMMA EndingSteps ==
  ASSUME Shape, Sound, NEW t \in Ops, DropUsage(t) \/ Die(t)
  PROVE  Sound'
<1>1. CASE DropUsage(t)
  BY <1>1, EndKeeps DEF DropUsage, Over
<1>2. CASE Die(t)
  BY <1>2, EndKeeps DEF Die, Over
<1> QED
  BY <1>1, <1>2

LEMMA FetchSounds ==
  ASSUME Shape, Sound, NEW t \in Ops, Fetch(t)
  PROVE  Sound'
<1>0. pc[t] = "fetch" /\ sid[t] \in Sessions /\ t \in Sessions
  BY Names DEF Fetch, Shape
<1>1. CASE history[sid[t]] # <<>>
  <2> DEFINE h == history[sid[t]]
  <2>1. /\ pc' = [pc EXCEPT ![t] = "refresh"] /\ UNCHANGED history
        /\ copy' = [copy EXCEPT ![t] = h] /\ seen' = [seen EXCEPT ![t] = h]
    BY <1>1 DEF Fetch, Goto
  <2>2. h \in Seq(Messages) /\ WellFormed(h) /\ Told(h) \cap News = {} /\ h # <<>>
    BY <1>0, <1>1 DEF Sound, Lists
  <2> HIDE DEF h
  <2>3. pc'[t] = "refresh" /\ copy'[t] = h /\ seen'[t] = h
        /\ \A u \in Ops \ {t} : copy'[u] = copy[u] /\ seen'[u] = seen[u]
    BY <2>1 DEF Shape, Sound, Lists
  <2>4. Own(t)'
    BY <2>2, <2>3 DEF Own, Asking
  <2>5. Lists'
    BY <2>1, <2>2 DEF Sound, Lists
  <2>6. News' \subseteq News
    BY <1>0, <2>1, NoNewNews DEF Opening, Asking
  <2> QED
    BY <1>0, <2>1, <2>2, <2>3, <2>4, <2>5, <2>6, SoundKept DEF Opening, Asking
<1>2. CASE history[sid[t]] = <<>>
  <2>1. /\ pc' = [pc EXCEPT ![t] = "bind"] /\ history' = [history EXCEPT ![t] = <<Prompt>>]
        /\ copy' = [copy EXCEPT ![t] = <<Prompt>>] /\ seen' = [seen EXCEPT ![t] = <<Prompt>>]
    BY <1>2 DEF Fetch, Goto
  <2> DEFINE h == <<Prompt>>
  <2>2. h \in Seq(Messages) /\ WellFormed(h) /\ Told(h) = {} /\ h # <<>>
    BY PromptAlone
  <2>3. pc'[t] = "bind" /\ copy'[t] = h /\ seen'[t] = h
        /\ \A u \in Ops \ {t} : copy'[u] = copy[u] /\ seen'[u] = seen[u]
    BY <2>1 DEF Shape, Sound, Lists
  <2>4. \A s \in Sessions : history'[s] = history[s] \/ history'[s] = h
    BY <2>1 DEF Sound, Lists
  <2>5. Lists'
    BY <1>0, <2>1, <2>2 DEF Sound, Lists
  <2> HIDE DEF h
  <2>6. Own(t)'
    BY <2>2, <2>3 DEF Own, Asking
  <2> QED
    BY <1>0, <2>1, <2>2, <2>3, <2>4, <2>5, <2>6, SoundKept DEF Opening, Asking
<1> QED
  BY <1>1, <1>2

LEMMA BindSounds ==
  ASSUME Shape, Sound, NEW t \in Ops, Bind(t)
  PROVE  Sound'
<1> DEFINE h == Append(copy[t], Says(t))
<1>1. /\ pc[t] = "bind" /\ pc' = [pc EXCEPT ![t] = "compose"] /\ UNCHANGED <<history, seen>>
      /\ copy' = [copy EXCEPT ![t] = h]
  BY DEF Bind, Goto
<1>2. /\ copy[t] \in Seq(Messages) /\ WellFormed(copy[t]) /\ copy[t] # <<>>
      /\ Told(copy[t]) \cap News = {} /\ Told(seen[t]) \cap News = {}
      /\ Told(seen[t]) \subseteq Told(copy[t]) /\ WellFormed(seen[t])
  BY <1>1 DEF Sound, Lists, Own
<1>3. <<t, "said">> \in News
  BY <1>1 DEF News, Opening
<1>4. t \in Speakers /\ Says(t) \in Messages /\ Says(t).tells = {<<t, "said">>}
  BY Speaking, SaysAndReply
<1>5. h \in Seq(Messages) /\ h # <<>> /\ h[Len(h)] = Says(t) /\ Told(h) = Told(copy[t]) \cup {<<t, "said">>}
  BY <1>2, <1>4, Appended
<1>6. WellFormed(h)
  BY <1>2, <1>3, <1>4, TurnJoins
<1> HIDE DEF h
<1>0. "compose" \notin Opening /\ "compose" \in Asking /\ pc[t] \in Opening
  BY <1>1 DEF Opening, Asking
<1>7. News' \subseteq News /\ <<t, "said">> \notin News'
  <2>1. pc' = [pc EXCEPT ![t] = "compose"]
    BY <1>1
  <2> QED
    BY <1>0, <2>1, NoNewNews
<1>8. pc'[t] = "compose" /\ copy'[t] = h /\ seen'[t] = seen[t]
      /\ \A u \in Ops \ {t} : copy'[u] = copy[u] /\ seen'[u] = seen[u]
  BY <1>1 DEF Shape, Sound, Lists
<1>9. Own(t)'
  BY <1>2, <1>5, <1>6, <1>8 DEF Own
<1>10. Lists'
  BY <1>1, <1>5 DEF Sound, Lists
<1> QED
  BY <1>1, <1>2, <1>5, <1>7, <1>8, <1>9, <1>10, SoundKept DEF Opening, Asking

LEMMA ComposeSounds ==
  ASSUME Shape, Sound, NEW t \in Ops, Compose(t)
  PROVE  Sound'
<1>1. /\ pc[t] = "compose" /\ pc' = [pc EXCEPT ![t] = "save"] /\ UNCHANGED <<history, seen>>
  BY DEF Compose, Goto
<1>2. /\ copy[t] \in Seq(Messages) /\ WellFormed(copy[t]) /\ copy[t] # <<>>
      /\ copy[t][Len(copy[t])] = Says(t)
      /\ Told(copy[t]) \cap News = {} /\ Told(seen[t]) \cap News = {}
      /\ Told(seen[t]) \subseteq Told(copy[t]) /\ WellFormed(seen[t])
  BY <1>1 DEF Sound, Lists, Own, Asking
<1>3. \E h \in Seq(Messages) :
        /\ copy' = [copy EXCEPT ![t] = h]
        /\ WellFormed(h) /\ Told(h) = Told(copy[t]) /\ h # <<>> /\ h[Len(h)] = Says(t)
  <2>1. CASE copy' = copy
    <3>1. copy' = [copy EXCEPT ![t] = copy[t]]
      BY <2>1 DEF Sound, Lists
    <3> QED
      BY <1>2, <3>1
  <2>2. CASE Compactable(copy[t]) /\ copy' = [copy EXCEPT ![t] = Compacted(copy[t])]
    BY <1>2, <2>2, CompactedIs, CompactedWellFormed, CompactedTells, CompactedEnds
  <2> QED
    BY <2>1, <2>2 DEF Compose
<1>4. PICK h \in Seq(Messages) :
        /\ copy' = [copy EXCEPT ![t] = h]
        /\ WellFormed(h) /\ Told(h) = Told(copy[t]) /\ h # <<>> /\ h[Len(h)] = Says(t)
  BY <1>3
<1>5. News' \subseteq News
  BY <1>1, NoNewNews DEF Opening, Asking
<1>6. pc'[t] = "save" /\ copy'[t] = h /\ seen'[t] = seen[t]
      /\ \A u \in Ops \ {t} : copy'[u] = copy[u] /\ seen'[u] = seen[u]
  BY <1>1, <1>4 DEF Shape, Sound, Lists
<1>7. Own(t)'
  BY <1>2, <1>4, <1>6 DEF Own
<1>8. Lists'
  BY <1>1, <1>4 DEF Sound, Lists
<1> QED
  BY <1>1, <1>2, <1>4, <1>5, <1>6, <1>7, <1>8, SoundKept DEF Opening, Asking

LEMMA SaveSounds ==
  ASSUME Shape, Sound, NEW t \in Ops, Save(t)
  PROVE  Sound'
<1>1. /\ pc[t] = "save" /\ pc' = [pc EXCEPT ![t] = "answer"] /\ UNCHANGED copy
      /\ history' = [history EXCEPT ![sid[t]] = copy[t]]
      /\ seen' = [seen EXCEPT ![t] = copy[t]]
  BY DEF Save, Store, Goto
<1>2. /\ copy[t] \in Seq(Messages) /\ WellFormed(copy[t]) /\ copy[t] # <<>>
      /\ copy[t][Len(copy[t])] = Says(t) /\ Told(copy[t]) \cap News = {}
  BY <1>1 DEF Sound, Lists, Own, Asking
<1>3. News' \subseteq News
  BY <1>1, NoNewNews DEF Opening, Asking
<1>4. pc'[t] = "answer" /\ copy'[t] = copy[t] /\ seen'[t] = copy[t]
      /\ \A u \in Ops \ {t} : copy'[u] = copy[u] /\ seen'[u] = seen[u]
  BY <1>1 DEF Shape, Sound, Lists
<1>5. Own(t)'
  BY <1>2, <1>4 DEF Own
<1>6. Lists' /\ \A s \in Sessions : history'[s] = history[s] \/ history'[s] = copy[t]
  BY <1>1, <1>2 DEF Sound, Lists
<1> QED
  BY <1>1, <1>2, <1>3, <1>4, <1>5, <1>6, SoundKept DEF Opening, Asking

(* The histories that requests end with. *)
LEMMA FinishSounds ==
  ASSUME Shape, Sound, NEW t \in Ops, Finish(t)
  PROVE  Sound'
<1> DEFINE h == Append(copy[t], Reply(t))
<1>1. pc[t] \in {"answer", "answered"} /\ Return(t, "done")
      /\ (history' = [history EXCEPT ![sid[t]] = h] \/ UNCHANGED history)
  BY DEF Finish, Store
<1>2. /\ copy[t] \in Seq(Messages) /\ WellFormed(copy[t]) /\ copy[t] # <<>>
      /\ copy[t][Len(copy[t])] = Says(t) /\ Told(copy[t]) \cap News = {}
  BY <1>1 DEF Sound, Lists, Own, Asking
<1>3. <<t, "heard">> \in News
  BY <1>1 DEF News, Asking
<1>4. t \in Speakers /\ Reply(t) \in Messages /\ Reply(t).tells = {<<t, "heard">>}
  BY Speaking, SaysAndReply
<1>5. h \in Seq(Messages) /\ Told(h) = Told(copy[t]) \cup {<<t, "heard">>}
  BY <1>2, <1>4, Appended
<1>6. WellFormed(h)
  BY <1>2, <1>3, <1>4, TurnJoins
<1> HIDE DEF h
<1>0. "done" \notin Opening \cup Asking
  BY DEF Opening, Asking
<1>7. News' \subseteq News /\ <<t, "heard">> \notin News'
  <2>1. pc' = [pc EXCEPT ![t] = "done"]
    BY <1>1 DEF Return, Goto
  <2> QED
    BY <1>0, <2>1, NoNewNews
<1>8. Told(h) \cap News' = {}
  BY <1>2, <1>5, <1>7
<1> QED
  BY <1>1, <1>5, <1>6, <1>8, EndKeeps DEF Over

LEMMA WriteSounds ==
  ASSUME Shape, Sound, NEW t \in Ops, UndoWrite(t) \/ CompactWrite(t)
  PROVE  Sound'
<1>1. /\ Return(t, "done") /\ history' = [history EXCEPT ![sid[t]] = copy[t]]
  BY DEF UndoWrite, CompactWrite, Store
<1>2. copy[t] \in Seq(Messages) /\ WellFormed(copy[t]) /\ Told(copy[t]) \cap News = {}
  BY DEF Sound, Lists, Own
<1>3. News' \subseteq News
  BY <1>1, NoNewNews DEF Return, Goto, Opening, Asking
<1> QED
  BY <1>1, <1>2, <1>3, EndKeeps DEF Over

LEMMA ReadSounds ==
  ASSUME Shape, Sound, NEW t \in Ops, NEW s \in Sessions, UndoRead(t, s) \/ CompactRead(t, s)
  PROVE  Sound'
<1> DEFINE h == history[s]
<1>1. h \in Seq(Messages) /\ WellFormed(h) /\ Told(h) \cap News = {}
  BY DEF Sound, Lists
<1>2. CASE UndoRead(t, s)
  <2>1. /\ pc[t] = "idle" /\ pc' = [pc EXCEPT ![t] = "undo"] /\ UNCHANGED history
        /\ UserTurns(h) # {}
        /\ copy' = [copy EXCEPT ![t] = Undone(h)] /\ seen' = [seen EXCEPT ![t] = h]
    BY <1>2 DEF UndoRead, Goto
  <2> HIDE DEF h
  <2>2. Undone(h) \in Seq(Messages) /\ WellFormed(Undone(h)) /\ Told(Undone(h)) \subseteq Told(h)
    BY <1>1, <2>1, UndoneIs, UndoneWellFormed
  <2>3. pc'[t] = "undo" /\ copy'[t] = Undone(h) /\ seen'[t] = h
        /\ \A u \in Ops \ {t} : copy'[u] = copy[u] /\ seen'[u] = seen[u]
    BY <2>1 DEF Shape, Sound, Lists
  <2>4. Own(t)'
    BY <1>1, <2>1, <2>2, <2>3 DEF Own, Asking
  <2>5. Lists'
    BY <1>1, <2>1, <2>2 DEF Sound, Lists
  <2>6. News' \subseteq News
    BY <2>1, NoNewNews DEF Opening, Asking
  <2> QED
    BY <1>1, <2>1, <2>2, <2>3, <2>4, <2>5, <2>6, SoundKept DEF Opening, Asking
<1>3. CASE CompactRead(t, s)
  <2>1. /\ pc[t] = "idle" /\ pc' = [pc EXCEPT ![t] = "fold"] /\ UNCHANGED history
        /\ h # <<>> /\ Compactable(h)
        /\ copy' = [copy EXCEPT ![t] = h] /\ seen' = [seen EXCEPT ![t] = h]
    BY <1>3 DEF CompactRead, Goto
  <2> HIDE DEF h
  <2>3. pc'[t] = "fold" /\ copy'[t] = h /\ seen'[t] = h
        /\ \A u \in Ops \ {t} : copy'[u] = copy[u] /\ seen'[u] = seen[u]
    BY <2>1 DEF Shape, Sound, Lists
  <2>4. Own(t)'
    BY <1>1, <2>1, <2>3 DEF Own, Asking
  <2>5. Lists'
    BY <1>1, <2>1 DEF Sound, Lists
  <2>6. News' \subseteq News
    BY <2>1, NoNewNews DEF Opening, Asking
  <2> QED
    BY <1>1, <2>1, <2>3, <2>4, <2>5, <2>6, SoundKept DEF Opening, Asking
<1> QED
  BY <1>2, <1>3

LEMMA FoldSounds ==
  ASSUME Shape, Sound, NEW t \in Ops, CompactFold(t)
  PROVE  Sound'
<1> DEFINE h == Compacted(copy[t])
<1>1. /\ pc[t] = "fold" /\ pc' = [pc EXCEPT ![t] = "folded"] /\ UNCHANGED <<history, seen>>
      /\ copy' = [copy EXCEPT ![t] = h]
  BY DEF CompactFold, Goto
<1>2. /\ copy[t] \in Seq(Messages) /\ WellFormed(copy[t]) /\ Compactable(copy[t])
      /\ Told(copy[t]) \cap News = {} /\ Told(seen[t]) \cap News = {}
      /\ Told(seen[t]) \subseteq Told(copy[t]) /\ WellFormed(seen[t])
  BY <1>1 DEF Sound, Lists, Own
<1>3. /\ h \in Seq(Messages) /\ h # <<>> /\ WellFormed(h) /\ Told(h) = Told(copy[t]) /\ ~Compactable(h)
  BY <1>2, CompactedIs, CompactedWellFormed, CompactedTells, CompactedEnds, CompactedSettles
<1> HIDE DEF h
<1>4. News' \subseteq News
  BY <1>1, NoNewNews DEF Opening, Asking
<1>5. pc'[t] = "folded" /\ copy'[t] = h /\ seen'[t] = seen[t]
      /\ \A u \in Ops \ {t} : copy'[u] = copy[u] /\ seen'[u] = seen[u]
  BY <1>1 DEF Shape, Sound, Lists
<1>6. Own(t)'
  BY <1>2, <1>3, <1>5 DEF Own, Asking
<1>7. Lists'
  BY <1>1, <1>3 DEF Sound, Lists
<1> QED
  BY <1>1, <1>2, <1>3, <1>4, <1>5, <1>6, <1>7, SoundKept DEF Opening, Asking

LEMMA SoundStep == AtPeace /\ Sound /\ [Next]_sessionVars => Sound'
<1> SUFFICES ASSUME AtPeace, Sound, [Next]_sessionVars PROVE Sound'
  OBVIOUS
<1>0. Shape
  BY DEF AtPeace
<1>1. CASE Tick
  BY <1>0, <1>1, TickSounds
<1>2. ASSUME NEW t \in Ops, Step(t) PROVE Sound'
  <2>1. CASE \E s \in Sessions : UndoRead(t, s) \/ CompactRead(t, s)
    BY <1>0, <2>1, ReadSounds
  <2>2. CASE (\E s \in Sessions : BeginTurn(t, s)) \/ Reformulate(t) \/ Refresh(t) \/ Record(t)
             \/ Scan(t) \/ DropModel(t)
    BY <1>0, <2>2, PlainSteps
  <2>3. CASE (\E s \in Sessions : Delete(t, s)) \/ WipeHistory(t)
    BY <1>0, <2>3, DeletingSteps
  <2>4. CASE DropUsage(t) \/ Die(t)
    BY <1>0, <2>4, EndingSteps
  <2>5. CASE Fetch(t)
    BY <1>0, <2>5, FetchSounds
  <2>6. CASE Bind(t)
    BY <1>0, <2>6, BindSounds
  <2>7. CASE Compose(t)
    BY <1>0, <2>7, ComposeSounds
  <2>8. CASE Save(t)
    BY <1>0, <2>8, SaveSounds
  <2>9. CASE Finish(t)
    BY <1>0, <2>9, FinishSounds
  <2>10. CASE UndoWrite(t) \/ CompactWrite(t)
    BY <1>0, <2>10, WriteSounds
  <2>11. CASE CompactFold(t)
    BY <1>0, <2>11, FoldSounds
  <2>12. CASE Wipe(t)
    BY <1>0, <2>12, WipeSounds
  <2> QED
    BY <1>2, <2>1, <2>2, <2>3, <2>4, <2>5, <2>6, <2>7, <2>8, <2>9, <2>10, <2>11, <2>12, Zenon DEF Step
<1>3. CASE UNCHANGED sessionVars
  <2>1. UNCHANGED <<history, copy, seen, pc>>
    BY <1>3 DEF sessionVars
  <2>2. News' = News
    BY <2>1 DEF News
  <2> QED
    BY <2>1, <2>2 DEF Sound, Lists, Own
<1> QED
  BY <1>1, <1>2, <1>3 DEF Next
-----------------------------------------------------------------------------
(* A request's step moves no other request. *)
LEMMA OneMoves ==
  ASSUME Shape, NEW u \in Ops, Step(u), NEW t \in Ops \ {u}
  PROVE  pc'[t] = pc[t]
<1>1. \E c : pc' = [pc EXCEPT ![u] = c]
  <2>1. CASE \E s \in Sessions : BeginTurn(u, s) \/ UndoRead(u, s) \/ CompactRead(u, s) \/ Delete(u, s)
    BY <2>1 DEF BeginTurn, UndoRead, CompactRead, Delete, Goto
  <2>2. CASE Reformulate(u) \/ Fetch(u) \/ Refresh(u) \/ Bind(u) \/ Compose(u) \/ Save(u)
    BY <2>2 DEF Reformulate, Fetch, Refresh, Bind, Compose, Save, Goto
  <2>3. CASE Record(u) \/ Finish(u) \/ UndoWrite(u) \/ CompactFold(u) \/ CompactWrite(u)
    BY <2>3 DEF Record, Finish, UndoWrite, CompactFold, CompactWrite, Return, Goto
  <2>4. CASE DropModel(u) \/ DropUsage(u) \/ Scan(u) \/ WipeHistory(u) \/ Wipe(u) \/ Die(u)
    BY <2>4 DEF DropModel, DropUsage, Scan, WipeHistory, Wipe, Die, Return, Goto
  <2> QED
    BY <2>1, <2>2, <2>3, <2>4, Zenon DEF Step
<1> QED
  BY <1>1 DEF Shape

(* The commands of a turn or a compaction under way that write a history.   *)
LEMMA Writers ==
  ASSUME NEW t \in Ops, Step(t), WritesTurn(t)
  PROVE  Save(t) \/ Finish(t) \/ CompactWrite(t)
<1>1. pc[t] \in {"save", "answer", "answered", "folded"} /\ history' # history
  BY DEF WritesTurn
<1>2. ~(\E s \in Sessions : BeginTurn(t, s) \/ UndoRead(t, s) \/ CompactRead(t, s) \/ Delete(t, s))
  BY <1>1 DEF BeginTurn, UndoRead, CompactRead, Delete
<1>3. ~(Reformulate(t) \/ Fetch(t) \/ Refresh(t) \/ Bind(t) \/ Compose(t) \/ Record(t))
  BY <1>1 DEF Reformulate, Fetch, Refresh, Bind, Compose, Record
<1>4. ~(UndoWrite(t) \/ CompactFold(t) \/ DropModel(t) \/ DropUsage(t))
  BY <1>1 DEF UndoWrite, CompactFold, DropModel, DropUsage
<1>5. ~(Scan(t) \/ WipeHistory(t) \/ Wipe(t) \/ Die(t))
  BY <1>1 DEF Scan, WipeHistory, Wipe, Die
<1> QED
  BY <1>2, <1>3, <1>4, <1>5, Zenon DEF Step

LEMMA QuietWriteKeeps ==
  ASSUME AtPeace, Sound, NEW t \in Ops, Next, WritesTurn(t), history[sid[t]] = seen[t]
  PROVE  KeepsAll(t)
<1>0. Shape /\ Lists /\ Own(t) /\ sid[t] \in Sessions
  BY DEF AtPeace, Shape, Sound
<1>1. ~Tick /\ \A u \in Ops : Step(u) => u = t
  <2>1. pc'[t] # pc[t]
    BY DEF WritesTurn
  <2>2. ~Tick
    BY <2>1 DEF Tick
  <2> QED
    BY <1>0, <2>1, <2>2, OneMoves
<1>2. Save(t) \/ Finish(t) \/ CompactWrite(t)
  <2>1. Step(t)
    BY <1>1 DEF Next
  <2> QED
    BY <2>1, Writers
<1>3. copy[t] \in Seq(Messages) /\ Told(seen[t]) \subseteq Told(copy[t])
  BY <1>0, <1>2 DEF Lists, Own, Asking, Save, Finish, CompactWrite
<1>4. CASE history' = [history EXCEPT ![sid[t]] = copy[t]]
  BY <1>0, <1>3, <1>4 DEF KeepsAll, Lists
<1>5. CASE history' = [history EXCEPT ![sid[t]] = Append(copy[t], Reply(t))]
  <2>1. Told(copy[t]) \subseteq Told(Append(copy[t], Reply(t)))
    BY <1>3, Speaking, SaysAndReply, Appended
  <2>2. history'[sid[t]] = Append(copy[t], Reply(t))
    BY <1>0, <1>5 DEF Lists
  <2> QED
    BY <1>3, <2>1, <2>2 DEF KeepsAll
<1>6. history' # history
  BY DEF WritesTurn
<1> QED
  BY <1>2, <1>4, <1>5, <1>6 DEF Save, Finish, CompactWrite, Store

LEMMA SoundAlways == Spec => [](AtPeace /\ Sound)
<1>1. Init => AtPeace /\ Sound
  BY AtPeaceInit, SoundInit
<1>2. (AtPeace /\ Sound) /\ [Next]_sessionVars => (AtPeace /\ Sound)'
  BY AtPeaceStep, SoundStep
<1> QED
  BY <1>1, <1>2, PTL DEF Spec
-----------------------------------------------------------------------------
(* The three keys of every session, and what every request keeps about its  *)
(* own, have the types that the store and the handlers give them: a stored  *)
(* history is a list of messages for any number of requests, and compacting *)
(* or undoing one gives a list of messages again.                           *)
THEOREM HistoriesTyped == Spec => []TypeOK
<1>1. AtPeace /\ Sound => TypeOK
  BY DEF AtPeace, Shape, Sound, Lists, TypeOK
<1> QED
  BY <1>1, SoundAlways, PTL

(* However turns, undos, compactions, deletes, wipes, crashes and expiries  *)
(* interleave, a stored history and every copy of one is the prompt, at     *)
(* most one summary, and whole exchanges, none told twice: an answer stands *)
(* right behind its question or is in the summary together with it          *)
(* (compact_history, undo_last_exchange, persist_history).                  *)
THEOREM HistoriesStayWellFormed == Spec => []HistoriesWellFormed
<1>1. AtPeace /\ Sound => HistoriesWellFormed
  BY DEF Sound, Own, HistoriesWellFormed
<1> QED
  BY <1>1, SoundAlways, PTL

(* What an undo is about to store lacks the last user message and the       *)
(* answer to it, and nothing else, whatever was compacted before            *)
(* (handle_undo_last_exchange).                                             *)
THEOREM UndosTakeOneExchange == Spec => []UndoTakesOneExchange
<1>1. AtPeace /\ Sound => UndoTakesOneExchange
  <2> SUFFICES ASSUME Sound, NEW t \in Ops, pc[t] = "undo"
               PROVE  /\ copy[t] # <<>>
                      /\ \E u \in Speakers :
                           /\ <<u, "said">> \in Told(seen[t])
                           /\ Told(seen[t]) \ Told(copy[t]) = Told(seen[t]) \cap ({u} \X {"said", "heard"})
    BY DEF UndoTakesOneExchange
  <2>1. /\ seen[t] \in Seq(Messages) /\ WellFormed(seen[t])
        /\ UserTurns(seen[t]) # {} /\ copy[t] = Undone(seen[t])
    BY DEF Sound, Lists, Own
  <2> QED
    BY <2>1, UndoneWellFormed, UndoneTakesOne
<1> QED
  BY <1>1, SoundAlways, PTL

(* A history that was just compacted has nothing left to compact: asking    *)
(* again is refused, it never folds the summary it just made                *)
(* (compact_history, handle_compact_session).                               *)
THEOREM FoldsSettle == Spec => []FoldSettles
<1>1. AtPeace /\ Sound => FoldSettles
  BY DEF Sound, Own, FoldSettles
<1> QED
  BY <1>1, SoundAlways, PTL

(* A turn or a compaction that writes a history nobody wrote since it read  *)
(* it loses nothing: every message it held is in what is stored, in full or *)
(* in the summary.  What the runs show lost is lost to another writer.      *)
THEOREM QuietWritesKeep == Spec => QuietWritesKeepAll
<1>1. AtPeace /\ Sound /\ [Next]_sessionVars =>
        [\A t \in Ops : WritesTurn(t) /\ history[sid[t]] = seen[t] => KeepsAll(t)]_sessionVars
  BY QuietWriteKeeps
<1> QED
  BY <1>1, SoundAlways, PTL DEF Spec, QuietWritesKeepAll
=============================================================================
