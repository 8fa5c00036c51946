--------------------------- MODULE PopupStackProofs ---------------------------
(***************************************************************************)
(* What the operations of the popup stack keep, for stacks of any length   *)
(* and any limit.                                                          *)
(***************************************************************************)
EXTENDS PopupStack, ListProofs

-----------------------------------------------------------------------------
(* The shape of any stack, of which StackShape says that the stack on      *)
(* screen has it.                                                          *)
Shaped(stack) ==
  /\ \A i, j \in DOMAIN stack : i < j /\ IsError(stack[i]) => IsError(stack[j])
  /\ \A i, j \in DOMAIN stack :
       stack[i].type = stack[j].type /\ ~IsError(stack[i]) => i = j

PopupsOf(A) == [type : Types, asker : A]

\* A stack that has the shape, is not too long and holds popups of askers A.
Sound(stack, A) ==
  stack \in Seq(PopupsOf(A)) /\ Len(stack) <= PopupLimit /\ Shaped(stack)

\* A stack that holds nothing but what another one holds.
Within(new, stack) == \A i \in DOMAIN new : \E j \in DOMAIN stack : new[i] = stack[j]

LEMMA SoundMeans ==
  ASSUME NEW A, Sound(popups, A)
  PROVE  StackTypeOK /\ StackShape
<1>0. popups \in Seq(PopupsOf(A)) /\ DOMAIN popups = 1..Len(popups)
  BY DEF Sound
<1>1. \A i \in DOMAIN popups :
        /\ popups[i] \in [type : Types, asker : {p.asker : p \in ToSet(popups)}]
  <2> TAKE i \in DOMAIN popups
  <2>1. popups[i] \in PopupsOf(A)
    BY <1>0
  <2>2. popups[i] \in ToSet(popups)
    BY DEF ToSet
  <2>3. popups[i].asker \in {p.asker : p \in ToSet(popups)}
    BY <2>2
  <2> QED
    BY <2>1, <2>3 DEF PopupsOf
<1>2. popups \in Seq([type : Types, asker : {p.asker : p \in ToSet(popups)}])
  <2> DEFINE T == [type : Types, asker : {p.asker : p \in ToSet(popups)}]
  <2>1. \A i \in 1..Len(popups) : popups[i] \in T
    BY <1>0, <1>1
  <2> HIDE DEF T
  <2>2. popups \in Seq(T)
    BY <1>0, <2>1
  <2> QED
    BY <2>2 DEF T
<1> QED
  BY <1>2 DEF Sound, Shaped, StackTypeOK, StackShape

\* A part of a stack in the stack's order has the shape.
LEMMA PartShaped ==
  ASSUME NEW A, NEW s \in Seq(PopupsOf(A)), Shaped(s), NEW k \in Seq(PopupsOf(A)), NEW at,
         \A i \in 1..Len(k) : at[i] \in 1..Len(s) /\ k[i] = s[at[i]],
         \A i, j \in 1..Len(k) : i < j => at[i] < at[j]
  PROVE  Shaped(k) /\ Within(k, s)
<1>1. DOMAIN k = 1..Len(k) /\ DOMAIN s = 1..Len(s)
  OBVIOUS
<1>2. ASSUME NEW i \in 1..Len(k), NEW j \in 1..Len(k), i < j, IsError(k[i])
      PROVE IsError(k[j])
  BY <1>1, <1>2 DEF Shaped
<1>3. ASSUME NEW i \in 1..Len(k), NEW j \in 1..Len(k), k[i].type = k[j].type, ~IsError(k[i])
      PROVE i = j
  <2>1. at[i] = at[j]
    BY <1>1, <1>3 DEF Shaped
  <2>2. i \in Int /\ j \in Int /\ at[i] \in Int /\ at[j] \in Int /\ ~(i < j) /\ ~(j < i)
    BY <2>1
  <2> QED
    BY <2>2
<1> QED
  BY <1>1, <1>2, <1>3 DEF Shaped, Within

\* What is left at the bottom of a stack, and what is left above its oldest.
LEMMA EndsSound ==
  ASSUME NEW A, NEW s \in Seq(PopupsOf(A)), Shaped(s), s # <<>>
  PROVE  /\ Tail(s) \in Seq(PopupsOf(A)) /\ Shaped(Tail(s)) /\ Within(Tail(s), s)
         /\ Front(s) \in Seq(PopupsOf(A)) /\ Shaped(Front(s)) /\ Within(Front(s), s)
         /\ Len(Tail(s)) = Len(s) - 1 /\ Len(Front(s)) = Len(s) - 1
<1>1. /\ Tail(s) \in Seq(PopupsOf(A)) /\ Len(Tail(s)) = Len(s) - 1
      /\ \A i \in 1..Len(Tail(s)) : i + 1 \in 1..Len(s) /\ Tail(s)[i] = s[i + 1]
  OBVIOUS
<1>2. /\ Front(s) \in Seq(PopupsOf(A)) /\ Len(Front(s)) = Len(s) - 1
      /\ \A i \in 1..Len(Front(s)) : i \in 1..Len(s) /\ Front(s)[i] = s[i]
  BY FrontFacts
<1>3. Shaped(Tail(s)) /\ Within(Tail(s), s)
  <2> DEFINE at == [i \in 1..Len(Tail(s)) |-> i + 1]
  <2>1. \A i \in 1..Len(Tail(s)) : at[i] \in 1..Len(s) /\ Tail(s)[i] = s[at[i]]
    BY <1>1
  <2>2. \A i, j \in 1..Len(Tail(s)) : i < j => at[i] < at[j]
    BY <1>1
  <2> QED
    BY <1>1, <2>1, <2>2, PartShaped
<1>4. Shaped(Front(s)) /\ Within(Front(s), s)
  <2> DEFINE at == [i \in 1..Len(Front(s)) |-> i]
  <2>1. \A i \in 1..Len(Front(s)) : at[i] \in 1..Len(s) /\ Front(s)[i] = s[at[i]]
    BY <1>2
  <2>2. \A i, j \in 1..Len(Front(s)) : i < j => at[i] < at[j]
    BY <1>2
  <2> QED
    BY <1>2, <2>1, <2>2, PartShaped
<1> QED
  BY <1>1, <1>2, <1>3, <1>4

\* checkStackLength
LEMMA TrimmedSound ==
  ASSUME NEW A, NEW s \in Seq(PopupsOf(A)), Shaped(s), Len(s) <= PopupLimit + 1
  PROVE  Sound(Trimmed(s), A) /\ Within(Trimmed(s), s)
<1>1. Within(s, s)
  BY DEF Within
<1>2. PopupLimit \in Nat \ {0}
  BY PopupLimitAssumption
<1>3. CASE Len(s) > PopupLimit
  <2>1. s # <<>>
    BY <1>2, <1>3
  <2>2. /\ Tail(s) \in Seq(PopupsOf(A)) /\ Shaped(Tail(s)) /\ Within(Tail(s), s)
        /\ Len(Tail(s)) = Len(s) - 1
    BY <2>1, EndsSound
  <2> QED
    BY <2>2, <1>2, <1>3 DEF Sound, Trimmed
<1>4. CASE ~(Len(s) > PopupLimit)
  BY <1>1, <1>2, <1>4 DEF Sound, Trimmed
<1> QED
  BY <1>3, <1>4

LEMMA KeptSound ==
  ASSUME NEW A, NEW s \in Seq(PopupsOf(A)), Shaped(s), NEW I
  PROVE  /\ Kept(s, I) \in Seq(PopupsOf(A)) /\ Shaped(Kept(s, I))
         /\ Within(Kept(s, I), s) /\ Len(Kept(s, I)) <= Len(s)
<1>1. Kept(s, I) \in Seq(PopupsOf(A)) /\ Len(Kept(s, I)) <= Len(s)
  BY KeptFacts
<1>2. PICK at : KeptAt(Kept(s, I), at, s, I, Len(s))
  BY KeptFacts
<1>3. /\ \A i \in 1..Len(Kept(s, I)) : at[i] \in 1..Len(s) /\ Kept(s, I)[i] = s[at[i]]
      /\ \A i, j \in 1..Len(Kept(s, I)) : i < j => at[i] < at[j]
  BY <1>2 DEF KeptAt
<1> QED
  BY <1>1, <1>3, PartShaped

(* Closing popups keeps the shape (removePopupByType, _closePopup).        *)
LEMMA ClosedSound ==
  ASSUME NEW A, NEW s, Sound(s, A), NEW type
  PROVE  /\ Sound(WithoutType(s, type), A) /\ Within(WithoutType(s, type), s)
         /\ Sound(ClosedType(s, type), A) /\ Within(ClosedType(s, type), s)
         /\ Sound(ClosedTop(s), A) /\ Within(ClosedTop(s), s)
<1>1. Within(s, s) /\ PopupLimit \in Nat /\ s \in Seq(PopupsOf(A)) /\ Shaped(s)
  BY PopupLimitAssumption DEF Within, Sound
<1>2. Sound(WithoutType(s, type), A) /\ Within(WithoutType(s, type), s)
  <2>1. \A I : Sound(Kept(s, I), A) /\ Within(Kept(s, I), s)
    <3> TAKE I
    <3>1. /\ Kept(s, I) \in Seq(PopupsOf(A)) /\ Shaped(Kept(s, I))
          /\ Within(Kept(s, I), s) /\ Len(Kept(s, I)) <= Len(s)
      BY <1>1, KeptSound
    <3> QED
      BY <1>1, <3>1 DEF Sound
  <2> QED
    BY <2>1 DEF WithoutType
<1>3. Sound(ClosedTop(s), A) /\ Within(ClosedTop(s), s)
  <2>1. CASE s = <<>>
    BY <1>1, <2>1 DEF ClosedTop
  <2>2. CASE s # <<>>
    <3>1. /\ Front(s) \in Seq(PopupsOf(A)) /\ Shaped(Front(s)) /\ Within(Front(s), s)
          /\ Len(Front(s)) = Len(s) - 1
      BY <1>1, <2>2, EndsSound
    <3> QED
      BY <1>1, <2>2, <3>1 DEF Sound, ClosedTop
  <2> QED
    BY <2>1, <2>2
<1> QED
  BY <1>1, <1>2, <1>3 DEF ClosedType

-----------------------------------------------------------------------------
(* Adding a popup below the errors.                                        *)
LEMMA Increasing ==
  ASSUME NEW m \in Nat, NEW n \in Nat, NEW h,
         \A i \in 1..m : h[i] \in 1..n,
         \A i, j \in 1..m : i < j => h[i] < h[j]
  PROVE  m <= n
<1> DEFINE Bad == {i \in 1..m : h[i] < i}
<1>1. Bad = {}
  <2>1. SUFFICES ASSUME Bad # {} PROVE FALSE
    OBVIOUS
  <2>2. PICK i \in Bad : \A k \in Bad : i <= k
    <3>1. Bad \subseteq Nat
      OBVIOUS
    <3> QED
      BY <2>1, <3>1, Smallest
  <2>3. i \in 1..m /\ h[i] \in 1..n /\ h[i] < i
    BY <2>2
  <2>4. i - 1 \in 1..m /\ i - 1 < i
    BY <2>3
  <2>5. h[i - 1] < h[i] /\ h[i - 1] \in 1..n
    BY <2>3, <2>4
  <2>6. h[i - 1] < i - 1
    BY <2>3, <2>5
  <2>7. i - 1 \in Bad
    BY <2>4, <2>6
  <2> QED
    BY <2>2, <2>4, <2>7
<1>2. CASE m = 0
  BY <1>2
<1>3. CASE m # 0
  <2>1. m \in 1..m /\ h[m] \in 1..n /\ m \notin Bad
    BY <1>1, <1>3
  <2>2. ~(h[m] < m)
    BY <2>1
  <2> QED
    BY <2>1, <2>2
<1> QED
  BY <1>2, <1>3

\* The errors are above all others, so that together they are no more than before.
LEMMA ErrorsAboveOthers ==
  ASSUME NEW A, NEW s \in Seq(PopupsOf(A)), Shaped(s)
  PROVE  Len(Kept(s, DOMAIN s \ Errors(s))) + Len(Kept(s, Errors(s))) <= Len(s)
<1> DEFINE o == Kept(s, DOMAIN s \ Errors(s))
           e == Kept(s, Errors(s))
<1>1. o \in Seq(PopupsOf(A)) /\ e \in Seq(PopupsOf(A))
  BY KeptFacts
<1>2. PICK ao : KeptAt(o, ao, s, DOMAIN s \ Errors(s), Len(s))
  BY KeptFacts
<1>3. PICK ae : KeptAt(e, ae, s, Errors(s), Len(s))
  BY KeptFacts
<1>4. /\ \A i \in 1..Len(o) : ao[i] \in 1..Len(s) /\ ao[i] \notin Errors(s)
      /\ \A i, j \in 1..Len(o) : i < j => ao[i] < ao[j]
  BY <1>2 DEF KeptAt
<1>5. /\ \A i \in 1..Len(e) : ae[i] \in 1..Len(s) /\ ae[i] \in Errors(s)
      /\ \A i, j \in 1..Len(e) : i < j => ae[i] < ae[j]
  BY <1>3 DEF KeptAt
<1>6. Len(o) \in Nat /\ Len(e) \in Nat /\ Len(s) \in Nat /\ DOMAIN s = 1..Len(s)
  BY <1>1
<1> HIDE DEF o, e
<1>7. \A p, q \in 1..Len(s) : p \notin Errors(s) /\ q \in Errors(s) => p < q
  BY <1>6 DEF Shaped, Errors
<1> DEFINE h == [i \in 1..(Len(o) + Len(e)) |-> IF i <= Len(o) THEN ao[i] ELSE ae[i - Len(o)]]
<1>8. \A i \in 1..(Len(o) + Len(e)) :
        \/ i \in 1..Len(o) /\ h[i] = ao[i]
        \/ i - Len(o) \in 1..Len(e) /\ i > Len(o) /\ h[i] = ae[i - Len(o)]
  BY <1>6
<1> HIDE DEF h
<1>9. \A i \in 1..(Len(o) + Len(e)) : h[i] \in 1..Len(s)
  BY <1>4, <1>5, <1>8
<1>10. ASSUME NEW i \in 1..(Len(o) + Len(e)), NEW j \in 1..(Len(o) + Len(e)), i < j
       PROVE h[i] < h[j]
  <2>1. CASE i \in 1..Len(o) /\ h[i] = ao[i] /\ j \in 1..Len(o) /\ h[j] = ao[j]
    BY <2>1, <1>4, <1>10
  <2>2. CASE i \in 1..Len(o) /\ h[i] = ao[i] /\ j - Len(o) \in 1..Len(e) /\ h[j] = ae[j - Len(o)]
    BY <2>2, <1>4, <1>5, <1>7
  <2>3. CASE /\ i - Len(o) \in 1..Len(e) /\ h[i] = ae[i - Len(o)]
             /\ j - Len(o) \in 1..Len(e) /\ h[j] = ae[j - Len(o)]
    <3>1. i - Len(o) < j - Len(o)
      BY <1>6, <1>10
    <3> QED
      BY <2>3, <3>1, <1>5
  <2>4. ~(i > Len(o) /\ j \in 1..Len(o))
    BY <1>6, <1>10
  <2> QED
    BY <1>8, <2>1, <2>2, <2>3, <2>4
<1>11. Len(o) + Len(e) <= Len(s)
  <2>1. Len(o) + Len(e) \in Nat
    BY <1>6
  <2> QED
    BY <1>6, <1>9, <1>10, <2>1, Increasing
<1> QED
  BY <1>11 DEF o, e

\* A stack that holds nothing but what another one holds and a new popup.
OnlyFrom(new, stack, p) == \A i \in DOMAIN new : new[i] = p \/ \E j \in DOMAIN stack : new[i] = stack[j]

\* A popup of a new type goes between the others and the errors.
LEMMA InsertedShaped ==
  ASSUME NEW A, NEW s \in Seq(PopupsOf(A)), Shaped(s), NEW p \in PopupsOf(A),
         ~IsError(p), ~HasType(s, p.type)
  PROVE  LET new == Append(Kept(s, DOMAIN s \ Errors(s)), p) \o Kept(s, Errors(s))
         IN /\ new \in Seq(PopupsOf(A)) /\ Shaped(new) /\ Len(new) <= Len(s) + 1
            /\ OnlyFrom(new, s, p)
<1> DEFINE o == Kept(s, DOMAIN s \ Errors(s))
           e == Kept(s, Errors(s))
           new == Append(o, p) \o e
<1>1. /\ o \in Seq(PopupsOf(A)) /\ Shaped(o) /\ Within(o, s)
      /\ e \in Seq(PopupsOf(A)) /\ Shaped(e) /\ Within(e, s)
  BY KeptSound
<1>2. \A i \in 1..Len(o) : ~IsError(o[i])
  <2>1. PICK at : KeptAt(o, at, s, DOMAIN s \ Errors(s), Len(s))
    BY KeptFacts
  <2> QED
    BY <2>1 DEF KeptAt, Errors
<1>3. \A i \in 1..Len(e) : IsError(e[i])
  <2>1. PICK at : KeptAt(e, at, s, Errors(s), Len(s))
    BY KeptFacts
  <2> QED
    BY <2>1 DEF KeptAt, Errors
<1>4. Len(o) + Len(e) <= Len(s)
  BY ErrorsAboveOthers
<1> HIDE DEF o, e
<1>5. /\ new \in Seq(PopupsOf(A)) /\ Len(new) = Len(o) + 1 + Len(e)
      /\ DOMAIN new = 1..(Len(o) + 1 + Len(e))
      /\ DOMAIN o = 1..Len(o) /\ DOMAIN e = 1..Len(e) /\ DOMAIN s = 1..Len(s)
      /\ Len(o) \in Nat /\ Len(e) \in Nat
  BY <1>1
<1>6. \A i \in DOMAIN new :
        \/ i \in 1..Len(o) /\ new[i] = o[i]
        \/ i = Len(o) + 1 /\ new[i] = p
        \/ i - Len(o) - 1 \in 1..Len(e) /\ new[i] = e[i - Len(o) - 1]
  BY <1>1, <1>5
<1> HIDE DEF new
<1>7. \A i \in 1..Len(o) : o[i].type # p.type
  BY <1>1, <1>5 DEF Within, HasType
<1>8. ASSUME NEW i \in DOMAIN new, NEW j \in DOMAIN new, i < j, IsError(new[i])
      PROVE IsError(new[j])
  <2>1. i - Len(o) - 1 \in 1..Len(e)
    BY <1>2, <1>6, <1>8
  <2>2. j - Len(o) - 1 \in 1..Len(e) /\ new[j] = e[j - Len(o) - 1]
    BY <2>1, <1>5, <1>6, <1>8
  <2> QED
    BY <2>2, <1>3
<1>9. ASSUME NEW i \in DOMAIN new, NEW j \in DOMAIN new, new[i].type = new[j].type, ~IsError(new[i])
      PROVE i = j
  <2>1. ~IsError(new[j])
    BY <1>9 DEF IsError
  <2>2. /\ (i \in 1..Len(o) /\ new[i] = o[i]) \/ (i = Len(o) + 1 /\ new[i] = p)
        /\ (j \in 1..Len(o) /\ new[j] = o[j]) \/ (j = Len(o) + 1 /\ new[j] = p)
    BY <1>3, <1>6, <1>9, <2>1
  <2> QED
    BY <2>2, <1>1, <1>5, <1>7, <1>9, <2>1 DEF Shaped
<1>10. OnlyFrom(new, s, p)
  <2> SUFFICES ASSUME NEW i \in DOMAIN new PROVE new[i] = p \/ \E j \in DOMAIN s : new[i] = s[j]
    BY DEF OnlyFrom
  <2>1. CASE i \in 1..Len(o) /\ new[i] = o[i]
    BY <2>1, <1>1, <1>5 DEF Within
  <2>2. CASE i - Len(o) - 1 \in 1..Len(e) /\ new[i] = e[i - Len(o) - 1]
    <3>1. PICK j \in DOMAIN s : e[i - Len(o) - 1] = s[j]
      BY <2>2, <1>1, <1>5 DEF Within
    <3> QED
      BY <2>2, <3>1
  <2> QED
    BY <1>6, <2>1, <2>2
<1>11. Len(new) <= Len(s) + 1
  BY <1>4, <1>5
<1>12. Shaped(new)
  BY <1>8, <1>9 DEF Shaped
<1>13. new \in Seq(PopupsOf(A))
  BY <1>5
<1> QED
  BY <1>10, <1>11, <1>12, <1>13 DEF new, o, e

(* A popup is added: errors stay on top, no other type comes twice, and    *)
(* the oldest makes way (addPopup, popup-manager.ts:100-130).              *)
LEMMA AddedSound ==
  ASSUME NEW A, NEW s, Sound(s, A), NEW p \in PopupsOf(A)
  PROVE  /\ Sound(Added(s, p), A)
         /\ OnlyFrom(Added(s, p), s, p)
<1>1. s \in Seq(PopupsOf(A)) /\ Shaped(s) /\ Len(s) <= PopupLimit /\ PopupLimit \in Nat
  BY PopupLimitAssumption DEF Sound
<1>2. /\ Append(s, p) \in Seq(PopupsOf(A)) /\ Len(Append(s, p)) = Len(s) + 1
      /\ DOMAIN Append(s, p) = 1..(Len(s) + 1) /\ DOMAIN s = 1..Len(s) /\ Len(s) \in Nat
      /\ \A i \in 1..Len(s) : Append(s, p)[i] = s[i]
      /\ Append(s, p)[Len(s) + 1] = p
  BY <1>1
<1>3. OnlyFrom(Append(s, p), s, p)
  <2> SUFFICES ASSUME NEW i \in DOMAIN Append(s, p)
               PROVE  Append(s, p)[i] = p \/ \E j \in DOMAIN s : Append(s, p)[i] = s[j]
    BY DEF OnlyFrom
  <2>1. i = Len(s) + 1 \/ (i \in DOMAIN s /\ Append(s, p)[i] = s[i])
    BY <1>2
  <2> QED
    BY <2>1, <1>2
<1>4. ASSUME NEW new \in Seq(PopupsOf(A)), Shaped(new), Len(new) <= Len(s) + 1, OnlyFrom(new, s, p)
      PROVE  Sound(Trimmed(new), A) /\ OnlyFrom(Trimmed(new), s, p)
  <2>1. Len(new) <= PopupLimit + 1
    BY <1>1, <1>2, <1>4
  <2>2. Sound(Trimmed(new), A) /\ Within(Trimmed(new), new)
    BY <2>1, <1>4, TrimmedSound
  <2> QED
    BY <2>2, <1>4 DEF Within, OnlyFrom
<1>5. CASE IsError(p)
  <2>1. Shaped(Append(s, p))
    <3>1. \A i \in 1..(Len(s) + 1) : i \in 1..Len(s) \/ i = Len(s) + 1
      BY <1>2
    <3>2. ASSUME NEW i \in 1..(Len(s) + 1), NEW j \in 1..(Len(s) + 1), i < j, IsError(Append(s, p)[i])
          PROVE IsError(Append(s, p)[j])
      BY <3>1, <3>2, <1>1, <1>2, <1>5 DEF Shaped
    <3>3. ASSUME NEW i \in 1..(Len(s) + 1), NEW j \in 1..(Len(s) + 1),
                 Append(s, p)[i].type = Append(s, p)[j].type, ~IsError(Append(s, p)[i])
          PROVE i = j
      <4>1. ~IsError(Append(s, p)[j])
        BY <3>3 DEF IsError
      <4>2. i \in 1..Len(s) /\ j \in 1..Len(s)
        BY <3>1, <3>3, <4>1, <1>2, <1>5
      <4> QED
        BY <3>3, <4>2, <1>1, <1>2 DEF Shaped
    <3> QED
      BY <3>2, <3>3, <1>2 DEF Shaped
  <2>2. Sound(Trimmed(Append(s, p)), A) /\ OnlyFrom(Trimmed(Append(s, p)), s, p)
    <3> DEFINE new == Append(s, p)
    <3>1. /\ new \in Seq(PopupsOf(A)) /\ Shaped(new) /\ Len(new) <= Len(s) + 1
          /\ OnlyFrom(new, s, p)
      BY <2>1, <1>2, <1>3
    <3> HIDE DEF new
    <3>2. Sound(Trimmed(new), A) /\ OnlyFrom(Trimmed(new), s, p)
      BY <3>1, <1>4
    <3> QED
      BY <3>2 DEF new
  <2> QED
    BY <2>2, <1>5 DEF Added
<1>6. CASE ~IsError(p) /\ HasType(s, p.type)
  <2>1. Added(s, p) = s
    BY <1>6 DEF Added
  <2>2. OnlyFrom(s, s, p)
    BY DEF OnlyFrom
  <2> QED
    BY <2>1, <2>2
<1>7. CASE ~IsError(p) /\ ~HasType(s, p.type) /\ (s = <<>> \/ ~IsError(Top(s)))
  <2>1. \A i \in 1..Len(s) : ~IsError(s[i]) /\ s[i].type # p.type
    <3>1. CASE s = <<>>
      BY <3>1
    <3>2. CASE s # <<>> /\ ~IsError(s[Len(s)])
      <4>1. Len(s) \in 1..Len(s)
        BY <1>2, <3>2
      <4>2. \A n \in Nat : \A i \in 1..n : i < n \/ i = n
        OBVIOUS
      <4>3. ASSUME NEW i \in 1..Len(s) PROVE ~IsError(s[i])
        <5>1. i < Len(s) \/ i = Len(s)
          BY <1>2, <4>2
        <5> QED
          BY <1>1, <1>2, <3>2, <4>1, <5>1 DEF Shaped
      <4> QED
        BY <4>3, <1>2, <1>7 DEF HasType
    <3> QED
      BY <3>1, <3>2, <1>7 DEF Top
  <2>2. Shaped(Append(s, p))
    <3>1. \A i \in 1..(Len(s) + 1) : i \in 1..Len(s) \/ i = Len(s) + 1
      BY <1>2
    <3>2. \A i \in 1..(Len(s) + 1) : ~IsError(Append(s, p)[i])
      BY <3>1, <2>1, <1>2, <1>7
    <3>3. ASSUME NEW i \in 1..(Len(s) + 1), NEW j \in 1..(Len(s) + 1),
                 Append(s, p)[i].type = Append(s, p)[j].type
          PROVE i = j
      <4>1. CASE i \in 1..Len(s) /\ j \in 1..Len(s)
        BY <3>3, <4>1, <2>1, <1>1, <1>2 DEF Shaped
      <4>2. CASE i = Len(s) + 1 \/ j = Len(s) + 1
        BY <3>1, <3>3, <4>2, <2>1, <1>2
      <4> QED
        BY <3>1, <4>1, <4>2
    <3> QED
      BY <3>2, <3>3, <1>2 DEF Shaped
  <2>3. Sound(Trimmed(Append(s, p)), A) /\ OnlyFrom(Trimmed(Append(s, p)), s, p)
    <3> DEFINE new == Append(s, p)
    <3>1. /\ new \in Seq(PopupsOf(A)) /\ Shaped(new) /\ Len(new) <= Len(s) + 1
          /\ OnlyFrom(new, s, p)
      BY <2>2, <1>2, <1>3
    <3> HIDE DEF new
    <3>2. Sound(Trimmed(new), A) /\ OnlyFrom(Trimmed(new), s, p)
      BY <3>1, <1>4
    <3> QED
      BY <3>2 DEF new
  <2> QED
    BY <2>3, <1>7 DEF Added
<1>8. CASE ~IsError(p) /\ ~HasType(s, p.type) /\ ~(s = <<>> \/ ~IsError(Top(s)))
  <2> DEFINE new == Append(Kept(s, DOMAIN s \ Errors(s)), p) \o Kept(s, Errors(s))
  <2>1. new \in Seq(PopupsOf(A)) /\ Shaped(new) /\ Len(new) <= Len(s) + 1 /\ OnlyFrom(new, s, p)
    BY <1>1, <1>8, InsertedShaped
  <2>2. Added(s, p) = Trimmed(new)
    BY <1>8 DEF Added
  <2> HIDE DEF new
  <2>3. Sound(Trimmed(new), A) /\ OnlyFrom(Trimmed(new), s, p)
    BY <2>1, <1>4
  <2> QED
    BY <2>2, <2>3
<1> QED
  BY <1>5, <1>6, <1>7, <1>8
=============================================================================
