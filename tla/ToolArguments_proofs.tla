------------------------ MODULE ToolArguments_proofs -------------------------
(***************************************************************************)
(* What the repairs of LenientJson owe every body a model may write: the   *)
(* quotes that are data survive, behind both rewriting scanners no bare    *)
(* key and no string JSON refuses is left, what is JSON already is not     *)
(* altered, keys that lost their quotes get them back, and the rescue of a *)
(* single entry never takes a later entry for part of its value.           *)
(***************************************************************************)
EXTENDS ToolArguments, DataInduction, FiniteSetTheorems

Body == Seq(Chars)

(* Names for characters: the SMT backend does not take them as strings *)
Nil   == ""
Open  == "{"
Close == "}"
Comma == ","

LEMMA Classes ==
  /\ Nil \notin Chars /\ Nil # Quote /\ Nil # Backslash
  /\ Letters \subseteq Identifier /\ Identifier \subseteq Chars /\ Blank \subseteq Chars
  /\ {Open, Close, Comma, Colon, Quote, Backslash} \subseteq Chars
  /\ Backslash # Quote /\ Backslash \notin Identifier /\ Backslash \notin Blank
  /\ Quote \notin Identifier /\ Quote \notin Blank
  /\ \A c \in {Open, Close, Comma, Colon} : c # Quote /\ c # Backslash /\ c \notin Identifier /\ c \notin Blank
  /\ \A c \in Blank : c \notin Identifier
  BY Zenon DEF Nil, Chars, Quote, Backslash, Letters, Identifier, Blank, Open, Close, Comma, Colon, Marker

Types == body \in Body /\ written \in Nat

LEMMA BodyText == Spec => []Types
<1>1. Init => Types
  <2>1. Open \in Chars
    BY DEF Chars, Open
  <2>2. <<Open>> \in Seq(Chars)
    BY <2>1
  <2>3. Init => body = <<Open>> /\ written = 0
    BY Zenon DEF Init, Open
  <2>4. 0 \in Nat /\ <<Open>> \in Body
    BY <2>2 DEF Body
  <2> HIDE DEF Open
  <2>5. QED BY <2>3, <2>4, Zenon DEF Types
<1>2. ASSUME Types, [Next]_vars PROVE Types'
  <2>1. CASE UNCHANGED vars
    BY <1>2, <2>1 DEF vars, Types
  <2>2. CASE Next
    <3>1. PICK p \in Pieces[written + 1] : Write(p) /\ written < Len(Pieces)
      BY <2>2 DEF Next
    <3>2. Pieces[written + 1] \in SUBSET Seq(Chars)
      BY <1>2, <3>1, PieceAssumption DEF Types
    <3>3. p \in Body
      BY <3>1, <3>2 DEF Body
    <3>4. body \o p \in Body
      BY <1>2, <3>3, ConcatProperties DEF Types, Body
    <3>5. QED BY <1>2, <3>1, <3>4 DEF Write, Types
  <2>3. QED BY <1>2, <2>1, <2>2
<1>3. QED BY <1>1, <1>2, PTL DEF Spec

-----------------------------------------------------------------------------
(***************************************************************************)
(* Places of a text.                                                       *)
(***************************************************************************)

LEMMA TextPlaces ==
  ASSUME NEW s \in Body
  PROVE  /\ Len(s) \in Nat /\ DOMAIN s = 1..Len(s)
         /\ \A i \in 1..Len(s) : At(s, i) = s[i] /\ s[i] \in Chars
         /\ At(s, Len(s) + 1) = Nil
         /\ \A i : At(s, i) # Nil => i \in 1..Len(s)
<1>1. Len(s) \in Nat /\ DOMAIN s = 1..Len(s) /\ \A i \in 1..Len(s) : s[i] \in Chars
  BY LenProperties, ElementOfSeq DEF Body
<1>2. Len(s) + 1 \notin 1..Len(s)
  BY <1>1
<1>3. \A i : At(s, i) = IF i \in DOMAIN s THEN s[i] ELSE Nil
  BY Zenon DEF At, Nil
<1>4. QED BY <1>1, <1>2, <1>3

LEMMA PastIs ==
  ASSUME NEW s \in Body, NEW C, Nil \notin C, NEW i \in 1..(Len(s) + 1)
  PROVE  /\ Past(s, C, i) \in i..(Len(s) + 1)
         /\ At(s, Past(s, C, i)) \notin C
         /\ \A k \in i..(Past(s, C, i) - 1) : At(s, k) \in C
<1> DEFINE Is(j) == At(s, j) \notin C /\ \A k \in i..(j - 1) : At(s, k) \in C
           T == {j \in i..(Len(s) + 1) : At(s, j) \notin C}
<1>1. Len(s) \in Nat /\ At(s, Len(s) + 1) = Nil
  BY TextPlaces
<1>2. Len(s) + 1 \in T
  BY <1>1
<1>3. PICK j \in T : \A k \in T : j <= k
  <2>1. T \subseteq Nat /\ T # {}
    BY <1>1, <1>2
  <2> HIDE DEF T
  <2>2. QED BY <2>1, LeastOf
<1>4. ASSUME NEW k \in i..(j - 1) PROVE At(s, k) \in C
  <2>1. j \in i..(Len(s) + 1) /\ k \in i..(Len(s) + 1) /\ ~(j <= k)
    BY <1>1, <1>3
  <2>2. QED BY <1>3, <2>1
<1>5. j \in i..(Len(s) + 1) /\ Is(j)
  BY <1>3, <1>4
<1>6. \E m \in i..(Len(s) + 1) : Is(m)
  BY <1>5
<1>7. Past(s, C, i) = CHOOSE m \in i..(Len(s) + 1) : Is(m)
  BY DEF Past
<1> HIDE DEF Is
<1>8. Past(s, C, i) \in i..(Len(s) + 1) /\ Is(Past(s, C, i))
  BY <1>6, <1>7
<1>9. QED BY <1>8 DEF Is

-----------------------------------------------------------------------------
(***************************************************************************)
(* The patterns of un_escape_structural_quotes.                            *)
(***************************************************************************)

LEMMA AnyQuoteIs ==
  ASSUME NEW s \in Body, NEW i \in 0..(Len(s) + 1), NEW b, b = AnyQuote(s, i), b # 0
  PROVE  /\ i # 0 /\ b \in (i + 1)..(Len(s) + 1) /\ At(s, b - 1) = Quote
         /\ \/ b = i + 1 /\ At(s, i) = Quote
            \/ b = i + 2 /\ At(s, i) = Backslash /\ At(s, i + 1) = Quote
<1>1. Len(s) \in Nat /\ \A k : At(s, k) # Nil => k \in 1..Len(s)
  BY TextPlaces
<1>2. \/ b = i + 1 /\ At(s, i) = Quote
      \/ b = i + 2 /\ At(s, i) = Backslash /\ At(s, i + 1) = Quote
  BY DEF AnyQuote
<1>3. Quote # Nil /\ Backslash # Nil
  BY Classes
<1>4. (b - 1 = i \/ b - 1 = i + 1) /\ At(s, b - 1) = Quote
  BY <1>2
<1>5. b - 1 \in 1..Len(s)
  BY <1>1, <1>3, <1>4
<1>6. i \in 1..Len(s)
  BY <1>1, <1>2, <1>3
<1>7. QED BY <1>1, <1>2, <1>4, <1>5, <1>6

LEMMA DelimiterIs ==
  ASSUME NEW s \in Body, NEW C \in SUBSET Chars, NEW i \in 0..(Len(s) + 1),
         NEW b, b = Delimiter(s, C, i), b # 0
  PROVE  /\ i # 0 /\ b \in (i + 1)..(Len(s) + 1) /\ At(s, b - 1) \in C
         /\ \A k \in i..(b - 1) : At(s, k) \in Blank \cup C
<1> DEFINE j == Past(s, Blank, i)
<1>1. Len(s) \in Nat /\ \A k : At(s, k) # Nil => k \in 1..Len(s)
  BY TextPlaces
<1>2. i # 0 /\ At(s, j) \in C /\ b = j + 1
  BY DEF Delimiter
<1>3. j \in i..(Len(s) + 1) /\ \A k \in i..(j - 1) : At(s, k) \in Blank
  BY <1>1, <1>2, PastIs, Classes
<1> HIDE DEF j
<1>4. At(s, j) # Nil
  BY <1>2, Classes
<1>5. j \in 1..Len(s)
  BY <1>1, <1>4
<1>6. b - 1 = j
  BY <1>2, <1>5
<1>7. QED BY <1>1, <1>2, <1>3, <1>5, <1>6

LEMMA SpacedIs ==
  ASSUME NEW s \in Body, NEW i \in 0..(Len(s) + 1), NEW b, b = Spaced(s, i), b # 0
  PROVE  /\ i # 0 /\ b \in i..(Len(s) + 1) /\ \A k \in i..(b - 1) : At(s, k) \in Blank
<1>1. Len(s) \in Nat
  BY TextPlaces
<1>2. i # 0 /\ b = Past(s, Blank, i)
  BY DEF Spaced
<1>3. QED BY <1>1, <1>2, PastIs, Classes

(* Each of these gives a place of the text, or 0 *)
LEMMA PlacesOrZero ==
  ASSUME NEW s \in Body, NEW i \in 0..(Len(s) + 1)
  PROVE  /\ AnyQuote(s, i) \in 0..(Len(s) + 1)
         /\ Spaced(s, i) \in 0..(Len(s) + 1)
         /\ \A C \in SUBSET Chars : Delimiter(s, C, i) \in 0..(Len(s) + 1)
<1>1. Len(s) \in Nat
  BY TextPlaces
<1>2. AnyQuote(s, i) # 0 => AnyQuote(s, i) \in (i + 1)..(Len(s) + 1)
  BY AnyQuoteIs
<1>3. Spaced(s, i) # 0 => i # 0 /\ Spaced(s, i) \in i..(Len(s) + 1)
  BY SpacedIs
<1>4. \A C \in SUBSET Chars : Delimiter(s, C, i) # 0 => Delimiter(s, C, i) \in (i + 1)..(Len(s) + 1)
  BY DelimiterIs
<1>5. QED BY <1>1, <1>2, <1>3, <1>4

(* The quotes of a key: the one that opens it comes first, and what follows *)
(* the one that closes it is no letter                                      *)
LEMMA QuotedKeyIs ==
  ASSUME NEW s \in Body, NEW i \in 0..(Len(s) + 1), NEW b, b = QuotedKey(s, i), b # 0
  PROVE  /\ i # 0 /\ b \in (i + 1)..(Len(s) + 1) /\ At(s, b - 1) = Colon
         /\ \A p \in i..(b - 1) : At(s, p) = Backslash => p = i \/ At(s, p + 2) \notin Letters
<1> DEFINE open == AnyQuote(s, i)
           end  == Past(s, Identifier, open)
           q    == AnyQuote(s, end)
<1>1. Len(s) \in Nat
  BY TextPlaces
<1>2. open # 0 /\ At(s, open) \in Letters /\ b = Delimiter(s, {Colon}, q)
  BY Zenon DEF QuotedKey, Colon
<1>3. /\ i # 0 /\ open \in (i + 1)..(Len(s) + 1)
      /\ (open = i + 1 /\ At(s, i) = Quote) \/ (open = i + 2 /\ At(s, i) = Backslash /\ At(s, i + 1) = Quote)
  BY <1>2, AnyQuoteIs
<1> HIDE DEF open
<1>4. end \in open..(Len(s) + 1) /\ \A k \in open..(end - 1) : At(s, k) \in Identifier
  BY <1>1, <1>3, PastIs, Classes
<1> HIDE DEF end
<1>5. end \in 0..(Len(s) + 1)
  BY <1>1, <1>3, <1>4
<1>6. q \in 0..(Len(s) + 1)
  BY <1>5, PlacesOrZero
<1> HIDE DEF q
<1>7. /\ q # 0 /\ b \in (q + 1)..(Len(s) + 1) /\ At(s, b - 1) = Colon
      /\ \A k \in q..(b - 1) : At(s, k) \in Blank \cup {Colon}
  <2>1. {Colon} \in SUBSET Chars
    BY Classes
  <2>2. QED BY <1>2, <1>6, <2>1, DelimiterIs
<1>8. /\ q \in (end + 1)..(Len(s) + 1)
      /\ (q = end + 1 /\ At(s, end) = Quote) \/ (q = end + 2 /\ At(s, end) = Backslash /\ At(s, end + 1) = Quote)
  BY <1>5, <1>7, AnyQuoteIs DEF q
<1>9. i \in Nat /\ open \in Nat /\ end \in Nat /\ q \in Nat /\ b \in Nat
  BY <1>1, <1>3, <1>4, <1>7, <1>8
<1>10. i < open /\ open <= end /\ end < q /\ q < b /\ b <= Len(s) + 1
  BY <1>1, <1>3, <1>4, <1>7, <1>8
<1>11. ASSUME NEW p \in i..(b - 1), At(s, p) = Backslash, p # i PROVE At(s, p + 2) \notin Letters
  <2>1. Backslash # Quote /\ Backslash \notin Identifier /\ Backslash \notin Blank \cup {Colon}
    BY Classes
  <2>2. p \in Nat
    BY <1>9
  <2>3. ~(p < open)
    BY <1>3, <1>9, <1>11, <2>1, <2>2
  <2>4. ~(p \in open..(end - 1))
    BY <1>4, <1>11, <2>1
  <2>5. ~(p \in q..(b - 1))
    BY <1>7, <1>11, <2>1
  <2>6. p = end \/ p = end + 1
    BY <1>8, <1>9, <1>10, <2>2, <2>3, <2>4, <2>5
  <2>7. p = end /\ q = end + 2
    BY <1>8, <1>9, <1>11, <2>1, <2>5, <2>6
  <2>8. At(s, q) \in Blank \cup {Colon}
    BY <1>7, <1>9, <1>10
  <2>9. QED BY <2>7, <2>8, Classes
<1>12. QED BY <1>1, <1>3, <1>7, <1>9, <1>10, <1>11
(* A backslash whose quote the rewriting may take: no letter follows the    *)
(* quote, or neither a letter nor a backslash stands before it              *)
Structural(s, p) == At(s, p + 2) \in Letters => At(s, p - 1) \notin Letters \cup {Backslash}

(* What a match from i to before b may hold *)
Match(s, i, b) ==
  /\ b \in (i + 1)..(Len(s) + 1)
  /\ \A p \in i..(b - 1) : At(s, p) = Backslash => Structural(s, p)

LEMMA KvPairIs ==
  ASSUME NEW s \in Body, NEW i \in 1..Len(s), KvPair(s, i) # 0
  PROVE  Match(s, i, KvPair(s, i))
<1> DEFINE j1 == Spaced(s, i + 1)
           j2 == QuotedKey(s, j1)
           j3 == Spaced(s, j2)
           b  == AnyQuote(s, j3)
<1>1. Len(s) \in Nat /\ At(s, i) = s[i]
  BY TextPlaces
<1>2. s[i] \in {Open, Comma} /\ KvPair(s, i) = b /\ b # 0
  BY Zenon DEF KvPair, Open, Comma
<1>3. j1 \in 0..(Len(s) + 1)
  BY <1>1, PlacesOrZero
<1>4. j2 # 0 => j1 # 0 /\ j2 \in (j1 + 1)..(Len(s) + 1)
  BY <1>3, QuotedKeyIs
<1>5. j2 \in 0..(Len(s) + 1)
  BY <1>1, <1>3, <1>4
<1>6. j3 \in 0..(Len(s) + 1)
  BY <1>5, PlacesOrZero
<1> HIDE DEF b
<1>7. /\ j3 # 0 /\ b \in (j3 + 1)..(Len(s) + 1)
      /\ \/ b = j3 + 1 /\ At(s, j3) = Quote
         \/ b = j3 + 2 /\ At(s, j3) = Backslash /\ At(s, j3 + 1) = Quote
  BY <1>2, <1>6, AnyQuoteIs DEF b
<1> HIDE DEF j3
<1>8. j2 # 0 /\ j3 \in j2..(Len(s) + 1) /\ \A k \in j2..(j3 - 1) : At(s, k) \in Blank
  BY <1>5, <1>7, SpacedIs DEF j3
<1> HIDE DEF j2
<1>9. /\ j1 # 0 /\ j2 \in (j1 + 1)..(Len(s) + 1) /\ At(s, j2 - 1) = Colon
      /\ \A p \in j1..(j2 - 1) : At(s, p) = Backslash => p = j1 \/ At(s, p + 2) \notin Letters
  BY <1>3, <1>8, QuotedKeyIs DEF j2
<1> HIDE DEF j1
<1>10. j1 \in (i + 1)..(Len(s) + 1) /\ \A k \in (i + 1)..(j1 - 1) : At(s, k) \in Blank
  BY <1>1, <1>9, SpacedIs DEF j1
<1>11. i \in Nat /\ j1 \in Nat /\ j2 \in Nat /\ j3 \in Nat /\ b \in Nat
  BY <1>1, <1>7, <1>8, <1>9, <1>10
<1>12. i < j1 /\ j1 < j2 /\ j2 <= j3 /\ j3 < b /\ b <= Len(s) + 1
  BY <1>1, <1>7, <1>8, <1>9, <1>10, <1>11
<1>13. /\ Backslash # Quote /\ Backslash \notin Blank
       /\ \A c \in Blank \cup {Open, Comma, Colon} : c \notin Letters \cup {Backslash}
  BY Classes
<1>14. ASSUME NEW p \in i..(b - 1), At(s, p) = Backslash PROVE Structural(s, p)
  <2>1. p \in Nat /\ i <= p /\ p < b
    BY <1>11
  <2>2. CASE p < j1
    <3>1. p = i \/ p \in (i + 1)..(j1 - 1)
      BY <1>11, <2>1, <2>2
    <3>2. QED BY <1>1, <1>2, <1>10, <1>13, <1>14, <3>1
  <2>3. CASE p = j1
    <3>1. j1 - 1 = i \/ j1 - 1 \in (i + 1)..(j1 - 1)
      BY <1>11, <1>12
    <3>2. At(s, j1 - 1) \in Blank \cup {Open, Comma}
      BY <1>1, <1>2, <1>10, <3>1
    <3>3. QED BY <1>13, <2>3, <3>2 DEF Structural
  <2>4. CASE p \in (j1 + 1)..(j2 - 1)
    <3>1. p \in j1..(j2 - 1) /\ p # j1
      BY <1>11, <2>4
    <3>2. QED BY <1>9, <1>14, <3>1 DEF Structural
  <2>5. CASE p \in j2..(j3 - 1)
    BY <1>8, <1>13, <1>14, <2>5
  <2>6. CASE p \in j3..(b - 1)
    <3>1. p = j3 /\ At(s, j3) = Backslash
      <4>1. p = j3 \/ (p = j3 + 1 /\ b = j3 + 2)
        BY <1>7, <1>11, <2>6
      <4>2. QED BY <1>7, <1>13, <1>14, <4>1
    <3>2. j3 - 1 = j2 - 1 \/ j3 - 1 \in j2..(j3 - 1)
      BY <1>11, <1>12
    <3>3. At(s, j3 - 1) \in Blank \cup {Colon}
      BY <1>8, <1>9, <3>2
    <3>4. QED BY <1>13, <3>1, <3>3 DEF Structural
  <2>7. p < j1 \/ p = j1 \/ p \in (j1 + 1)..(j2 - 1) \/ p \in j2..(j3 - 1) \/ p \in j3..(b - 1)
    BY <1>11, <1>12, <2>1
  <2>8. QED BY <2>2, <2>3, <2>4, <2>5, <2>6, <2>7
<1>15. b \in (i + 1)..(Len(s) + 1)
  BY <1>1, <1>11, <1>12
<1>16. QED BY <1>2, <1>14, <1>15 DEF Match

LEMMA ValueCloseThenKeyIs ==
  ASSUME NEW s \in Body, NEW i \in 1..Len(s), ValueCloseThenKey(s, i) # 0
  PROVE  Match(s, i, ValueCloseThenKey(s, i))
<1> DEFINE q == AnyQuote(s, i)
           d == Delimiter(s, {Comma}, q)
           k == Spaced(s, d)
           b == QuotedKey(s, k)
<1>1. Len(s) \in Nat /\ i \in 0..(Len(s) + 1) /\ {Comma} \in SUBSET Chars
  BY TextPlaces, Classes
<1>2. ValueCloseThenKey(s, i) = b /\ b # 0
  BY Zenon DEF ValueCloseThenKey, Comma
<1>3. q \in 0..(Len(s) + 1)
  BY <1>1, PlacesOrZero
<1> HIDE DEF q
<1>4. d \in 0..(Len(s) + 1)
  BY <1>1, <1>3, PlacesOrZero
<1> HIDE DEF d
<1>5. k \in 0..(Len(s) + 1)
  BY <1>4, PlacesOrZero
<1> HIDE DEF k, b
<1>6. /\ k # 0 /\ b \in (k + 1)..(Len(s) + 1)
      /\ \A p \in k..(b - 1) : At(s, p) = Backslash => p = k \/ At(s, p + 2) \notin Letters
  BY <1>2, <1>5, QuotedKeyIs DEF b
<1>7. d # 0 /\ k \in d..(Len(s) + 1) /\ \A p \in d..(k - 1) : At(s, p) \in Blank
  BY <1>4, <1>6, SpacedIs DEF k
<1>8. /\ q # 0 /\ d \in (q + 1)..(Len(s) + 1) /\ At(s, d - 1) = Comma
      /\ \A p \in q..(d - 1) : At(s, p) \in Blank \cup {Comma}
  BY <1>1, <1>3, <1>7, DelimiterIs DEF d
<1>9. /\ q \in (i + 1)..(Len(s) + 1)
      /\ \/ q = i + 1 /\ At(s, i) = Quote
         \/ q = i + 2 /\ At(s, i) = Backslash /\ At(s, i + 1) = Quote
  BY <1>1, <1>8, AnyQuoteIs DEF q
<1>10. i \in Nat /\ q \in Nat /\ d \in Nat /\ k \in Nat /\ b \in Nat
  BY <1>1, <1>6, <1>7, <1>8, <1>9
<1>11. i < q /\ q < d /\ d <= k /\ k < b /\ b <= Len(s) + 1
  BY <1>1, <1>6, <1>7, <1>8, <1>9, <1>10
<1>12. /\ Backslash # Quote /\ Backslash \notin Blank
       /\ \A c \in Blank \cup {Comma} : c \notin Letters \cup {Backslash}
  BY Classes
<1>13. ASSUME NEW p \in i..(b - 1), At(s, p) = Backslash PROVE Structural(s, p)
  <2>1. p \in Nat /\ i <= p /\ p < b
    BY <1>10
  <2>2. CASE p < q
    <3>1. p = i \/ (p = i + 1 /\ q = i + 2)
      BY <1>9, <1>10, <2>1, <2>2
    <3>2. p = i /\ q = i + 2
      BY <1>9, <1>12, <1>13, <3>1
    <3>3. q \in q..(d - 1)
      BY <1>10, <1>11
    <3>4. At(s, p + 2) \in Blank \cup {Comma}
      BY <1>8, <3>2, <3>3
    <3>5. QED BY <1>12, <3>4 DEF Structural
  <2>3. CASE p \in q..(d - 1)
    BY <1>8, <1>12, <1>13, <2>3
  <2>4. CASE p \in d..(k - 1)
    BY <1>7, <1>12, <1>13, <2>4
  <2>5. CASE p = k
    <3>1. k - 1 = d - 1 \/ k - 1 \in d..(k - 1)
      BY <1>10, <1>11
    <3>2. At(s, k - 1) \in Blank \cup {Comma}
      BY <1>7, <1>8, <3>1
    <3>3. QED BY <1>12, <2>5, <3>2 DEF Structural
  <2>6. CASE p \in (k + 1)..(b - 1)
    <3>1. p \in k..(b - 1) /\ p # k
      BY <1>10, <2>6
    <3>2. QED BY <1>6, <1>13, <3>1 DEF Structural
  <2>7. p < q \/ p \in q..(d - 1) \/ p \in d..(k - 1) \/ p = k \/ p \in (k + 1)..(b - 1)
    BY <1>10, <1>11, <2>1
  <2>8. QED BY <2>2, <2>3, <2>4, <2>5, <2>6, <2>7
<1>14. b \in (i + 1)..(Len(s) + 1)
  BY <1>1, <1>10, <1>11
<1>15. QED BY <1>2, <1>13, <1>14 DEF Match

LEMMA ValueCloseIs ==
  ASSUME NEW s \in Body, NEW i \in 1..Len(s), ValueClose(s, i) # 0
  PROVE  Match(s, i, ValueClose(s, i))
<1> DEFINE q == AnyQuote(s, i)
           b == Delimiter(s, {Close}, q)
<1>1. Len(s) \in Nat /\ i \in 0..(Len(s) + 1) /\ {Close} \in SUBSET Chars
  BY TextPlaces, Classes
<1>2. ValueClose(s, i) = b /\ b # 0
  BY Zenon DEF ValueClose, Close
<1>3. q \in 0..(Len(s) + 1)
  BY <1>1, PlacesOrZero
<1> HIDE DEF q, b
<1>4. q # 0 /\ b \in (q + 1)..(Len(s) + 1) /\ \A p \in q..(b - 1) : At(s, p) \in Blank \cup {Close}
  BY <1>1, <1>2, <1>3, DelimiterIs DEF b
<1>5. /\ q \in (i + 1)..(Len(s) + 1)
      /\ \/ q = i + 1 /\ At(s, i) = Quote
         \/ q = i + 2 /\ At(s, i) = Backslash /\ At(s, i + 1) = Quote
  BY <1>1, <1>4, AnyQuoteIs DEF q
<1>6. /\ Backslash # Quote /\ \A c \in Blank \cup {Close} : c \notin Letters \cup {Backslash}
  BY Classes
<1>7. i \in Nat /\ q \in Nat /\ b \in Nat /\ i < q /\ q < b /\ b <= Len(s) + 1
  BY <1>1, <1>4, <1>5
<1>8. ASSUME NEW p \in i..(b - 1), At(s, p) = Backslash PROVE Structural(s, p)
  <2>1. ~(p \in q..(b - 1))
    BY <1>4, <1>6, <1>8
  <2>2. p = i \/ (p = i + 1 /\ q = i + 2)
    BY <1>5, <1>7, <2>1
  <2>3. p = i /\ q = i + 2
    BY <1>5, <1>6, <1>8, <2>2
  <2>4. At(s, p + 2) \in Blank \cup {Close}
    BY <1>4, <1>7, <2>3
  <2>5. QED BY <1>6, <2>4 DEF Structural
<1>9. QED BY <1>1, <1>2, <1>7, <1>8 DEF Match

-----------------------------------------------------------------------------
(***************************************************************************)
(* What the patterns cover, and what is taken out.                         *)
(***************************************************************************)

IsCovered(from, behind) ==
  from = [i \in 1..(Len(behind) + 1) |->
            IF i > Len(behind) THEN {}
            ELSE IF behind[i] # 0 THEN i..(behind[i] - 1) \cup from[behind[i]]
            ELSE from[i + 1]]

CoveredFrom(behind) == CHOOSE from : IsCovered(from, behind)

LEMMA CoveredIsFrom ==
  ASSUME NEW behind
  PROVE  Covered(behind) = CoveredFrom(behind)[1]
  BY DEF Covered, CoveredFrom, IsCovered

LEMMA CoveredChosen ==
  ASSUME NEW behind, \E from : IsCovered(from, behind)
  PROVE  IsCovered(CoveredFrom(behind), behind)
  BY Zenon DEF CoveredFrom

(* A place is covered by a match *)
LEMMA CoveredIs ==
  ASSUME NEW n \in Nat, NEW behind \in [1..n -> Nat],
         \A i \in 1..n : behind[i] # 0 => behind[i] \in (i + 1)..(n + 1)
  PROVE  \A x \in Covered(behind) : \E i \in 1..n : behind[i] # 0 /\ x \in i..(behind[i] - 1)
<1> DEFINE D    == 1..(n + 1)
           V    == SUBSET Nat
           done == {n + 1}
           base == [i \in D |-> {}]
           next == [i \in D |-> IF i = n + 1 THEN i ELSE IF behind[i] # 0 THEN behind[i] ELSE i + 1]
           own  == [i \in D |-> IF i = n + 1 THEN {} ELSE IF behind[i] # 0 THEN i..(behind[i] - 1) ELSE {}]
           step == [i \in D |-> [v \in V |-> own[i] \cup v]]
           rank == [i \in D |-> n + 1 - i]
<1>1. Len(behind) = n
  BY LenProperties
<1>2. \A i \in 1..n : behind[i] \in Nat /\ i \in D /\ i # n + 1
  OBVIOUS
<1>3. \A i \in D : i = n + 1 \/ i \in 1..n
  OBVIOUS
<1>4. \A i \in D : /\ next[i] \in D /\ own[i] \in V
                   /\ i # n + 1 => next[i] > i
  <2> SUFFICES ASSUME NEW i \in D PROVE next[i] \in D /\ own[i] \in V /\ (i # n + 1 => next[i] > i)
    OBVIOUS
  <2>1. CASE i = n + 1
    BY <2>1
  <2>2. CASE i \in 1..n /\ behind[i] # 0
    <3>1. next[i] = behind[i] /\ own[i] = i..(behind[i] - 1) /\ behind[i] \in (i + 1)..(n + 1)
      BY <1>2, <2>2
    <3> HIDE DEF next, own
    <3>2. QED BY <2>2, <3>1
  <2>3. CASE i \in 1..n /\ behind[i] = 0
    BY <1>2, <2>3
  <2>4. QED BY <1>3, <2>1, <2>2, <2>3
<1>5. /\ base \in [D -> V] /\ next \in [D -> D] /\ rank \in [D -> Nat] /\ n \in Nat
      /\ \A d \in D : rank[d] <= n
  <2>1. base \in [D -> V]
    OBVIOUS
  <2>2. next \in [D -> D]
    BY <1>4
  <2>3. rank \in [D -> Nat] /\ \A d \in D : rank[d] <= n
    OBVIOUS
  <2>4. QED BY <2>1, <2>2, <2>3
<1>6. step \in [D -> [V -> V]]
  <2> HIDE DEF own, D
  <2>1. \A i \in D : [v \in V |-> own[i] \cup v] \in [V -> V]
    BY <1>4
  <2>2. QED BY <2>1
<1>7. \A d \in D \ done : rank[next[d]] < rank[d]
  <2> SUFFICES ASSUME NEW d \in D, d # n + 1 PROVE rank[next[d]] < rank[d]
    OBVIOUS
  <2>1. next[d] \in D /\ next[d] > d
    BY <1>4
  <2> HIDE DEF next
  <2>2. QED BY <2>1
<1> HIDE DEF base, next, step, rank
<1>8. Descends(D, V, done, base, next, step, rank, n)
  BY <1>5, <1>6, <1>7 DEF Descends
<1>9. PICK f \in [D -> V] :
        \A d \in D : f[d] = IF d \in done THEN base[d] ELSE step[d][f[next[d]]]
  <2> HIDE DEF D, V, done
  <2>1. QED BY ONLY <1>8, Recursion
<1>10. ASSUME NEW i \in D
       PROVE  f[i] = IF i > n THEN {} ELSE IF behind[i] # 0 THEN i..(behind[i] - 1) \cup f[behind[i]]
                     ELSE f[i + 1]
  <2>1. CASE i = n + 1
    <3>1. i \in done /\ i > n /\ base[i] = {}
      BY <2>1 DEF base
    <3>2. f[i] = base[i]
      BY <1>9, <3>1
    <3>3. QED BY <3>1, <3>2
  <2>2. CASE i \in 1..n
    <3>1. ~(i > n) /\ i \notin done
      BY <2>2
    <3>2. f[i] = step[i][f[next[i]]] /\ next[i] \in D /\ f[next[i]] \in V
      BY <1>4, <1>9, <3>1
    <3>3. f[i] = own[i] \cup f[next[i]]
      <4> HIDE DEF own, D
      <4>1. QED BY <3>2 DEF step
    <3>4. CASE behind[i] # 0
      BY <1>2, <2>2, <3>1, <3>3, <3>4 DEF next
    <3>5. CASE behind[i] = 0
      BY <1>2, <2>2, <3>1, <3>3, <3>5 DEF next
    <3>6. QED BY <3>4, <3>5
  <2>3. QED BY <1>3, <2>1, <2>2
<1> HIDE DEF own
<1>11. IsCovered(f, behind)
  BY <1>1, <1>9, <1>10 DEF IsCovered
<1> DEFINE g == CoveredFrom(behind)
<1>12. IsCovered(g, behind)
  BY <1>11, CoveredChosen
<1>13. \A i \in D : g[i] = IF i > n THEN {} ELSE IF behind[i] # 0 THEN i..(behind[i] - 1) \cup g[behind[i]]
                           ELSE g[i + 1]
  BY <1>1, <1>12, Zenon DEF IsCovered
<1> DEFINE m == n + 1
           T == {i \in 1..m : \A x \in g[i] : \E k \in 1..n : behind[k] # 0 /\ x \in k..(behind[k] - 1)}
<1> HIDE DEF g
<1>14. ASSUME NEW i \in 1..m, \A j \in 1..m : j > i => j \in T PROVE i \in T
  <2> SUFFICES ASSUME NEW x \in g[i] PROVE \E k \in 1..n : behind[k] # 0 /\ x \in k..(behind[k] - 1)
    OBVIOUS
  <2>1. i \in 1..n
    <3>1. i \in D /\ (i = n + 1 => i > n)
      OBVIOUS
    <3>2. i # n + 1
      BY <1>13, <3>1
    <3>3. QED BY <1>3, <3>1, <3>2
  <2>2. CASE behind[i] # 0
    <3>1. behind[i] \in 1..m /\ behind[i] > i
      BY <2>1, <2>2
    <3>2. x \in i..(behind[i] - 1) \/ x \in g[behind[i]]
      BY <1>13, <2>1, <2>2
    <3>3. behind[i] \in T
      BY <1>14, <3>1
    <3>4. QED BY <2>1, <2>2, <3>2, <3>3
  <2>3. CASE behind[i] = 0
    <3>1. i + 1 \in 1..m /\ i + 1 > i
      BY <2>1
    <3>2. x \in g[i + 1]
      BY <1>13, <2>1, <2>3
    <3>3. i + 1 \in T
      BY <1>14, <3>1
    <3>4. QED BY <3>2, <3>3
  <2>4. QED BY <2>2, <2>3
<1>15. m \in Nat /\ 1 \in 1..m
  OBVIOUS
<1> HIDE DEF m, T
<1>16. 1..m \subseteq T
  BY ONLY <1>14, <1>15, DownInduction
<1>17. 1 \in T
  BY <1>15, <1>16
<1>18. QED BY <1>17, CoveredIsFrom DEF T, g

(* What is taken out is a backslash of an escaped quote, and structural *)
Lone(s) ==
  LET matched == {Covered([i \in DOMAIN s |-> KvPair(s, i)]),
                  Covered([i \in DOMAIN s |-> ValueCloseThenKey(s, i)]),
                  Covered([i \in DOMAIN s |-> ValueClose(s, i)])}
  IN  {i \in DOMAIN s : At(s, i) = Backslash /\ At(s, i + 1) = Quote /\
         \E m \in matched : {i, i + 1} \subseteq m}

LEMMA MatchCovers ==
  ASSUME NEW s \in Body, NEW behind, behind = [i \in DOMAIN s |-> behind[i]],
         \A i \in DOMAIN s : behind[i] # 0 => Match(s, i, behind[i]),
         NEW x \in Covered(behind), At(s, x) = Backslash
  PROVE  Structural(s, x)
<1> DEFINE n == Len(s)
<1>1. n \in Nat /\ DOMAIN s = 1..n
  BY TextPlaces
<1>2. \A i \in 1..n : behind[i] # 0 => behind[i] \in (i + 1)..(n + 1)
  BY <1>1 DEF Match
<1>3. behind \in [1..n -> Nat]
  <2>1. ASSUME NEW i \in 1..n PROVE behind[i] \in Nat
    <3>1. CASE behind[i] = 0
      BY <3>1
    <3>2. CASE behind[i] # 0
      BY <1>1, <1>2, <3>2
    <3>3. QED BY <3>1, <3>2
  <2>2. QED BY <1>1, <2>1
<1> HIDE DEF n
<1>4. PICK i \in 1..n : behind[i] # 0 /\ x \in i..(behind[i] - 1)
  BY <1>1, <1>2, <1>3, CoveredIs
<1>5. QED BY <1>1, <1>4 DEF Match

LEMMA LoneIs ==
  ASSUME NEW s \in Body, NEW p \in Lone(s)
  PROVE  p \in DOMAIN s /\ At(s, p) = Backslash /\ At(s, p + 1) = Quote /\ Structural(s, p)
<1> DEFINE kv   == [i \in DOMAIN s |-> KvPair(s, i)]
           next == [i \in DOMAIN s |-> ValueCloseThenKey(s, i)]
           last == [i \in DOMAIN s |-> ValueClose(s, i)]
<1>1. /\ p \in DOMAIN s /\ At(s, p) = Backslash /\ At(s, p + 1) = Quote
      /\ p \in Covered(kv) \/ p \in Covered(next) \/ p \in Covered(last)
  BY DEF Lone
<1>2. DOMAIN s = 1..Len(s)
  BY TextPlaces
<1>3. CASE p \in Covered(kv)
  <2>1. \A i \in DOMAIN s : kv[i] # 0 => Match(s, i, kv[i])
    BY <1>2, KvPairIs
  <2>2. kv = [i \in DOMAIN s |-> kv[i]]
    OBVIOUS
  <2> HIDE DEF kv
  <2>3. QED BY <1>1, <1>3, <2>1, <2>2, MatchCovers
<1>4. CASE p \in Covered(next)
  <2>1. \A i \in DOMAIN s : next[i] # 0 => Match(s, i, next[i])
    BY <1>2, ValueCloseThenKeyIs
  <2>2. next = [i \in DOMAIN s |-> next[i]]
    OBVIOUS
  <2> HIDE DEF next
  <2>3. QED BY <1>1, <1>4, <2>1, <2>2, MatchCovers
<1>5. CASE p \in Covered(last)
  <2>1. \A i \in DOMAIN s : last[i] # 0 => Match(s, i, last[i])
    BY <1>2, ValueCloseIs
  <2>2. last = [i \in DOMAIN s |-> last[i]]
    OBVIOUS
  <2> HIDE DEF last
  <2>3. QED BY <1>1, <1>5, <2>1, <2>2, MatchCovers
<1>6. QED BY <1>1, <1>3, <1>4, <1>5

(* Places of an escaped quote between two letters *)
Data(s) == {i \in DOMAIN s : /\ At(s, i) \in Letters /\ At(s, i + 1) = Backslash
                             /\ At(s, i + 2) = Quote /\ At(s, i + 3) \in Letters}

LEMMA DataKept ==
  ASSUME NEW s \in Body
  PROVE  Cardinality(Data(UnEscapeStructuralQuotes(s))) = Cardinality(Data(s))
<1> DEFINE P == Lone(s)
           w == FlattenSeq(Pick(s, P))
           D == DOMAIN s \ P
<1>1. UnEscapeStructuralQuotes(s) = w
  BY DEF UnEscapeStructuralQuotes, Without, Pick, Lone
<1>2. w \in Body /\ \E g : KeptAt(g, s, P, w)
  <2> HIDE DEF P
  <2>1. QED BY KeptExists DEF Body
<1>3. PICK g : KeptAt(g, s, P, w)
  BY <1>2
<1> HIDE DEF w
<1>4. /\ Len(s) \in Nat /\ DOMAIN s = 1..Len(s) /\ (\A i \in 1..Len(s) : At(s, i) = s[i])
      /\ \A i : At(s, i) # Nil => i \in 1..Len(s)
  BY TextPlaces
<1>5. /\ Len(w) \in Nat /\ DOMAIN w = 1..Len(w) /\ (\A i \in 1..Len(w) : At(w, i) = w[i])
      /\ \A i : At(w, i) # Nil => i \in 1..Len(w)
  BY <1>2, TextPlaces
<1>6. \A p \in P : At(s, p) = Backslash /\ At(s, p + 1) = Quote /\ Structural(s, p)
  BY LoneIs
<1>7. /\ Nil \notin Letters \cup {Backslash, Quote} /\ Backslash # Quote
      /\ Backslash \notin Letters /\ Quote \notin Letters
  BY Classes
<1> HIDE DEF P
<1>8. /\ g \in [D -> 1..Len(w)] /\ (\A i, j \in D : i < j => g[i] < g[j])
      /\ (\A k \in 1..Len(w) : \E i \in D : g[i] = k) /\ \A i \in D : At(w, g[i]) = At(s, i)
  BY <1>3, <1>4, <1>5 DEF KeptAt
<1>9. \A i, j \in D : g[j] = g[i] + 1 <=> i < j /\ \A k \in (i + 1)..(j - 1) : k \in P
  <2>1. s \in Seq(Chars) /\ w \in Seq(Chars)
    BY <1>2 DEF Body
  <2>2. QED BY <1>3, <2>1, KeptNext
<1>10. ASSUME NEW i \in Data(s)
       PROVE  i \in D /\ g[i] \in Data(w)
  <2>1. /\ i \in 1..Len(s) /\ At(s, i) \in Letters /\ At(s, i + 1) = Backslash
        /\ At(s, i + 2) = Quote /\ At(s, i + 3) \in Letters
    BY <1>4 DEF Data
  <2>2. i \in Nat /\ i + 1 \in 1..Len(s) /\ i + 2 \in 1..Len(s) /\ i + 3 \in 1..Len(s)
    BY <1>4, <1>7, <2>1
  <2>3. i \in D /\ i + 2 \in D /\ i + 3 \in D
    BY <1>4, <1>6, <1>7, <2>1, <2>2
  <2>4. i + 1 \in D
    <3> SUFFICES ASSUME i + 1 \in P PROVE FALSE
      BY <1>4, <2>2
    <3>1. Structural(s, i + 1)
      BY <1>6
    <3>2. (i + 1) + 2 = i + 3 /\ (i + 1) - 1 = i
      BY <2>2
    <3>3. QED BY <2>1, <3>1, <3>2 DEF Structural
  <2>5. g[i + 1] = g[i] + 1
    <3>1. i < i + 1 /\ (i + 1)..((i + 1) - 1) = {}
      BY <2>2
    <3>2. QED BY <1>9, <2>3, <2>4, <3>1
  <2>6. g[i + 2] = g[i + 1] + 1
    <3>1. i + 1 < i + 2 /\ ((i + 1) + 1)..((i + 2) - 1) = {}
      BY <2>2
    <3>2. QED BY <1>9, <2>3, <2>4, <3>1
  <2>7. g[i + 3] = g[i + 2] + 1
    <3>1. i + 2 < i + 3 /\ ((i + 2) + 1)..((i + 3) - 1) = {}
      BY <2>2
    <3>2. QED BY <1>9, <2>3, <3>1
  <2>8. g[i] \in 1..Len(w) /\ g[i] \in Nat
    BY <1>5, <1>8, <2>3
  <2>9. g[i + 1] = g[i] + 1 /\ g[i + 2] = g[i] + 2 /\ g[i + 3] = g[i] + 3
    BY <2>5, <2>6, <2>7, <2>8
  <2>10. /\ At(w, g[i]) = At(s, i) /\ At(w, g[i] + 1) = At(s, i + 1)
         /\ At(w, g[i] + 2) = At(s, i + 2) /\ At(w, g[i] + 3) = At(s, i + 3)
    BY <1>8, <2>3, <2>4, <2>9
  <2>11. QED BY <1>5, <2>1, <2>3, <2>8, <2>10 DEF Data
<1>11. ASSUME NEW k \in Data(w)
       PROVE  \E i \in Data(s) : g[i] = k
  <2>1. /\ k \in 1..Len(w) /\ At(w, k) \in Letters /\ At(w, k + 1) = Backslash
        /\ At(w, k + 2) = Quote /\ At(w, k + 3) \in Letters
    BY <1>5 DEF Data
  <2>2. k \in Nat /\ k + 1 \in 1..Len(w) /\ k + 2 \in 1..Len(w) /\ k + 3 \in 1..Len(w)
    BY <1>5, <1>7, <2>1
  <2>3. PICK a \in D : g[a] = k
    BY <1>8, <2>1
  <2>4. PICK b \in D : g[b] = k + 1
    BY <1>8, <2>2
  <2>5. PICK c \in D : g[c] = k + 2
    BY <1>8, <2>2
  <2>6. PICK d \in D : g[d] = k + 3
    BY <1>8, <2>2
  <2>7. At(s, a) \in Letters /\ At(s, b) = Backslash /\ At(s, c) = Quote /\ At(s, d) \in Letters
    BY <1>8, <2>1, <2>3, <2>4, <2>5, <2>6
  <2>8. a \in Nat /\ b \in Nat /\ c \in Nat /\ d \in Nat
    BY <1>4, <2>3, <2>4, <2>5, <2>6
  <2>9. /\ a < b /\ \A x \in (a + 1)..(b - 1) : x \in P
        /\ b < c /\ \A x \in (b + 1)..(c - 1) : x \in P
        /\ c < d /\ \A x \in (c + 1)..(d - 1) : x \in P
    <3>1. g[b] = g[a] + 1 /\ g[c] = g[b] + 1 /\ g[d] = g[c] + 1
      BY <2>2, <2>3, <2>4, <2>5, <2>6
    <3>2. QED BY <1>9, <2>3, <2>4, <2>5, <2>6, <3>1
  <2>10. b = a + 1
    <3> SUFFICES ASSUME b # a + 1 PROVE FALSE
      OBVIOUS
    <3>1. b - 1 \in (a + 1)..(b - 1) /\ (b - 1) + 1 = b
      BY <2>8, <2>9
    <3>2. At(s, b) = Quote
      BY <1>6, <2>9, <3>1
    <3>3. QED BY <1>7, <2>7, <3>2
  <2>11. d = c + 1
    <3> SUFFICES ASSUME d # c + 1 PROVE FALSE
      OBVIOUS
    <3>1. d - 1 \in (c + 1)..(d - 1) /\ (d - 1) + 1 = d
      BY <2>8, <2>9
    <3>2. At(s, d) = Quote
      BY <1>6, <2>9, <3>1
    <3>3. QED BY <1>7, <2>7, <3>2
  <2>12. c = b + 1
    <3> SUFFICES ASSUME c # b + 1 PROVE FALSE
      OBVIOUS
    <3>1. c - 1 \in P
      <4>1. c - 1 \in (b + 1)..(c - 1)
        BY <2>8, <2>9
      <4>2. QED BY <2>9, <4>1
    <3>2. c - 2 = b
      <4> SUFFICES ASSUME c - 2 # b PROVE FALSE
        OBVIOUS
      <4>1. c - 2 \in (b + 1)..(c - 1) /\ (c - 2) + 1 = c - 1
        BY <2>8, <2>9
      <4>2. At(s, c - 1) = Quote
        BY <1>6, <2>9, <4>1
      <4>3. At(s, c - 1) = Backslash
        BY <1>6, <3>1
      <4>4. QED BY <1>7, <4>2, <4>3
    <3>3. Structural(s, c - 1) /\ (c - 1) + 2 = d /\ (c - 1) - 1 = b
      BY <1>6, <2>8, <2>11, <3>1, <3>2
    <3>4. QED BY <2>7, <3>3 DEF Structural
  <2>13. b = a + 1 /\ c = a + 2 /\ d = a + 3
    BY <2>8, <2>10, <2>11, <2>12
  <2>14. a \in Data(s)
    BY <2>3, <2>7, <2>13 DEF Data
  <2>15. QED BY <2>3, <2>14
<1>12. ExistsBijection(Data(s), Data(w))
  <2> DEFINE h == [i \in Data(s) |-> g[i]]
  <2>1. h \in [Data(s) -> Data(w)] /\ \A i \in Data(s) : h[i] = g[i]
    BY <1>10
  <2>2. ASSUME NEW i \in Data(s), NEW j \in Data(s), h[i] = h[j] PROVE i = j
    <3>1. i \in D /\ j \in D /\ i \in Nat /\ j \in Nat /\ g[i] = g[j] /\ g[i] \in Nat
      BY <1>4, <1>5, <1>8, <1>10, <2>1, <2>2
    <3>2. ~(i < j) /\ ~(j < i)
      BY <1>8, <3>1
    <3>3. QED BY <3>1, <3>2
  <2>3. \A k \in Data(w) : \E i \in Data(s) : h[i] = k
    BY <1>11, <2>1
  <2> HIDE DEF h
  <2>4. h \in Bijection(Data(s), Data(w))
    BY <2>1, <2>2, <2>3 DEF Bijection, Injection, Surjection, IsInjective
  <2>5. QED BY <2>4 DEF ExistsBijection
<1>13. IsFiniteSet(Data(s))
  <2>1. Data(s) \subseteq 1..Len(s) /\ IsFiniteSet(1..Len(s))
    BY <1>4, FS_Interval DEF Data
  <2>2. QED BY <2>1, FS_Subset
<1>14. QED BY <1>1, <1>12, <1>13, FS_Bijection

-----------------------------------------------------------------------------
(* An escaped quote between two letters keeps its backslash, whatever the   *)
(* model wrote around it: un_escape_structural_quotes touches none and      *)
(* makes none (json_lenient.rs:64, 321)                                     *)
THEOREM DataQuotesStay == Spec => []DataQuotesSurvive
<1>1. Types => DataQuotesSurvive
  BY DataKept DEF Types, DataQuotesSurvive, Data
<1>2. QED BY <1>1, BodyText, PTL

-----------------------------------------------------------------------------
(***************************************************************************)
(* Turns of the scanners.                                                  *)
(***************************************************************************)

LineFeed == "LF"
Escape_n == "n"

(* What the pushing of its bytes leaves of a character is told from none *)
LEMMA AsCharIs ==
  /\ AsChar(Nil) = Nil
  /\ \A c \in Chars : AsChar(c) \in Chars /\ AsChar(AsChar(c)) = AsChar(c)
  /\ \A c \in Identifier \cup Blank \cup Escapable \cup {Quote, Backslash, Colon} : AsChar(c) = c
  /\ \A c \in Plain : AsChar(c) \in Plain
  /\ \A c \in Chars : /\ AsChar(c) \in Letters <=> c \in Letters
                      /\ AsChar(c) \in Identifier <=> c \in Identifier
                      /\ AsChar(c) \in Blank <=> c \in Blank
                      /\ AsChar(c) = Quote <=> c = Quote
                      /\ AsChar(c) = Backslash <=> c = Backslash
                      /\ OpensKey(AsChar(c)) <=> OpensKey(c)
                      /\ EndsKey(AsChar(c)) <=> EndsKey(c)
<1>1. AsChar(Nil) = Nil
  BY Zenon DEF AsChar, Nil
<1>2. \A c \in Chars : AsChar(c) = c \/ (c = "U" /\ AsChar(c) = "~")
  BY Zenon DEF AsChar
<1>3. /\ "U" \in Plain /\ "~" \in Plain /\ "U" # "~"
      /\ \A c \in {"U", "~"} : /\ c \in Chars /\ c \notin Letters /\ c \notin Identifier /\ c \notin Blank
                              /\ c # Quote /\ c # Backslash /\ c # Colon /\ c \notin Escapable
                              /\ ~OpensKey(c) /\ ~EndsKey(c)
  BY Zenon DEF Plain, Chars, Letters, Identifier, Blank, Quote, Backslash, Colon, Escapable, OpensKey, EndsKey, Marker
<1>4. AsChar("~") = "~"
  BY Zenon DEF AsChar
<1>5. Identifier \cup Blank \cup Escapable \cup {Quote, Backslash, Colon} \subseteq Chars
  BY Zenon DEF Chars, Identifier, Letters, Blank, Escapable, Quote, Backslash, Colon
<1>6. Plain \subseteq Chars
  BY Zenon DEF Plain
<1>7. \A c \in Chars : AsChar(c) \in Chars /\ AsChar(AsChar(c)) = AsChar(c)
  BY <1>2, <1>3, <1>4, Zenon
<1>8. \A c \in Identifier \cup Blank \cup Escapable \cup {Quote, Backslash, Colon} : AsChar(c) = c
  BY <1>2, <1>3, <1>5, Zenon
<1>9. \A c \in Plain : AsChar(c) \in Plain
  BY <1>2, <1>3, <1>6, Zenon
<1>10. ASSUME NEW c \in Chars
       PROVE  /\ AsChar(c) \in Letters <=> c \in Letters
              /\ AsChar(c) \in Identifier <=> c \in Identifier
              /\ AsChar(c) \in Blank <=> c \in Blank
              /\ AsChar(c) = Quote <=> c = Quote
              /\ AsChar(c) = Backslash <=> c = Backslash
              /\ OpensKey(AsChar(c)) <=> OpensKey(c)
              /\ EndsKey(AsChar(c)) <=> EndsKey(c)
  <2>1. CASE AsChar(c) = c
    BY <2>1, Zenon
  <2>2. CASE c = "U" /\ AsChar(c) = "~"
    BY <1>3, <2>2, Zenon
  <2>3. QED BY <1>2, <2>1, <2>2, Zenon
<1>11. QED BY <1>1, <1>7, <1>8, <1>9, <1>10, Zenon

(* Which characters are which *)
LEMMA SignsAre ==
  /\ Escapable \subseteq Chars /\ Plain \subseteq Chars /\ LineFeed \in Blank
  /\ Quote \in Escapable /\ Backslash \in Escapable /\ Escape_n \in Escapable
  /\ Quote \notin Plain /\ Backslash \notin Plain /\ LineFeed \notin Escapable
  /\ Nil \notin Plain /\ Nil \notin Escapable
  /\ LineFeed # Quote /\ LineFeed # Backslash
  /\ \A c \in Chars : c \in Plain \/ c = Quote \/ c = Backslash \/ c = LineFeed
  /\ \A c \in Chars : OpensKey(c) => c # Quote /\ c \notin Blank /\ c \notin Letters
  /\ \A c \in Chars : EndsKey(c) => c # Quote /\ c \notin Blank /\ c \notin Identifier
  /\ ~EndsKey(Nil) /\ ~OpensKey(Quote) /\ EndsKey(Colon) /\ ~OpensKey(Colon)
<1>1. \A c \in Escapable : c \in Chars /\ c # Nil
  BY Zenon DEF Escapable, Chars, Nil, Quote, Backslash, Letters, Identifier
<1>2. \A c \in Plain : c \in Chars /\ c # Quote /\ c # Backslash /\ c # LineFeed
  BY Zenon DEF Plain, LineFeed, Quote, Backslash
<1>3. LineFeed \in Blank /\ LineFeed \notin Escapable /\ LineFeed # Quote /\ LineFeed # Backslash
  BY Zenon DEF Escapable, LineFeed, Blank, Quote, Backslash
<1>4. Quote \in Escapable /\ Backslash \in Escapable /\ Escape_n \in Escapable
  BY Zenon DEF Escapable, Escape_n
<1>5. \A c \in Chars : c \in Plain \/ c = Quote \/ c = Backslash \/ c = LineFeed
  BY Zenon DEF Plain, LineFeed
<1>6. \A c \in Chars : OpensKey(c) => c # Quote /\ c \notin Blank /\ c \notin Letters
  BY Zenon DEF OpensKey, Quote, Blank, Letters
<1>7. \A c \in Chars : EndsKey(c) => c # Quote /\ c \notin Blank /\ c \notin Identifier
  BY Zenon DEF EndsKey, Quote, Blank, Letters, Identifier
<1>8. ~EndsKey(Nil) /\ ~OpensKey(Quote) /\ EndsKey(Colon) /\ ~OpensKey(Colon)
  BY Zenon DEF EndsKey, OpensKey, Nil, Quote, Colon
<1>9. QED BY <1>1, <1>2, <1>3, <1>4, <1>5, <1>6, <1>7, <1>8, Classes

(* The function of a loop: at d it pushes, and goes on at next[d] *)
Loops(D, n, push, next) ==
  /\ n \in Nat /\ push \in [D -> Body] /\ next \in [D -> D]
  /\ \A d \in D : d[1] \in 1..(n + 1)
  /\ \A d \in D : d[1] <= n => next[d][1] > d[1]

LEMMA LoopExists ==
  ASSUME NEW D, NEW n, NEW push, NEW next, Loops(D, n, push, next)
  PROVE  \E f \in [D -> Body] :
           \A d \in D : f[d] = IF d[1] > n THEN <<>> ELSE push[d] \o f[next[d]]
<1> DEFINE done == {d \in D : d[1] > n}
           base == [d \in D |-> <<>>]
           step == [d \in D |-> [v \in Body |-> push[d] \o v]]
           rank == [d \in D |-> n + 1 - d[1]]
<1>1. /\ n \in Nat /\ push \in [D -> Body] /\ next \in [D -> D]
      /\ \A d \in D : d[1] \in 1..(n + 1)
      /\ \A d \in D : d[1] <= n => next[d][1] > d[1]
  BY DEF Loops
<1>2. base \in [D -> Body]
  <2>1. <<>> \in Body
    BY EmptySeq DEF Body
  <2>2. QED BY <2>1
<1>3. step \in [D -> [Body -> Body]]
  <2>1. \A d \in D : push[d] \in Body
    BY <1>1
  <2>2. \A d \in D : \A v \in Body : push[d] \o v \in Body
    BY <2>1, ConcatProperties DEF Body
  <2> HIDE DEF Body
  <2>3. QED BY <2>2
<1>4. \A d \in D : d[1] \in Nat /\ 1 <= d[1] /\ d[1] <= n + 1
  BY <1>1
<1>5. rank \in [D -> Nat] /\ \A d \in D : rank[d] <= n /\ rank[d] = n + 1 - d[1]
  <2>1. \A d \in D : n + 1 - d[1] \in Nat /\ n + 1 - d[1] <= n
    BY <1>1, <1>4
  <2>2. QED BY <2>1
<1> HIDE DEF rank
<1>6. ASSUME NEW d \in D \ done PROVE rank[next[d]] < rank[d]
  <2>1. d \in D /\ d[1] <= n
    BY <1>1, <1>4
  <2>2. next[d] \in D /\ next[d][1] > d[1]
    BY <1>1, <2>1
  <2>3. rank[next[d]] = n + 1 - next[d][1] /\ rank[d] = n + 1 - d[1] /\ next[d][1] \in Nat /\ d[1] \in Nat
    BY <1>4, <1>5, <2>1, <2>2
  <2> HIDE DEF done
  <2>4. QED BY <1>1, <2>2, <2>3
<1> HIDE DEF base, step
<1>7. Descends(D, Body, done, base, next, step, rank, n)
  BY <1>1, <1>2, <1>3, <1>5, <1>6 DEF Descends
<1>8. PICK f \in [D -> Body] : \A d \in D : f[d] = IF d \in done THEN base[d] ELSE step[d][f[next[d]]]
  <2> HIDE DEF done
  <2>1. QED BY ONLY <1>7, Recursion
<1>9. ASSUME NEW d \in D PROVE f[d] = IF d[1] > n THEN <<>> ELSE push[d] \o f[next[d]]
  <2>1. f[next[d]] \in Body
    BY <1>1, <1>8
  <2>2. CASE d[1] > n
    <3>1. d \in done /\ base[d] = <<>>
      BY <2>2 DEF base
    <3>2. QED BY <1>8, <2>2, <3>1
  <2>3. CASE ~(d[1] > n)
    <3>1. d \notin done
      BY <2>3
    <3>2. f[d] = step[d][f[next[d]]]
      BY <1>8, <3>1
    <3>3. step[d][f[next[d]]] = push[d] \o f[next[d]]
      <4> HIDE DEF Body
      <4>1. QED BY <2>1 DEF step
    <3>4. QED BY <2>3, <3>2, <3>3
  <2>4. QED BY <2>2, <2>3
<1>10. QED BY <1>8, <1>9

(* Whatever satisfies the equation of a loop gives texts *)
LEMMA LoopType ==
  ASSUME NEW D, NEW n, NEW push, NEW next, Loops(D, n, push, next), NEW g,
         \A d \in D : g[d] = IF d[1] > n THEN <<>> ELSE push[d] \o g[next[d]]
  PROVE  \A d \in D : g[d] \in Body
<1>1. /\ n \in Nat /\ push \in [D -> Body] /\ next \in [D -> D]
      /\ \A d \in D : d[1] \in 1..(n + 1)
      /\ \A d \in D : d[1] <= n => next[d][1] > d[1]
  BY DEF Loops
<1> DEFINE m == n + 1
           T == {i \in 1..m : \A d \in D : d[1] = i => g[d] \in Body}
<1>2. ASSUME NEW i \in 1..m, \A j \in 1..m : j > i => j \in T PROVE i \in T
  <2> SUFFICES ASSUME NEW d \in D, d[1] = i PROVE g[d] \in Body
    OBVIOUS
  <2>1. CASE d[1] > n
    <3>1. <<>> \in Body
      BY EmptySeq DEF Body
    <3>2. g[d] = <<>>
      BY <2>1
    <3>3. QED BY <3>1, <3>2
  <2>2. CASE ~(d[1] > n)
    <3>1. push[d] \in Body /\ next[d] \in D /\ next[d][1] > d[1]
      BY <1>1, <2>2
    <3>2. next[d][1] \in 1..m
      BY <1>1, <3>1
    <3>3. next[d][1] \in T
      BY <1>2, <3>1, <3>2
    <3>4. g[next[d]] \in Body
      BY <3>1, <3>3
    <3>5. g[d] = push[d] \o g[next[d]]
      BY <2>2
    <3>6. QED BY <3>1, <3>4, <3>5, ConcatProperties DEF Body
  <2>3. QED BY <2>1, <2>2
<1>3. m \in Nat
  BY <1>1
<1>4. \A d \in D : d[1] \in 1..m
  BY <1>1
<1> HIDE DEF T, m
<1>5. 1..m \subseteq T
  BY ONLY <1>2, <1>3, DownInduction
<1>6. QED BY <1>4, <1>5 DEF T

-----------------------------------------------------------------------------
(* The place at j of an escape the scanners take at once *)
Escaped(s, i) == s[i] = Backslash /\ i < Len(s)

KeyEnd(s, i) == Past(s, Identifier, i)
KeySep(s, i) == Past(s, Blank, KeyEnd(s, i))
KeyAt(s, i)  == EndsKey(At(s, KeySep(s, i)))

(* What becomes of a key *)
KeyWord(s, i) ==
  <<Quote>> \o SubSeq(s, i, KeyEnd(s, i) - 1) \o <<Quote>> \o SubSeq(s, KeyEnd(s, i), KeySep(s, i) - 1) \o <<Colon>>

(* The turn at i of quote_bare_keys takes a key *)
TakesKey(s, i, b, k) == ~b /\ k /\ s[i] \in Letters /\ KeyAt(s, i)

(* The state of a scanner behind a character that stands for itself *)
InString(inString, c)  == IF inString THEN c # Quote ELSE c = Quote
Expects(inString, atKey, c) == IF inString THEN atKey ELSE OpensKey(c) \/ (c \in Blank /\ atKey)

LEMMA StringStepIs ==
  ASSUME NEW s \in Body, NEW i \in 1..Len(s)
  PROVE  /\ Escaped(s, i) => StringStep(s, i) = 2
         /\ ~Escaped(s, i) => StringStep(s, i) = 1
         /\ EndsString(s, i) <=> s[i] = Quote
  BY DEF StringStep, Escaped, EndsString

LEMMA AsCharsOne ==
  ASSUME NEW c \in Chars
  PROVE  AsChars(<<c>>) = <<AsChar(c)>>
  BY DEF AsChars

LEMMA AsCharsTwo ==
  ASSUME NEW s \in Body, NEW i \in 1..Len(s), i < Len(s)
  PROVE  AsChars(SubSeq(s, i, i + 1)) = <<AsChar(s[i]), AsChar(s[i + 1])>>
<1>1. Len(s) \in Nat /\ i \in Nat /\ s \in Seq(Chars)
  BY TextPlaces DEF Body
<1> DEFINE u == SubSeq(s, i, i + 1)
<1>2. Len(u) = 2 /\ DOMAIN u = 1..2 /\ u[1] = s[i] /\ u[2] = s[i + 1]
  BY <1>1, SubSeqProperties
<1> HIDE DEF u
<1>3. AsChars(u) = [j \in 1..2 |-> AsChar(u[j])]
  BY <1>2 DEF AsChars
<1>4. QED BY <1>2, <1>3 DEF u

LEMMA AsCharsOwn ==
  ASSUME NEW s \in Body, NEW i \in 1..Len(s)
  PROVE  AsChars(SubSeq(s, i, i)) = <<AsChar(s[i])>>
<1>1. Len(s) \in Nat /\ i \in Nat /\ s \in Seq(Chars)
  BY TextPlaces DEF Body
<1> DEFINE u == SubSeq(s, i, i)
<1>2. Len(u) = 1 /\ DOMAIN u = 1..1 /\ u[1] = s[i]
  BY <1>1, SubSeqProperties
<1> HIDE DEF u
<1>3. AsChars(u) = [j \in 1..1 |-> AsChar(u[j])]
  BY <1>2 DEF AsChars
<1>4. QED BY <1>2, <1>3 DEF u

LEMMA TurnParts ==
  ASSUME NEW push, NEW next, NEW turn, turn = [push |-> push, next |-> next]
  PROVE  turn.push = push /\ turn.next = next
  OBVIOUS

(* A turn of quote_bare_keys takes an escape, a key, or one character *)
LEMMA KeyTurnIs ==
  ASSUME NEW s \in Body, NEW i \in 1..Len(s), NEW b \in BOOLEAN, NEW k \in BOOLEAN
  PROVE  /\ b /\ Escaped(s, i) =>
              /\ KeyTurn(s, <<i, b, k>>).push = <<Backslash, AsChar(s[i + 1])>>
              /\ KeyTurn(s, <<i, b, k>>).next = <<i + 2, TRUE, k>>
         /\ TakesKey(s, i, b, k) =>
              /\ KeyTurn(s, <<i, b, k>>).push = KeyWord(s, i)
              /\ KeyTurn(s, <<i, b, k>>).next = <<KeySep(s, i) + 1, FALSE, FALSE>>
         /\ ~(b /\ Escaped(s, i)) /\ ~TakesKey(s, i, b, k) =>
              /\ KeyTurn(s, <<i, b, k>>).push = <<AsChar(s[i])>>
              /\ KeyTurn(s, <<i, b, k>>).next = <<i + 1, InString(b, s[i]), Expects(b, k, s[i])>>
<1> DEFINE turn == KeyTurn(s, <<i, b, k>>)
           c == s[i]
           isKey == k /\ c \in Letters /\ KeyAt(s, i)
           n  == StringStep(s, i)
           t1 == [push |-> AsChars(SubSeq(s, i, i + n - 1)), next |-> <<i + n, ~EndsString(s, i), k>>]
           t2 == [push |-> <<c>>, next |-> <<i + 1, TRUE, FALSE>>]
           t3 == [push |-> <<c>>, next |-> <<i + 1, FALSE, TRUE>>]
           t4 == [push |-> <<c>>, next |-> <<i + 1, FALSE, k>>]
           t5 == [push |-> KeyWord(s, i), next |-> <<KeySep(s, i) + 1, FALSE, FALSE>>]
           t6 == [push |-> AsChars(<<c>>), next |-> <<i + 1, FALSE, FALSE>>]
<1>1. turn = CASE b -> t1 [] ~b /\ c = Quote -> t2 [] ~b /\ OpensKey(c) -> t3 [] ~b /\ c \in Blank -> t4
               [] ~b /\ isKey -> t5 [] OTHER -> t6
  BY Zenon DEF KeyTurn, KeyAt, KeyWord, KeySep, KeyEnd
<1>0. TakesKey(s, i, b, k) = (~b /\ isKey)
  BY Zenon DEF TakesKey
<1> HIDE DEF turn
<1>2. c \in Chars /\ Len(s) \in Nat /\ i \in Nat
  BY TextPlaces
<1> HIDE DEF isKey, t1, t2, t3, t4, t5, t6, n
<1>3. /\ c = Quote => ~OpensKey(c) /\ c \notin Blank /\ c \notin Letters /\ AsChar(c) = c
      /\ OpensKey(c) => c \notin Blank /\ c \notin Letters /\ c # Quote /\ AsChar(c) = c
      /\ c \in Blank => c \notin Letters /\ AsChar(c) = c
      /\ c \in Letters => AsChar(c) = c
  <2>1. OpensKey(c) => AsChar(c) = c
    BY Zenon DEF OpensKey, AsChar
  <2>2. c \in Letters => c \in Identifier
    BY Classes
  <2> HIDE DEF c
  <2>3. QED BY <1>2, <2>1, <2>2, SignsAre, AsCharIs, Classes
<1>4. CASE b
  <2>1. turn = t1
    BY <1>1, <1>4, Zenon
  <2>2. turn.push = AsChars(SubSeq(s, i, i + n - 1)) /\ turn.next = <<i + n, ~EndsString(s, i), k>>
    BY <2>1 DEF t1
  <2>3. CASE Escaped(s, i)
    <3>1. n = 2 /\ i < Len(s) /\ c = Backslash /\ i + n - 1 = i + 1 /\ i + n = i + 2
      BY <1>2, <2>3, StringStepIs DEF n, Escaped
    <3>2. AsChar(c) = Backslash /\ ~EndsString(s, i)
      BY <3>1, AsCharIs, StringStepIs, Classes
    <3>3. AsChars(SubSeq(s, i, i + 1)) = <<AsChar(s[i]), AsChar(s[i + 1])>>
      BY <3>1, AsCharsTwo
    <3>4. QED BY <1>0, <1>4, <2>2, <2>3, <3>1, <3>2, <3>3 DEF turn
  <2>4. CASE ~Escaped(s, i)
    <3>1. n = 1 /\ i + n - 1 = i /\ i + n = i + 1
      BY <1>2, <2>4, StringStepIs DEF n
    <3>2. AsChars(SubSeq(s, i, i)) = <<AsChar(s[i])>>
      BY AsCharsOwn
    <3>3. InString(b, c) = ~EndsString(s, i) /\ Expects(b, k, c) = k
      BY <1>4, StringStepIs DEF InString, Expects
    <3>4. QED BY <1>0, <1>4, <2>2, <2>4, <3>1, <3>2, <3>3 DEF turn
  <2>5. QED BY <2>3, <2>4
<1>5. CASE ~b /\ c = Quote
  <2>1. ~isKey /\ ~OpensKey(c) /\ c \notin Blank /\ AsChar(c) = c
    BY <1>3, <1>5 DEF isKey
  <2>2. turn = t2
    BY <1>1, <1>5, <2>1, Zenon
  <2>3. InString(b, c) = TRUE /\ Expects(b, k, c) = FALSE
    BY <1>5, <2>1 DEF InString, Expects
  <2>4. turn.push = <<c>> /\ turn.next = <<i + 1, TRUE, FALSE>>
    BY ONLY <2>2, TurnParts, Zenon DEF t2
  <2>5. turn.push = <<AsChar(c)>> /\ turn.next = <<i + 1, InString(b, c), Expects(b, k, c)>>
    BY <2>1, <2>3, <2>4, Zenon
  <2>6. QED BY <1>0, <1>5, <2>1, <2>5, Zenon DEF isKey, turn
<1>6. CASE ~b /\ OpensKey(c)
  <2>1. ~isKey /\ c # Quote /\ c \notin Blank /\ AsChar(c) = c
    BY <1>3, <1>6 DEF isKey
  <2>2. turn = t3
    BY <1>1, <1>6, <2>1, Zenon
  <2>3. InString(b, c) = FALSE /\ Expects(b, k, c) = TRUE
    BY <1>6, <2>1 DEF InString, Expects
  <2>4. turn.push = <<c>> /\ turn.next = <<i + 1, FALSE, TRUE>>
    BY ONLY <2>2, TurnParts, Zenon DEF t3
  <2>5. turn.push = <<AsChar(c)>> /\ turn.next = <<i + 1, InString(b, c), Expects(b, k, c)>>
    BY <2>1, <2>3, <2>4, Zenon
  <2>6. QED BY <1>0, <1>6, <2>1, <2>5, Zenon DEF isKey, turn
<1>7. CASE ~b /\ c \in Blank
  <2>1. ~isKey /\ c # Quote /\ ~OpensKey(c) /\ AsChar(c) = c
    BY <1>3, <1>7 DEF isKey
  <2>2. turn = t4
    BY <1>1, <1>7, <2>1, Zenon
  <2>3. InString(b, c) = FALSE /\ Expects(b, k, c) = k
    BY <1>7, <2>1 DEF InString, Expects
  <2>4. turn.push = <<c>> /\ turn.next = <<i + 1, FALSE, k>>
    BY ONLY <2>2, TurnParts, Zenon DEF t4
  <2>5. turn.push = <<AsChar(c)>> /\ turn.next = <<i + 1, InString(b, c), Expects(b, k, c)>>
    BY <2>1, <2>3, <2>4, Zenon
  <2>6. QED BY <1>0, <1>7, <2>1, <2>5, Zenon DEF isKey, turn
<1>8. CASE ~b /\ isKey
  <2>1. c # Quote /\ ~OpensKey(c) /\ c \notin Blank
    BY <1>3, <1>8 DEF isKey
  <2>2. turn = t5
    BY <1>1, <1>8, <2>1, Zenon
  <2>3. turn.push = KeyWord(s, i) /\ turn.next = <<KeySep(s, i) + 1, FALSE, FALSE>>
    BY ONLY <2>2, TurnParts, Zenon DEF t5
  <2>4. QED BY <1>0, <1>8, <2>3, Zenon DEF turn
<1>9. CASE ~b /\ c # Quote /\ ~OpensKey(c) /\ c \notin Blank /\ ~isKey
  <2>1. turn = t6
    BY <1>1, <1>9, Zenon
  <2>2. InString(b, c) = FALSE /\ Expects(b, k, c) = FALSE
    BY <1>9 DEF InString, Expects
  <2>3. AsChars(<<c>>) = <<AsChar(c)>>
    BY <1>2, AsCharsOne
  <2>4. turn.push = AsChars(<<c>>) /\ turn.next = <<i + 1, FALSE, FALSE>>
    BY ONLY <2>1, TurnParts, Zenon DEF t6
  <2>5. turn.push = <<AsChar(c)>> /\ turn.next = <<i + 1, InString(b, c), Expects(b, k, c)>>
    BY <2>2, <2>3, <2>4, Zenon
  <2>6. QED BY <1>0, <1>9, <2>5, Zenon DEF turn
<1>10. QED BY <1>4, <1>5, <1>6, <1>7, <1>8, <1>9, Zenon

(* A turn of escape_string_controls takes an escape, which it doubles if    *)
(* JSON has no such, or one character                                       *)
LEMMA EscapeTurnIs ==
  ASSUME NEW s \in Body, NEW i \in 1..Len(s), NEW b \in BOOLEAN,
         NEW turn, turn = EscapeTurn(s, <<i, b>>)
  PROVE  /\ b /\ Escaped(s, i) /\ s[i + 1] \in Escapable =>
              turn.push = <<Backslash, s[i + 1]>> /\ turn.next = <<i + 2, TRUE>>
         /\ b /\ Escaped(s, i) /\ s[i + 1] \notin Escapable =>
              turn.push = <<Backslash, Backslash>> /\ turn.next = <<i + 1, TRUE>>
         /\ b /\ s[i] = LineFeed => turn.push = <<Backslash, Escape_n>> /\ turn.next = <<i + 1, TRUE>>
         /\ ~(b /\ (Escaped(s, i) \/ s[i] = LineFeed)) =>
              turn.push = <<AsChar(s[i])>> /\ turn.next = <<i + 1, InString(b, s[i])>>
<1> DEFINE c == s[i]
           n  == StringStep(s, i)
           e  == EscapeOf(s, i)
           one == IF c = LineFeed THEN <<Backslash, Escape_n>> ELSE AsChars(<<c>>)
           t1 == [push |-> e, next |-> <<IF e[2] = s[i + 1] THEN i + 2 ELSE i + 1, TRUE>>]
           t2 == [push |-> one, next |-> <<i + 1, ~EndsString(s, i)>>]
           t3 == [push |-> AsChars(<<c>>), next |-> <<i + 1, EndsString(s, i)>>]
<1>1. turn = CASE b /\ n = 2 -> t1 [] b /\ n = 1 -> t2 [] OTHER -> t3
  BY Zenon DEF EscapeTurn, LineFeed, Escape_n
<1>2. c \in Chars /\ Len(s) \in Nat /\ i \in Nat
  BY TextPlaces
<1>3. /\ Escaped(s, i) => n = 2
      /\ ~Escaped(s, i) => n = 1
      /\ EndsString(s, i) <=> c = Quote
  BY StringStepIs
<1>4. AsChars(<<c>>) = <<AsChar(c)>>
  BY <1>2, AsCharsOne
<1>5. c = LineFeed => c # Quote /\ c # Backslash /\ ~Escaped(s, i)
  BY SignsAre DEF Escaped
<1> HIDE DEF n, one, t1, t2, t3
<1>6. CASE b /\ Escaped(s, i)
  <2>1. n = 2 /\ n # 1
    BY <1>3, <1>6
  <2>2. turn = t1
    BY <1>1, <1>6, <2>1, Zenon
  <2>3. turn.push = e /\ turn.next = <<IF e[2] = s[i + 1] THEN i + 2 ELSE i + 1, TRUE>>
    <3> HIDE DEF e
    <3>1. QED BY ONLY <2>2, TurnParts, Zenon DEF t1
  <2>4. CASE s[i + 1] \in Escapable
    <3>1. e = <<Backslash, s[i + 1]>>
      BY <2>4 DEF EscapeOf
    <3> HIDE DEF e
    <3>2. e[2] = s[i + 1]
      BY <3>1
    <3>3. turn.push = <<Backslash, s[i + 1]>> /\ turn.next = <<i + 2, TRUE>>
      BY ONLY <2>3, <3>1, <3>2, Zenon
    <3>4. QED BY <1>5, <1>6, <2>4, <3>3, Zenon
  <2>5. CASE s[i + 1] \notin Escapable
    <3>1. e = <<Backslash, Backslash>>
      BY <2>5 DEF EscapeOf
    <3>2. Backslash # s[i + 1]
      BY <2>5, SignsAre
    <3> HIDE DEF e
    <3>3. e[2] = Backslash
      BY <3>1
    <3>4. turn.push = <<Backslash, Backslash>> /\ turn.next = <<i + 1, TRUE>>
      BY ONLY <2>3, <3>1, <3>2, <3>3, Zenon
    <3>5. QED BY <1>5, <1>6, <2>5, <3>4, Zenon
  <2>6. QED BY <2>4, <2>5
<1>7. CASE b /\ ~Escaped(s, i)
  <2>1. n = 1 /\ n # 2
    BY <1>3, <1>7
  <2>2. turn = t2
    BY <1>1, <1>7, <2>1, Zenon
  <2>3. turn.push = one /\ turn.next = <<i + 1, ~EndsString(s, i)>>
    BY ONLY <2>2, TurnParts, Zenon DEF t2
  <2>4. CASE c = LineFeed
    <3>1. one = <<Backslash, Escape_n>> /\ ~EndsString(s, i)
      BY <1>3, <1>5, <2>4 DEF one
    <3>2. turn.push = <<Backslash, Escape_n>> /\ turn.next = <<i + 1, TRUE>>
      BY ONLY <2>3, <3>1
    <3>3. QED BY <1>7, <2>4, <3>2, Zenon
  <2>5. CASE c # LineFeed
    <3>1. one = <<AsChar(c)>> /\ InString(b, c) = ~EndsString(s, i)
      BY <1>3, <1>4, <1>7, <2>5 DEF one, InString
    <3>2. turn.push = <<AsChar(c)>> /\ turn.next = <<i + 1, InString(b, c)>>
      BY ONLY <2>3, <3>1, Zenon
    <3>3. QED BY <1>7, <2>5, <3>2, Zenon
  <2>6. QED BY <2>4, <2>5
<1>8. CASE ~b
  <2>1. turn = t3
    BY <1>1, <1>8, Zenon
  <2>2. turn.push = AsChars(<<c>>) /\ turn.next = <<i + 1, EndsString(s, i)>>
    BY ONLY <2>1, TurnParts, Zenon DEF t3
  <2>3. InString(b, c) = EndsString(s, i)
    <3>1. EndsString(s, i) = (c = Quote)
      BY Zenon DEF EndsString
    <3>2. QED BY <1>8, <3>1, Zenon DEF InString
  <2>4. turn.push = <<AsChar(c)>> /\ turn.next = <<i + 1, InString(b, c)>>
    BY ONLY <1>4, <2>2, <2>3, Zenon
  <2>5. QED BY <1>8, <2>4, Zenon
<1>9. QED BY <1>6, <1>7, <1>8

-----------------------------------------------------------------------------
LEMMA PastUnique ==
  ASSUME NEW s \in Body, NEW C, Nil \notin C, NEW i \in 1..(Len(s) + 1),
         NEW j \in i..(Len(s) + 1), At(s, j) \notin C, \A k \in i..(j - 1) : At(s, k) \in C
  PROVE  Past(s, C, i) = j
<1> DEFINE p == Past(s, C, i)
<1>1. p \in i..(Len(s) + 1) /\ At(s, p) \notin C /\ \A k \in i..(p - 1) : At(s, k) \in C
  BY PastIs
<1>2. Len(s) \in Nat
  BY TextPlaces
<1> HIDE DEF p
<1>3. ~(p < j) /\ ~(j < p)
  <2>1. p < j => p \in i..(j - 1)
    BY <1>1, <1>2
  <2>2. j < p => j \in i..(p - 1)
    BY <1>1, <1>2
  <2>3. QED BY <1>1, <2>1, <2>2
<1>4. QED BY <1>1, <1>2, <1>3 DEF p

(* Where the key that may stand at i ends, and the sign behind it *)
LEMMA KeyPlaces ==
  ASSUME NEW s \in Body, NEW i \in 1..Len(s), s[i] \in Letters,
         NEW end, end = KeyEnd(s, i), NEW sep, sep = KeySep(s, i)
  PROVE  /\ end \in (i + 1)..(Len(s) + 1) /\ sep \in end..(Len(s) + 1)
         /\ \A k \in i..(end - 1) : k \in 1..Len(s) /\ s[k] \in Identifier
         /\ At(s, end) \notin Identifier
         /\ \A k \in end..(sep - 1) : k \in 1..Len(s) /\ s[k] \in Blank
         /\ At(s, sep) \notin Blank
         /\ KeyAt(s, i) => sep <= Len(s) /\ EndsKey(s[sep])
<1>1. /\ Len(s) \in Nat /\ i \in 1..(Len(s) + 1)
      /\ \A k \in 1..Len(s) : At(s, k) = s[k] /\ s[k] \in Chars
      /\ At(s, Len(s) + 1) = Nil
  BY TextPlaces
<1>2. end \in i..(Len(s) + 1) /\ At(s, end) \notin Identifier /\ \A k \in i..(end - 1) : At(s, k) \in Identifier
  BY <1>1, PastIs, Classes DEF KeyEnd
<1>3. end # i
  BY <1>1, <1>2, Classes
<1>4. end \in (i + 1)..(Len(s) + 1) /\ end \in 1..(Len(s) + 1)
  BY <1>1, <1>2, <1>3
<1>5. sep \in end..(Len(s) + 1) /\ At(s, sep) \notin Blank /\ \A k \in end..(sep - 1) : At(s, k) \in Blank
  BY <1>4, PastIs, Classes DEF KeySep
<1>6. \A k \in i..(end - 1) : k \in 1..Len(s) /\ s[k] \in Identifier
  BY <1>1, <1>2, <1>4
<1>7. \A k \in end..(sep - 1) : k \in 1..Len(s) /\ s[k] \in Blank
  BY <1>1, <1>4, <1>5
<1>8. ASSUME KeyAt(s, i) PROVE sep <= Len(s) /\ EndsKey(s[sep])
  <2>1. EndsKey(At(s, sep))
    BY <1>8 DEF KeyAt
  <2>2. sep # Len(s) + 1
    BY <1>1, <2>1, SignsAre
  <2>3. sep \in 1..Len(s)
    <3>1. end \in Nat /\ 1 <= end /\ sep \in end..(Len(s) + 1)
      BY <1>1, <1>4, <1>5
    <3>2. QED BY ONLY <1>1, <2>2, <3>1
  <2>4. QED BY <1>1, <2>1, <2>3
<1>9. QED BY <1>2, <1>4, <1>5, <1>6, <1>7, <1>8

-----------------------------------------------------------------------------
(***************************************************************************)
(* The functions of the two scanners.                                      *)
(***************************************************************************)
KeyStates(s)    == (1..(Len(s) + 1)) \X BOOLEAN \X BOOLEAN
EscapeStates(s) == (1..(Len(s) + 1)) \X BOOLEAN

IsKeys(out, s) ==
  out = [at \in (1..(Len(s) + 1)) \X BOOLEAN \X BOOLEAN |->
           IF at[1] > Len(s) THEN <<>> ELSE KeyTurn(s, at).push \o out[KeyTurn(s, at).next]]

KeysFrom(s) == CHOOSE out : IsKeys(out, s)

LEMMA KeysIsFrom ==
  ASSUME NEW s
  PROVE  QuoteBareKeys(s) = KeysFrom(s)[<<1, FALSE, FALSE>>]
  BY DEF QuoteBareKeys, KeysFrom, IsKeys

LEMMA KeysChosen ==
  ASSUME NEW s, \E out : IsKeys(out, s)
  PROVE  IsKeys(KeysFrom(s), s)
  BY Zenon DEF KeysFrom

IsEscapes(out, s) ==
  out = [at \in (1..(Len(s) + 1)) \X BOOLEAN |->
           IF at[1] > Len(s) THEN <<>> ELSE EscapeTurn(s, at).push \o out[EscapeTurn(s, at).next]]

EscapesFrom(s) == CHOOSE out : IsEscapes(out, s)

LEMMA EscapesIsFrom ==
  ASSUME NEW s
  PROVE  EscapeStringControls(s) = EscapesFrom(s)[<<1, FALSE>>]
  BY DEF EscapeStringControls, EscapesFrom, IsEscapes

LEMMA EscapesChosen ==
  ASSUME NEW s, \E out : IsEscapes(out, s)
  PROVE  IsEscapes(EscapesFrom(s), s)
  BY Zenon DEF EscapesFrom

LEMMA OneAndTwo ==
  /\ \A c \in Chars : <<c>> \in Body
  /\ \A c, d \in Chars : <<c, d>> \in Body
  BY DEF Body

LEMMA KeyTurnType ==
  ASSUME NEW s \in Body, NEW i \in 1..Len(s), NEW b \in BOOLEAN, NEW k \in BOOLEAN
  PROVE  /\ KeyTurn(s, <<i, b, k>>).push \in Body
         /\ KeyTurn(s, <<i, b, k>>).next \in KeyStates(s)
         /\ KeyTurn(s, <<i, b, k>>).next[1] > i
<1> DEFINE turn == KeyTurn(s, <<i, b, k>>)
           end  == KeyEnd(s, i)
           sep  == KeySep(s, i)
           word == KeyWord(s, i)
           Key  == TakesKey(s, i, b, k)
<1>1. /\ Len(s) \in Nat /\ i \in Nat /\ 1 <= i /\ i <= Len(s) /\ s \in Seq(Chars)
      /\ \A j \in 1..Len(s) : s[j] \in Chars
  BY TextPlaces DEF Body
<1>2. /\ b /\ Escaped(s, i) => turn.push = <<Backslash, AsChar(s[i + 1])>> /\ turn.next = <<i + 2, TRUE, k>>
      /\ Key => turn.push = word /\ turn.next = <<sep + 1, FALSE, FALSE>>
      /\ ~(b /\ Escaped(s, i)) /\ ~Key =>
           turn.push = <<AsChar(s[i])>> /\ turn.next = <<i + 1, InString(b, s[i]), Expects(b, k, s[i])>>
  BY KeyTurnIs
<1>3. \A c \in Chars : AsChar(c) \in Chars
  BY AsCharIs
<1>4. Quote \in Chars /\ Backslash \in Chars /\ Colon \in Chars
  BY Classes
<1>5. InString(b, s[i]) \in BOOLEAN /\ Expects(b, k, s[i]) \in BOOLEAN
  BY DEF InString, Expects, OpensKey
<1> HIDE DEF turn, end, sep, word, Key
<1>6. CASE b /\ Escaped(s, i)
  <2>1. i + 1 \in 1..Len(s) /\ i + 2 \in 1..(Len(s) + 1) /\ i + 2 > i
    BY <1>1, <1>6 DEF Escaped
  <2>2. AsChar(s[i + 1]) \in Chars
    BY <1>1, <1>3, <2>1
  <2>3. <<Backslash, AsChar(s[i + 1])>> \in Body
    BY <1>4, <2>2, OneAndTwo
  <2>4. <<i + 2, TRUE, k>> \in KeyStates(s) /\ <<i + 2, TRUE, k>>[1] = i + 2
    BY <2>1 DEF KeyStates
  <2>5. QED BY <1>2, <1>6, <2>1, <2>3, <2>4 DEF turn
<1>7. CASE Key
  <2>1. end \in (i + 1)..(Len(s) + 1) /\ sep \in end..(Len(s) + 1) /\ sep <= Len(s)
    BY <1>7, KeyPlaces DEF TakesKey, Key, end, sep
  <2>2. end \in Nat /\ sep \in Nat /\ 1 <= end /\ i <= end /\ end <= sep
    BY <1>1, <2>1
  <2>3. SubSeq(s, i, end - 1) \in Seq(Chars) /\ SubSeq(s, end, sep - 1) \in Seq(Chars)
    <3>1. \A m \in i..(end - 1) : s[m] \in Chars
      BY <1>1, <2>1, <2>2
    <3>2. \A m \in end..(sep - 1) : s[m] \in Chars
      BY <1>1, <2>1, <2>2
    <3>3. QED BY <1>1, <2>2, <3>1, <3>2, SubSeqProperties
  <2>4. <<Quote>> \in Seq(Chars) /\ <<Colon>> \in Seq(Chars)
    BY <1>4
  <2>5. word \in Body
    BY <2>3, <2>4, ConcatProperties DEF Body, KeyWord, word, end, sep
  <2>6. sep + 1 \in 1..(Len(s) + 1) /\ sep + 1 > i
    BY <1>1, <2>1, <2>2
  <2>7. <<sep + 1, FALSE, FALSE>> \in KeyStates(s) /\ <<sep + 1, FALSE, FALSE>>[1] = sep + 1
    BY <2>6 DEF KeyStates
  <2>8. QED BY <1>2, <1>7, <2>5, <2>6, <2>7 DEF turn
<1>8. CASE ~(b /\ Escaped(s, i)) /\ ~Key
  <2>1. i + 1 \in 1..(Len(s) + 1) /\ i + 1 > i
    BY <1>1
  <2>2. <<AsChar(s[i])>> \in Body
    BY <1>1, <1>3, OneAndTwo
  <2>3. /\ <<i + 1, InString(b, s[i]), Expects(b, k, s[i])>> \in KeyStates(s)
        /\ <<i + 1, InString(b, s[i]), Expects(b, k, s[i])>>[1] = i + 1
    BY <1>5, <2>1 DEF KeyStates
  <2>4. QED BY <1>2, <1>8, <2>1, <2>2, <2>3 DEF turn
<1>9. QED BY <1>6, <1>7, <1>8

EscapeTurns(s, i, b) ==
  /\ b /\ Escaped(s, i) /\ s[i + 1] \in Escapable =>
       EscapeTurn(s, <<i, b>>).push = <<Backslash, s[i + 1]>> /\ EscapeTurn(s, <<i, b>>).next = <<i + 2, TRUE>>
  /\ b /\ Escaped(s, i) /\ s[i + 1] \notin Escapable =>
       EscapeTurn(s, <<i, b>>).push = <<Backslash, Backslash>> /\ EscapeTurn(s, <<i, b>>).next = <<i + 1, TRUE>>
  /\ b /\ s[i] = LineFeed => EscapeTurn(s, <<i, b>>).push = <<Backslash, Escape_n>> /\ EscapeTurn(s, <<i, b>>).next = <<i + 1, TRUE>>
  /\ ~(b /\ (Escaped(s, i) \/ s[i] = LineFeed)) =>
       EscapeTurn(s, <<i, b>>).push = <<AsChar(s[i])>> /\ EscapeTurn(s, <<i, b>>).next = <<i + 1, InString(b, s[i])>>

LEMMA EscapeTurnsAre ==
  ASSUME NEW s \in Body
  PROVE  \A i \in 1..Len(s), b \in BOOLEAN : EscapeTurns(s, i, b)
<1> SUFFICES ASSUME NEW i \in 1..Len(s), NEW b \in BOOLEAN PROVE EscapeTurns(s, i, b)
  OBVIOUS
<1> DEFINE turn == EscapeTurn(s, <<i, b>>)
<1>1.
      /\ b /\ Escaped(s, i) /\ s[i + 1] \in Escapable =>
           turn.push = <<Backslash, s[i + 1]>> /\ turn.next = <<i + 2, TRUE>>
      /\ b /\ Escaped(s, i) /\ s[i + 1] \notin Escapable =>
           turn.push = <<Backslash, Backslash>> /\ turn.next = <<i + 1, TRUE>>
      /\ b /\ s[i] = LineFeed => turn.push = <<Backslash, Escape_n>> /\ turn.next = <<i + 1, TRUE>>
      /\ ~(b /\ (Escaped(s, i) \/ s[i] = LineFeed)) =>
           turn.push = <<AsChar(s[i])>> /\ turn.next = <<i + 1, InString(b, s[i])>>
  BY EscapeTurnIs
<1> HIDE DEF turn
<1>2. QED BY ONLY <1>1, Zenon DEF turn, EscapeTurns

LEMMA EscapeTurnType ==
  ASSUME NEW s \in Body, NEW i \in 1..Len(s), NEW b \in BOOLEAN
  PROVE  /\ EscapeTurn(s, <<i, b>>).push \in Body
         /\ EscapeTurn(s, <<i, b>>).next \in EscapeStates(s)
         /\ EscapeTurn(s, <<i, b>>).next[1] > i
<1> DEFINE turn == EscapeTurn(s, <<i, b>>)
<1>1. /\ Len(s) \in Nat /\ i \in Nat /\ 1 <= i /\ i <= Len(s)
      /\ \A j \in 1..Len(s) : s[j] \in Chars
  BY TextPlaces
<1>2. /\ b /\ Escaped(s, i) /\ s[i + 1] \in Escapable =>
           turn.push = <<Backslash, s[i + 1]>> /\ turn.next = <<i + 2, TRUE>>
      /\ b /\ Escaped(s, i) /\ s[i + 1] \notin Escapable =>
           turn.push = <<Backslash, Backslash>> /\ turn.next = <<i + 1, TRUE>>
      /\ b /\ s[i] = LineFeed => turn.push = <<Backslash, Escape_n>> /\ turn.next = <<i + 1, TRUE>>
      /\ ~(b /\ (Escaped(s, i) \/ s[i] = LineFeed)) =>
           turn.push = <<AsChar(s[i])>> /\ turn.next = <<i + 1, InString(b, s[i])>>
  BY EscapeTurnIs
<1>3. \A c \in Chars : AsChar(c) \in Chars
  BY AsCharIs
<1>4. Backslash \in Chars /\ Escape_n \in Chars /\ Escapable \subseteq Chars
  BY SignsAre
<1>5. InString(b, s[i]) \in BOOLEAN
  BY DEF InString
<1> HIDE DEF turn
<1>6. CASE b /\ Escaped(s, i) /\ s[i + 1] \in Escapable
  <2>1. i + 2 \in 1..(Len(s) + 1) /\ i + 2 > i
    BY <1>1, <1>6 DEF Escaped
  <2>2. <<Backslash, s[i + 1]>> \in Body
    BY <1>4, <1>6, OneAndTwo
  <2>3. <<i + 2, TRUE>> \in EscapeStates(s) /\ <<i + 2, TRUE>>[1] = i + 2
    BY <2>1 DEF EscapeStates
  <2>4. QED BY <1>2, <1>6, <2>1, <2>2, <2>3 DEF turn
<1>7. i + 1 \in 1..(Len(s) + 1) /\ i + 1 > i
  BY <1>1
<1>8. /\ <<i + 1, TRUE>> \in EscapeStates(s) /\ <<i + 1, TRUE>>[1] = i + 1
      /\ <<i + 1, InString(b, s[i])>> \in EscapeStates(s) /\ <<i + 1, InString(b, s[i])>>[1] = i + 1
  BY <1>5, <1>7 DEF EscapeStates
<1>9. /\ <<Backslash, Backslash>> \in Body /\ <<Backslash, Escape_n>> \in Body /\ <<AsChar(s[i])>> \in Body
  BY <1>1, <1>3, <1>4, OneAndTwo
<1>10. CASE ~(b /\ Escaped(s, i) /\ s[i + 1] \in Escapable)
  <2>1. \/ b /\ Escaped(s, i) /\ s[i + 1] \notin Escapable
        \/ b /\ s[i] = LineFeed
        \/ ~(b /\ (Escaped(s, i) \/ s[i] = LineFeed))
    BY <1>10
  <2>2. QED BY <1>2, <1>7, <1>8, <1>9, <2>1 DEF turn
<1>11. QED BY <1>6, <1>10

(* The functions of the scanners satisfy their equations *)
LEMMA KeysAre ==
  ASSUME NEW s \in Body
  PROVE  /\ KeysFrom(s) \in [KeyStates(s) -> Body]
         /\ \A b, k \in BOOLEAN : KeysFrom(s)[<<Len(s) + 1, b, k>>] = <<>>
         /\ \A i \in 1..Len(s), b, k \in BOOLEAN :
              KeysFrom(s)[<<i, b, k>>] =
                KeyTurn(s, <<i, b, k>>).push \o KeysFrom(s)[KeyTurn(s, <<i, b, k>>).next]
<1> DEFINE D == KeyStates(s)
           n == Len(s)
           push == [d \in D |-> IF d[1] > n THEN <<>> ELSE KeyTurn(s, d).push]
           next == [d \in D |-> IF d[1] > n THEN d ELSE KeyTurn(s, d).next]
<1>1. n \in Nat /\ s \in Seq(Chars)
  BY TextPlaces DEF Body
<1>2. \A d \in D : /\ d[1] \in 1..(n + 1) /\ d[2] \in BOOLEAN /\ d[3] \in BOOLEAN
                   /\ d = <<d[1], d[2], d[3]>>
  BY DEF KeyStates
<1>3. ASSUME NEW d \in D, ~(d[1] > n)
      PROVE  /\ KeyTurn(s, d).push \in Body /\ KeyTurn(s, d).next \in D
             /\ KeyTurn(s, d).next[1] > d[1]
  <2>1. d[1] \in 1..n
    BY <1>1, <1>2, <1>3
  <2> HIDE DEF D, n
  <2>2. QED BY <1>2, <2>1, KeyTurnType DEF D, n
<1>4. \A i \in 1..n, b, k \in BOOLEAN : <<i, b, k>> \in D /\ ~(<<i, b, k>>[1] > n)
  BY <1>1 DEF KeyStates
<1>5. \A b, k \in BOOLEAN : <<n + 1, b, k>> \in D /\ <<n + 1, b, k>>[1] > n
  BY <1>1 DEF KeyStates
<1>6. <<>> \in Body
  BY EmptySeq DEF Body
<1> HIDE DEF D, n
<1>7. Loops(D, n, push, next)
  <2>1. push \in [D -> Body]
    BY <1>3, <1>6
  <2>2. next \in [D -> D]
    BY <1>3
  <2>3. ASSUME NEW d \in D, d[1] <= n PROVE next[d][1] > d[1]
    <3>1. ~(d[1] > n)
      BY <1>1, <1>2, <2>3
    <3>2. next[d] = KeyTurn(s, d).next
      BY <3>1
    <3> HIDE DEF next
    <3>3. QED BY <1>3, <3>1, <3>2
  <2> HIDE DEF push, next
  <2>4. \A d \in D : d[1] \in 1..(n + 1)
    BY <1>2
  <2>5. QED BY ONLY <1>1, <2>1, <2>2, <2>3, <2>4 DEF Loops
<1>8. \A d \in D : push[d] = IF d[1] > n THEN <<>> ELSE KeyTurn(s, d).push
  OBVIOUS
<1>9. \A d \in D : next[d] = IF d[1] > n THEN d ELSE KeyTurn(s, d).next
  OBVIOUS
<1> HIDE DEF push, next
<1>10. PICK f \in [D -> Body] : \A d \in D : f[d] = IF d[1] > n THEN <<>> ELSE push[d] \o f[next[d]]
  BY ONLY <1>7, LoopExists
<1>11. \A d \in D : f[d] = IF d[1] > n THEN <<>> ELSE KeyTurn(s, d).push \o f[KeyTurn(s, d).next]
  BY ONLY <1>8, <1>9, <1>10, Zenon
<1>12. IsKeys(f, s)
  <2>1. f = [d \in D |-> IF d[1] > n THEN <<>> ELSE KeyTurn(s, d).push \o f[KeyTurn(s, d).next]]
    BY ONLY <1>10, <1>11
  <2>2. QED BY ONLY <2>1, Zenon DEF IsKeys, D, n, KeyStates
<1> DEFINE g == KeysFrom(s)
<1>13. IsKeys(g, s)
  BY <1>12, KeysChosen
<1> HIDE DEF g
<1>14. \A d \in D : g[d] = IF d[1] > n THEN <<>> ELSE KeyTurn(s, d).push \o g[KeyTurn(s, d).next]
  BY ONLY <1>13, Zenon DEF IsKeys, D, n, KeyStates
<1>15. DOMAIN g = D /\ g = [d \in D |-> g[d]]
  BY ONLY <1>13 DEF IsKeys, D, n, KeyStates
<1>16. g \in [D -> Body]
  <2>1. \A d \in D : g[d] = IF d[1] > n THEN <<>> ELSE push[d] \o g[next[d]]
    BY ONLY <1>8, <1>9, <1>14, Zenon
  <2>2. \A d \in D : g[d] \in Body
    BY ONLY <1>7, <2>1, LoopType
  <2>3. QED BY ONLY <1>15, <2>2
<1>17. \A b, k \in BOOLEAN : g[<<n + 1, b, k>>] = <<>>
  BY ONLY <1>5, <1>14
<1>18. \A i \in 1..n, b, k \in BOOLEAN :
         g[<<i, b, k>>] = KeyTurn(s, <<i, b, k>>).push \o g[KeyTurn(s, <<i, b, k>>).next]
  BY ONLY <1>4, <1>14
<1>19. QED BY ONLY <1>16, <1>17, <1>18 DEF g, D, n

LEMMA EscapesAre ==
  ASSUME NEW s \in Body
  PROVE  /\ EscapesFrom(s) \in [EscapeStates(s) -> Body]
         /\ \A b \in BOOLEAN : EscapesFrom(s)[<<Len(s) + 1, b>>] = <<>>
         /\ \A i \in 1..Len(s), b \in BOOLEAN :
              EscapesFrom(s)[<<i, b>>] =
                EscapeTurn(s, <<i, b>>).push \o EscapesFrom(s)[EscapeTurn(s, <<i, b>>).next]
<1> DEFINE D == EscapeStates(s)
           n == Len(s)
           push == [d \in D |-> IF d[1] > n THEN <<>> ELSE EscapeTurn(s, d).push]
           next == [d \in D |-> IF d[1] > n THEN d ELSE EscapeTurn(s, d).next]
<1>1. n \in Nat /\ s \in Seq(Chars)
  BY TextPlaces DEF Body
<1>2. \A d \in D : /\ d[1] \in 1..(n + 1) /\ d[2] \in BOOLEAN
                   /\ d = <<d[1], d[2]>>
  BY DEF EscapeStates
<1>3. ASSUME NEW d \in D, ~(d[1] > n)
      PROVE  /\ EscapeTurn(s, d).push \in Body /\ EscapeTurn(s, d).next \in D
             /\ EscapeTurn(s, d).next[1] > d[1]
  <2>1. d[1] \in 1..n
    BY <1>1, <1>2, <1>3
  <2> HIDE DEF D, n
  <2>2. QED BY <1>2, <2>1, EscapeTurnType DEF D, n
<1>4. \A i \in 1..n, b \in BOOLEAN : <<i, b>> \in D /\ ~(<<i, b>>[1] > n)
  BY <1>1 DEF EscapeStates
<1>5. \A b \in BOOLEAN : <<n + 1, b>> \in D /\ <<n + 1, b>>[1] > n
  BY <1>1 DEF EscapeStates
<1>6. <<>> \in Body
  BY EmptySeq DEF Body
<1> HIDE DEF D, n
<1>7. Loops(D, n, push, next)
  <2>1. push \in [D -> Body]
    BY <1>3, <1>6
  <2>2. next \in [D -> D]
    BY <1>3
  <2>3. ASSUME NEW d \in D, d[1] <= n PROVE next[d][1] > d[1]
    <3>1. ~(d[1] > n)
      BY <1>1, <1>2, <2>3
    <3>2. next[d] = EscapeTurn(s, d).next
      BY <3>1
    <3> HIDE DEF next
    <3>3. QED BY <1>3, <3>1, <3>2
  <2> HIDE DEF push, next
  <2>4. \A d \in D : d[1] \in 1..(n + 1)
    BY <1>2
  <2>5. QED BY ONLY <1>1, <2>1, <2>2, <2>3, <2>4 DEF Loops
<1>8. \A d \in D : push[d] = IF d[1] > n THEN <<>> ELSE EscapeTurn(s, d).push
  OBVIOUS
<1>9. \A d \in D : next[d] = IF d[1] > n THEN d ELSE EscapeTurn(s, d).next
  OBVIOUS
<1> HIDE DEF push, next
<1>10. PICK f \in [D -> Body] : \A d \in D : f[d] = IF d[1] > n THEN <<>> ELSE push[d] \o f[next[d]]
  BY ONLY <1>7, LoopExists
<1>11. \A d \in D : f[d] = IF d[1] > n THEN <<>> ELSE EscapeTurn(s, d).push \o f[EscapeTurn(s, d).next]
  BY ONLY <1>8, <1>9, <1>10, Zenon
<1>12. IsEscapes(f, s)
  <2>1. f = [d \in D |-> IF d[1] > n THEN <<>> ELSE EscapeTurn(s, d).push \o f[EscapeTurn(s, d).next]]
    BY ONLY <1>10, <1>11
  <2>2. QED BY ONLY <2>1, Zenon DEF IsEscapes, D, n, EscapeStates
<1> DEFINE g == EscapesFrom(s)
<1>13. IsEscapes(g, s)
  BY <1>12, EscapesChosen
<1> HIDE DEF g
<1>14. \A d \in D : g[d] = IF d[1] > n THEN <<>> ELSE EscapeTurn(s, d).push \o g[EscapeTurn(s, d).next]
  BY ONLY <1>13, Zenon DEF IsEscapes, D, n, EscapeStates
<1>15. DOMAIN g = D /\ g = [d \in D |-> g[d]]
  BY ONLY <1>13 DEF IsEscapes, D, n, EscapeStates
<1>16. g \in [D -> Body]
  <2>1. \A d \in D : g[d] = IF d[1] > n THEN <<>> ELSE push[d] \o g[next[d]]
    BY ONLY <1>8, <1>9, <1>14, Zenon
  <2>2. \A d \in D : g[d] \in Body
    BY ONLY <1>7, <2>1, LoopType
  <2>3. QED BY ONLY <1>15, <2>2
<1>17. \A b \in BOOLEAN : g[<<n + 1, b>>] = <<>>
  BY ONLY <1>5, <1>14
<1>18. \A i \in 1..n, b \in BOOLEAN :
         g[<<i, b>>] = EscapeTurn(s, <<i, b>>).push \o g[EscapeTurn(s, <<i, b>>).next]
  BY ONLY <1>4, <1>14
<1>19. QED BY ONLY <1>16, <1>17, <1>18 DEF g, D, n

-----------------------------------------------------------------------------
(***************************************************************************)
(* What a text ends in, from k on.                                         *)
(***************************************************************************)
Behind(t, k, x) ==
  /\ k \in 1..(Len(t) + 1) /\ Len(t) = k - 1 + Len(x)
  /\ \A j \in 1..Len(x) : t[k - 1 + j] = x[j]

LEMMA BehindNothing ==
  ASSUME NEW t \in Body, NEW k
  PROVE  Behind(t, k, <<>>) <=> k = Len(t) + 1
<1>1. Len(t) \in Nat /\ Len(<<>>) = 0
  BY TextPlaces
<1>2. QED BY <1>1 DEF Behind

LEMMA BehindConcat ==
  ASSUME NEW t \in Body, NEW k \in Nat, k >= 1, NEW a \in Body, NEW x \in Body
  PROVE  Behind(t, k, a \o x) <=> /\ Behind(t, k + Len(a), x)
                                  /\ \A j \in 1..Len(a) : t[k - 1 + j] = a[j]
<1> DEFINE p == Len(a)
           q == Len(x)
           w == a \o x
           n == Len(t)
<1>1. n \in Nat /\ p \in Nat /\ q \in Nat
  BY TextPlaces
<1>2. Len(w) = p + q /\ (\A i \in 1..p : w[i] = a[i]) /\ (\A i \in 1..q : w[p + i] = x[i])
  BY ConcatPlaces DEF Body
<1> HIDE DEF p, q, w, n
<1>3. Behind(t, k, w) <=> k \in 1..(n + 1) /\ n = k - 1 + (p + q) /\ \A j \in 1..(p + q) : t[k - 1 + j] = w[j]
  BY <1>2 DEF Behind, n
<1>4. Behind(t, k + p, x) <=>
        k + p \in 1..(n + 1) /\ n = (k + p) - 1 + q /\ \A j \in 1..q : t[(k + p) - 1 + j] = x[j]
  BY DEF Behind, n, q
<1>5. (k \in 1..(n + 1) /\ n = k - 1 + (p + q)) <=> (k + p \in 1..(n + 1) /\ n = (k + p) - 1 + q)
  BY <1>1
<1>6. (\A j \in 1..(p + q) : t[k - 1 + j] = w[j]) <=>
        /\ \A j \in 1..q : t[(k + p) - 1 + j] = x[j]
        /\ \A j \in 1..p : t[k - 1 + j] = a[j]
  <2>1. ASSUME \A j \in 1..(p + q) : t[k - 1 + j] = w[j]
        PROVE  \A j \in 1..q : t[(k + p) - 1 + j] = x[j]
    <3> SUFFICES ASSUME NEW j \in 1..q PROVE t[(k + p) - 1 + j] = x[j]
      OBVIOUS
    <3>1. p + j \in 1..(p + q) /\ (k + p) - 1 + j = k - 1 + (p + j)
      BY <1>1
    <3>2. t[k - 1 + (p + j)] = w[p + j]
      BY <2>1, <3>1
    <3>3. QED BY <1>2, <3>1, <3>2
  <2>2. ASSUME \A j \in 1..(p + q) : t[k - 1 + j] = w[j]
        PROVE  \A j \in 1..p : t[k - 1 + j] = a[j]
    <3>1. \A j \in 1..p : j \in 1..(p + q)
      BY <1>1
    <3>2. QED BY <1>2, <2>2, <3>1
  <2>3. ASSUME \A j \in 1..q : t[(k + p) - 1 + j] = x[j], \A j \in 1..p : t[k - 1 + j] = a[j],
               NEW j \in 1..(p + q)
        PROVE  t[k - 1 + j] = w[j]
    <3>1. CASE j \in 1..p
      BY <1>2, <2>3, <3>1
    <3>2. CASE j \notin 1..p
      <4> DEFINE m == j - p
      <4>1. m \in 1..q /\ j = p + m /\ k - 1 + j = (k + p) - 1 + m
        BY <1>1, <3>2
      <4> HIDE DEF m
      <4>2. QED BY <1>2, <2>3, <4>1
    <3>3. QED BY <3>1, <3>2
  <2>4. QED BY <2>1, <2>2, <2>3
<1>7. QED BY ONLY <1>3, <1>4, <1>5, <1>6 DEF p, w

LEMMA BehindOne ==
  ASSUME NEW t \in Body, NEW k \in Nat, k >= 1, NEW c \in Chars, NEW x \in Body
  PROVE  Behind(t, k, <<c>> \o x) <=> k \in 1..Len(t) /\ t[k] = c /\ Behind(t, k + 1, x)
<1> DEFINE a == <<c>>
<1>0. a \in Body
  BY OneAndTwo
<1>1. Len(a) = 1 /\ a[1] = c
  OBVIOUS
<1> HIDE DEF a
<1>2. Behind(t, k, a \o x) <=> Behind(t, k + 1, x) /\ \A j \in 1..1 : t[k - 1 + j] = a[j]
  <2>1. Behind(t, k, a \o x) <=> Behind(t, k + Len(a), x) /\ \A j \in 1..Len(a) : t[k - 1 + j] = a[j]
    BY <1>0, BehindConcat
  <2>2. QED BY ONLY <1>1, <2>1, Zenon
<1>3. (\A j \in 1..1 : t[k - 1 + j] = a[j]) <=> t[k] = c
  <2>1. k - 1 + 1 = k /\ \A j : j \in 1..1 <=> j = 1
    OBVIOUS
  <2>2. QED BY <1>1, <2>1
<1>4. Behind(t, k + 1, x) => k \in 1..Len(t)
  <2>1. Len(t) \in Nat
    BY TextPlaces
  <2>2. QED BY <2>1 DEF Behind
<1>5. QED BY <1>2, <1>3, <1>4 DEF a

LEMMA BehindTwo ==
  ASSUME NEW t \in Body, NEW k \in Nat, k >= 1, NEW c \in Chars, NEW d \in Chars, NEW x \in Body
  PROVE  Behind(t, k, <<c, d>> \o x) <=>
           k \in 1..Len(t) /\ k < Len(t) /\ t[k] = c /\ t[k + 1] = d /\ Behind(t, k + 2, x)
<1> DEFINE a == <<c, d>>
<1>0. a \in Body
  BY OneAndTwo
<1>1. Len(a) = 2 /\ a[1] = c /\ a[2] = d
  OBVIOUS
<1> HIDE DEF a
<1>2. Behind(t, k, a \o x) <=> Behind(t, k + 2, x) /\ \A j \in 1..2 : t[k - 1 + j] = a[j]
  <2>1. Behind(t, k, a \o x) <=> Behind(t, k + Len(a), x) /\ \A j \in 1..Len(a) : t[k - 1 + j] = a[j]
    BY <1>0, BehindConcat
  <2>2. QED BY ONLY <1>1, <2>1, Zenon
<1>3. (\A j \in 1..2 : t[k - 1 + j] = a[j]) <=> t[k] = c /\ t[k + 1] = d
  <2>1. k - 1 + 1 = k /\ k - 1 + 2 = k + 1 /\ \A j : j \in 1..2 <=> j = 1 \/ j = 2
    OBVIOUS
  <2>2. QED BY <1>1, <2>1
<1>4. Behind(t, k + 2, x) => k \in 1..Len(t) /\ k < Len(t)
  <2>1. Len(t) \in Nat
    BY TextPlaces
  <2>2. QED BY <2>1 DEF Behind
<1>5. QED BY <1>2, <1>3, <1>4 DEF a

(* Two texts behind the same place are one *)
LEMMA BehindWhole ==
  ASSUME NEW t \in Body, NEW x \in Body, Behind(t, 1, x)
  PROVE  x = t
<1>1. Len(t) \in Nat /\ Len(x) \in Nat /\ t \in Seq(Chars) /\ x \in Seq(Chars)
  BY TextPlaces DEF Body
<1>2. Len(t) = Len(x) /\ \A j \in 1..Len(x) : t[j] = x[j]
  <2>1. Len(t) = 1 - 1 + Len(x) /\ \A j \in 1..Len(x) : t[1 - 1 + j] = x[j]
    BY DEF Behind
  <2>2. 1 - 1 + Len(x) = Len(x) /\ \A j \in 1..Len(x) : 1 - 1 + j = j
    BY <1>1
  <2>3. QED BY <2>1, <2>2
<1>3. QED BY ONLY <1>1, <1>2, SeqEqual

LEMMA WholeBehind ==
  ASSUME NEW t \in Body
  PROVE  Behind(t, 1, t)
<1>1. Len(t) \in Nat
  BY TextPlaces
<1>2. QED BY <1>1 DEF Behind

-----------------------------------------------------------------------------
(***************************************************************************)
(* Texts quote_bare_keys leaves alone.                                     *)
(***************************************************************************)

(* From k on, in this state, quote_bare_keys pushes what it reads *)
Copies(t, k, b, key) == Behind(t, k, KeysFrom(t)[<<k, b, key>>])

LEMMA StateTypes ==
  ASSUME NEW s \in Body, NEW i \in 1..(Len(s) + 1), NEW b \in BOOLEAN, NEW k \in BOOLEAN
  PROVE  /\ KeysFrom(s)[<<i, b, k>>] \in Body /\ EscapesFrom(s)[<<i, b>>] \in Body
         /\ \A c : InString(b, c) \in BOOLEAN /\ Expects(b, k, c) \in BOOLEAN
<1>1. <<i, b, k>> \in KeyStates(s) /\ <<i, b>> \in EscapeStates(s)
  BY DEF KeyStates, EscapeStates
<1>2. KeysFrom(s) \in [KeyStates(s) -> Body] /\ EscapesFrom(s) \in [EscapeStates(s) -> Body]
  BY KeysAre, EscapesAre
<1>3. \A c : InString(b, c) \in BOOLEAN /\ Expects(b, k, c) \in BOOLEAN
  BY DEF InString, Expects, OpensKey
<1>4. QED BY ONLY <1>1, <1>2, <1>3

LEMMA CopiesNothing ==
  ASSUME NEW t \in Body, NEW b \in BOOLEAN, NEW key \in BOOLEAN
  PROVE  Copies(t, Len(t) + 1, b, key)
  BY KeysAre, BehindNothing DEF Copies

(* One turn *)
LEMMA CopyOne ==
  ASSUME NEW t \in Body, NEW k \in 1..Len(t), NEW b \in BOOLEAN, NEW key \in BOOLEAN,
         ~(b /\ Escaped(t, k)), ~TakesKey(t, k, b, key)
  PROVE  Copies(t, k, b, key) <=>
           AsChar(t[k]) = t[k] /\ Copies(t, k + 1, InString(b, t[k]), Expects(b, key, t[k]))
<1> DEFINE b1 == InString(b, t[k])
           k1 == Expects(b, key, t[k])
           c  == AsChar(t[k])
           x  == KeysFrom(t)[<<k + 1, b1, k1>>]
<1>1. Len(t) \in Nat /\ k \in Nat /\ k >= 1 /\ k + 1 \in 1..(Len(t) + 1) /\ t[k] \in Chars
  BY TextPlaces
<1>2. c \in Chars
  BY <1>1, AsCharIs
<1>3. x \in Body
  BY <1>1, StateTypes
<1>4. KeysFrom(t)[<<k, b, key>>] = <<c>> \o x
  <2>1. KeysFrom(t)[<<k, b, key>>] = KeyTurn(t, <<k, b, key>>).push \o KeysFrom(t)[KeyTurn(t, <<k, b, key>>).next]
    BY KeysAre
  <2>2. KeyTurn(t, <<k, b, key>>).push = <<c>> /\ KeyTurn(t, <<k, b, key>>).next = <<k + 1, b1, k1>>
    BY KeyTurnIs
  <2> HIDE DEF c, b1, k1
  <2>3. QED BY ONLY <2>1, <2>2, Zenon DEF x
<1> HIDE DEF c, x, b1, k1
<1>5. Behind(t, k, <<c>> \o x) <=> k \in 1..Len(t) /\ t[k] = c /\ Behind(t, k + 1, x)
  BY <1>1, <1>2, <1>3, BehindOne
<1>6. Copies(t, k, b, key) <=> c = t[k] /\ Copies(t, k + 1, b1, k1)
  BY <1>4, <1>5, Zenon DEF Copies, x
<1>7. QED BY <1>6 DEF c, b1, k1

(* One escape *)
LEMMA CopyTwo ==
  ASSUME NEW t \in Body, NEW k \in 1..Len(t), NEW key \in BOOLEAN, Escaped(t, k)
  PROVE  Copies(t, k, TRUE, key) <=> AsChar(t[k + 1]) = t[k + 1] /\ Copies(t, k + 2, TRUE, key)
<1> DEFINE c  == AsChar(t[k + 1])
           x  == KeysFrom(t)[<<k + 2, TRUE, key>>]
<1>1. /\ Len(t) \in Nat /\ k \in Nat /\ k >= 1 /\ k < Len(t) /\ t[k] = Backslash
      /\ k + 1 \in 1..Len(t) /\ k + 2 \in 1..(Len(t) + 1)
  BY TextPlaces DEF Escaped
<1>2. c \in Chars /\ Backslash \in Chars
  BY <1>1, TextPlaces, AsCharIs, Classes
<1>3. x \in Body
  BY <1>1, StateTypes
<1>4. KeysFrom(t)[<<k, TRUE, key>>] = <<Backslash, c>> \o x
  <2>1. KeysFrom(t)[<<k, TRUE, key>>] =
          KeyTurn(t, <<k, TRUE, key>>).push \o KeysFrom(t)[KeyTurn(t, <<k, TRUE, key>>).next]
    BY KeysAre
  <2>2. KeyTurn(t, <<k, TRUE, key>>).push = <<Backslash, c>> /\ KeyTurn(t, <<k, TRUE, key>>).next = <<k + 2, TRUE, key>>
    BY KeyTurnIs
  <2> HIDE DEF c
  <2>3. QED BY ONLY <2>1, <2>2, Zenon DEF x
<1> HIDE DEF c, x
<1>5. Behind(t, k, <<Backslash, c>> \o x) <=>
        k \in 1..Len(t) /\ k < Len(t) /\ t[k] = Backslash /\ t[k + 1] = c /\ Behind(t, k + 2, x)
  BY <1>1, <1>2, <1>3, BehindTwo
<1>6. Copies(t, k, TRUE, key) <=> c = t[k + 1] /\ Copies(t, k + 2, TRUE, key)
  BY <1>1, <1>4, <1>5, Zenon DEF Copies, x
<1>7. QED BY <1>6 DEF c

(* The characters of what becomes of a key: its own, two quotes and a colon *)
LEMMA KeyWordIs ==
  ASSUME NEW s \in Body, NEW i \in 1..Len(s), s[i] \in Letters, KeyAt(s, i),
         NEW end, end = KeyEnd(s, i), NEW sep, sep = KeySep(s, i),
         NEW w, w = KeyWord(s, i)
  PROVE  /\ w \in Body /\ Len(w) = sep - i + 3
         /\ w[1] = Quote /\ w[end - i + 2] = Quote /\ w[sep - i + 3] = Colon
         /\ \A m \in i..(end - 1) : w[m - i + 2] = s[m]
         /\ \A m \in end..(sep - 1) : w[m - i + 3] = s[m]
<1> DEFINE id == SubSeq(s, i, end - 1)
           bl == SubSeq(s, end, sep - 1)
           w1 == <<Quote>> \o id
           w2 == w1 \o <<Quote>>
           w3 == w2 \o bl
           w4 == w3 \o <<Colon>>
<1>1. Len(s) \in Nat /\ i \in Nat /\ i >= 1 /\ s \in Seq(Chars) /\ \A j \in 1..Len(s) : s[j] \in Chars
  BY TextPlaces DEF Body
<1>2. end \in (i + 1)..(Len(s) + 1) /\ sep \in end..(Len(s) + 1) /\ sep <= Len(s)
  BY KeyPlaces
<1>3. end \in Nat /\ sep \in Nat /\ i <= end /\ end <= sep
  BY <1>1, <1>2
<1>4. id \in Seq(Chars) /\ Len(id) = end - i /\ \A m \in i..(end - 1) : id[m - i + 1] = s[m]
  <2>1. \A m \in i..(end - 1) : s[m] \in Chars
    BY <1>1, <1>2, <1>3
  <2>2. id \in Seq(Chars) /\ Len(id) = end - i
    BY <1>1, <1>3, <2>1, SubSeqProperties
  <2>3. \A j \in 1..Len(id) : id[j] = s[i + j - 1]
    BY <1>1, <1>3, <2>2, SubSeqProperties
  <2>4. \A m \in i..(end - 1) : m - i + 1 \in 1..(end - i) /\ i + (m - i + 1) - 1 = m
    BY <1>1, <1>3
  <2> HIDE DEF id
  <2>5. QED BY <2>2, <2>3, <2>4
<1>5. bl \in Seq(Chars) /\ Len(bl) = sep - end /\ \A m \in end..(sep - 1) : bl[m - end + 1] = s[m]
  <2>1. \A m \in end..(sep - 1) : s[m] \in Chars
    BY <1>1, <1>2, <1>3
  <2>2. bl \in Seq(Chars) /\ Len(bl) = sep - end
    BY <1>1, <1>3, <2>1, SubSeqProperties
  <2>3. \A j \in 1..(sep - end) : bl[j] = s[end + j - 1]
    <3> DEFINE last == sep - 1
    <3>1. last - end + 1 = sep - end /\ last \in Int /\ end \in Int
      BY <1>3
    <3> HIDE DEF last
    <3>2. \A j \in 1..(last - end + 1) : SubSeq(s, end, last)[j] = s[end + j - 1]
      <4>1. \A m \in end..last : s[m] \in Chars
        BY <2>1 DEF last
      <4>2. QED BY ONLY <3>1, <4>1, SubSeqProperties
    <3>3. QED BY ONLY <3>1, <3>2 DEF last
  <2>4. \A m \in end..(sep - 1) : m - end + 1 \in 1..(sep - end) /\ end + (m - end + 1) - 1 = m
    BY <1>1, <1>3
  <2> HIDE DEF bl
  <2>5. QED BY <2>2, <2>3, <2>4
<1>6. /\ <<Quote>> \in Seq(Chars) /\ Len(<<Quote>>) = 1 /\ <<Quote>>[1] = Quote
      /\ <<Colon>> \in Seq(Chars) /\ Len(<<Colon>>) = 1 /\ <<Colon>>[1] = Colon
  BY Classes
<1>7. w = w4
  BY DEF KeyWord
<1> HIDE DEF id, bl
<1>8. /\ w1 \in Seq(Chars) /\ Len(w1) = 1 + (end - i) /\ w1[1] = Quote
      /\ \A j \in 1..(end - i) : w1[1 + j] = id[j]
  <2>1. \A j \in 1..1 : w1[j] = <<Quote>>[j]
    BY <1>4, <1>6, ConcatPlaces
  <2>2. w1 \in Seq(Chars) /\ Len(w1) = 1 + (end - i) /\ \A j \in 1..(end - i) : w1[1 + j] = id[j]
    BY <1>4, <1>6, ConcatPlaces
  <2>3. 1 \in 1..1
    OBVIOUS
  <2> HIDE DEF w1
  <2>4. QED BY <1>6, <2>1, <2>2, <2>3
<1> HIDE DEF w1
<1>9. /\ w2 \in Seq(Chars) /\ Len(w2) = 2 + (end - i) /\ w2[2 + (end - i)] = Quote
      /\ \A j \in 1..(1 + (end - i)) : w2[j] = w1[j]
  <2>1. /\ w2 \in Seq(Chars) /\ Len(w2) = 1 + (end - i) + 1
        /\ \A j \in 1..(1 + (end - i)) : w2[j] = w1[j]
        /\ \A j \in 1..1 : w2[1 + (end - i) + j] = <<Quote>>[j]
    BY <1>6, <1>8, ConcatPlaces
  <2>2. 1 + (end - i) + 1 = 2 + (end - i) /\ 1 \in 1..1
    BY <1>1, <1>3
  <2> HIDE DEF w2
  <2>3. QED BY <1>6, <2>1, <2>2
<1> HIDE DEF w2
<1>10. /\ w3 \in Seq(Chars) /\ Len(w3) = 2 + (end - i) + (sep - end)
       /\ \A j \in 1..(2 + (end - i)) : w3[j] = w2[j]
       /\ \A j \in 1..(sep - end) : w3[2 + (end - i) + j] = bl[j]
  <2>1. /\ w3 \in Seq(Chars) /\ Len(w3) = Len(w2) + Len(bl)
        /\ \A j \in 1..Len(w2) : w3[j] = w2[j]
        /\ \A j \in 1..Len(bl) : w3[Len(w2) + j] = bl[j]
    <3>1. w2 \in Seq(Chars) /\ bl \in Seq(Chars)
      BY <1>5, <1>9
    <3>2. QED BY ONLY <3>1, ConcatPlaces
  <2> HIDE DEF w3
  <2>2. QED BY ONLY <1>5, <1>9, <2>1
<1> HIDE DEF w3
<1>11. /\ w4 \in Seq(Chars) /\ Len(w4) = sep - i + 3 /\ w4[sep - i + 3] = Colon
       /\ \A j \in 1..(sep - i + 2) : w4[j] = w3[j]
  <2>1. 2 + (end - i) + (sep - end) = sep - i + 2 /\ sep - i + 2 + 1 = sep - i + 3 /\ 1 \in 1..1
    BY <1>1, <1>3
  <2>2. Len(w3) = sep - i + 2
    BY <1>10, <2>1
  <2>3. /\ w4 \in Seq(Chars) /\ Len(w4) = sep - i + 2 + 1
        /\ \A j \in 1..(sep - i + 2) : w4[j] = w3[j]
        /\ \A j \in 1..1 : w4[sep - i + 2 + j] = <<Colon>>[j]
    BY <1>6, <1>10, <2>2, ConcatPlaces
  <2> HIDE DEF w4
  <2>4. QED BY <1>6, <2>1, <2>3
<1> HIDE DEF w4
<1>12. 1 \in 1..(sep - i + 2) /\ 1 \in 1..(2 + (end - i)) /\ 1 \in 1..(1 + (end - i))
  BY <1>1, <1>3
<1>13. w[1] = Quote
  BY <1>7, <1>8, <1>9, <1>10, <1>11, <1>12
<1>14. w[end - i + 2] = Quote
  <2>1. end - i + 2 = 2 + (end - i) /\ 2 + (end - i) \in 1..(2 + (end - i)) /\ 2 + (end - i) \in 1..(sep - i + 2)
    BY <1>1, <1>3
  <2>2. QED BY <1>7, <1>9, <1>10, <1>11, <2>1
<1>15. ASSUME NEW m \in i..(end - 1) PROVE w[m - i + 2] = s[m]
  <2>1. /\ m - i + 2 = 1 + (m - i + 1) /\ m - i + 1 \in 1..(end - i)
        /\ m - i + 2 \in 1..(sep - i + 2) /\ m - i + 2 \in 1..(2 + (end - i)) /\ m - i + 2 \in 1..(1 + (end - i))
    BY <1>1, <1>3
  <2>2. w[m - i + 2] = w1[m - i + 2]
    <3> DEFINE p == m - i + 2
    <3>1. p \in 1..(sep - i + 2) /\ p \in 1..(2 + (end - i)) /\ p \in 1..(1 + (end - i))
      BY <2>1
    <3> HIDE DEF p
    <3>2. w4[p] = w3[p] /\ w3[p] = w2[p] /\ w2[p] = w1[p]
      BY ONLY <1>9, <1>10, <1>11, <3>1, Zenon
    <3>3. QED BY ONLY <1>7, <3>2, Zenon DEF p
  <2>3. w1[1 + (m - i + 1)] = id[m - i + 1]
    BY <1>8, <2>1
  <2>4. QED BY <1>4, <2>1, <2>2, <2>3
<1>16. ASSUME NEW m \in end..(sep - 1) PROVE w[m - i + 3] = s[m]
  <2>1. /\ m - i + 3 = 2 + (end - i) + (m - end + 1) /\ m - end + 1 \in 1..(sep - end)
        /\ m - i + 3 \in 1..(sep - i + 2)
    BY ONLY <1>1, <1>3, m \in end..(sep - 1)
  <2>2. w[m - i + 3] = w3[m - i + 3]
    BY <1>7, <1>11, <2>1
  <2>3. w3[2 + (end - i) + (m - end + 1)] = bl[m - end + 1]
    BY <1>10, <2>1
  <2>4. QED BY <1>5, <2>1, <2>2, <2>3
<1>17. QED BY <1>7, <1>11, <1>13, <1>14, <1>15, <1>16 DEF Body

(* Where it copies, no key is taken: its place would become a quote *)
LEMMA CopiesNoKey ==
  ASSUME NEW t \in Body, NEW k \in 1..Len(t), NEW b \in BOOLEAN, NEW key \in BOOLEAN,
         Copies(t, k, b, key)
  PROVE  ~TakesKey(t, k, b, key)
<1> SUFFICES ASSUME TakesKey(t, k, b, key) PROVE FALSE
  OBVIOUS
<1> DEFINE w == KeyWord(t, k)
           x == KeysFrom(t)[<<KeySep(t, k) + 1, FALSE, FALSE>>]
<1>1. Len(t) \in Nat /\ k \in Nat /\ k >= 1 /\ t[k] \in Letters /\ KeyAt(t, k)
  BY TextPlaces DEF TakesKey
<1>2. KeySep(t, k) + 1 \in 1..(Len(t) + 1) /\ KeySep(t, k) - k \in Nat
  <2>1. KeyEnd(t, k) \in (k + 1)..(Len(t) + 1) /\ KeySep(t, k) \in KeyEnd(t, k)..(Len(t) + 1) /\ KeySep(t, k) <= Len(t)
    BY <1>1, KeyPlaces
  <2>2. QED BY <1>1, <2>1
<1>3. w \in Body /\ Len(w) = KeySep(t, k) - k + 3 /\ w[1] = Quote
  BY <1>1, KeyWordIs
<1>4. x \in Body
  BY <1>2, StateTypes
<1>5. KeysFrom(t)[<<k, b, key>>] = w \o x
  <2>1. KeysFrom(t)[<<k, b, key>>] = KeyTurn(t, <<k, b, key>>).push \o KeysFrom(t)[KeyTurn(t, <<k, b, key>>).next]
    BY KeysAre
  <2>2. KeyTurn(t, <<k, b, key>>).push = w /\ KeyTurn(t, <<k, b, key>>).next = <<KeySep(t, k) + 1, FALSE, FALSE>>
    BY KeyTurnIs
  <2> HIDE DEF w
  <2>3. QED BY ONLY <2>1, <2>2, Zenon DEF x
<1> HIDE DEF w, x
<1>6. Behind(t, k, w \o x)
  BY <1>5 DEF Copies
<1>7. \A j \in 1..Len(w) : t[k - 1 + j] = w[j]
  BY <1>1, <1>3, <1>4, <1>6, BehindConcat
<1>8. 1 \in 1..Len(w) /\ k - 1 + 1 = k
  BY <1>1, <1>2, <1>3
<1>9. t[k] = Quote
  BY <1>3, <1>7, <1>8
<1>10. QED BY <1>1, <1>9, Classes

(* A stretch that holds neither a quote nor a sign of structure *)
LEMMA CopyRun ==
  ASSUME NEW t \in Body, NEW i \in 1..(Len(t) + 1), NEW j \in i..(Len(t) + 1), NEW b \in BOOLEAN,
         \A m \in i..(j - 1) : t[m] \in Identifier \cup Blank,
         Copies(t, j, b, FALSE)
  PROVE  Copies(t, i, b, FALSE)
<1> DEFINE Done(d) == Copies(t, j - d, b, FALSE)
           T == {d \in Nat : d <= j - i => Done(d)}
<1>1. Len(t) \in Nat /\ i \in Nat /\ j \in Nat /\ 1 <= i /\ i <= j /\ j <= Len(t) + 1
  BY TextPlaces
<1>2. 0 \in T
  <2>1. j - 0 = j
    BY <1>1
  <2>2. Done(0)
    BY ONLY <2>1, Copies(t, j, b, FALSE), Zenon
  <2> HIDE DEF Done
  <2>3. QED BY <2>2
<1>3. ASSUME NEW d \in Nat, d \in T PROVE d + 1 \in T
  <2> SUFFICES ASSUME d + 1 <= j - i PROVE Done(d + 1)
    <3> HIDE DEF Done
    <3>1. QED OBVIOUS
  <2>0. d <= j - i => Done(d)
    <3> HIDE DEF Done
    <3>1. QED BY <1>3
  <2> DEFINE k == j - (d + 1)
  <2>1. k \in i..(j - 1) /\ k + 1 = j - d /\ d <= j - i /\ k \in 1..Len(t)
    BY <1>1
  <2>2. Copies(t, k + 1, b, FALSE)
    <3>1. Copies(t, j - d, b, FALSE)
      BY <2>0, <2>1
    <3> HIDE DEF k
    <3>2. QED BY ONLY <2>1, <3>1, Zenon
  <2> HIDE DEF k
  <2>3. t[k] \in Identifier \cup Blank
    BY <2>1
  <2>4. t[k] # Quote /\ t[k] # Backslash /\ AsChar(t[k]) = t[k] /\ t[k] \in Chars
    BY <2>3, AsCharIs, Classes
  <2>5. ~OpensKey(t[k])
    <3>1. \A c \in Chars : OpensKey(c) => c \notin Blank /\ c \notin Identifier
      BY Zenon DEF OpensKey, Identifier, Letters, Blank
    <3>2. QED BY <2>3, <2>4, <3>1
  <2>6. ~Escaped(t, k) /\ ~TakesKey(t, k, b, FALSE)
    BY <2>4 DEF Escaped, TakesKey
  <2>7. InString(b, t[k]) = b /\ Expects(b, FALSE, t[k]) = FALSE
    BY <2>4, <2>5 DEF InString, Expects
  <2>8. Copies(t, k + 1, InString(b, t[k]), Expects(b, FALSE, t[k]))
    BY ONLY <2>2, <2>7, Zenon
  <2>9. Copies(t, k, b, FALSE)
    BY <2>1, <2>4, <2>6, <2>8, CopyOne
  <2>10. QED BY <2>9 DEF k
<1>4. Nat \subseteq T
  <2> HIDE DEF T
  <2>1. QED BY ONLY <1>2, <1>3, SetInduction
<1>5. j - i \in Nat /\ j - (j - i) = i
  BY <1>1
<1>6. Done(j - i)
  <2> HIDE DEF Done
  <2>1. QED BY <1>4, <1>5 DEF T
<1>7. QED BY ONLY <1>5, <1>6, Zenon DEF Done

(* What became of a key is no longer touched *)
LEMMA CopyKey ==
  ASSUME NEW s \in Body, NEW i \in 1..Len(s), s[i] \in Letters, KeyAt(s, i),
         NEW t \in Body, NEW k \in Nat, k >= 1, NEW key \in BOOLEAN,
         NEW w, w = KeyWord(s, i), \A j \in 1..Len(w) : t[k - 1 + j] = w[j],
         k + Len(w) <= Len(t) + 1,
         Copies(t, k + Len(w), FALSE, FALSE)
  PROVE  Copies(t, k, FALSE, key)
<1> DEFINE end == KeyEnd(s, i)
           sep == KeySep(s, i)
           a == k + 1 + (end - i)   \* the quote behind the key
           z == k + 2 + (sep - i)   \* the colon
<1>1. Len(s) \in Nat /\ i \in Nat /\ Len(t) \in Nat /\ \A j \in 1..Len(t) : t[j] \in Chars
  BY TextPlaces
<1>2. /\ end \in (i + 1)..(Len(s) + 1) /\ sep \in end..(Len(s) + 1)
      /\ \A m \in i..(end - 1) : s[m] \in Identifier
      /\ \A m \in end..(sep - 1) : s[m] \in Blank
  BY KeyPlaces
<1>3. /\ Len(w) = sep - i + 3
      /\ w[1] = Quote /\ w[end - i + 2] = Quote /\ w[sep - i + 3] = Colon
      /\ \A m \in i..(end - 1) : w[m - i + 2] = s[m]
      /\ \A m \in end..(sep - 1) : w[m - i + 3] = s[m]
  <2>1. end = KeyEnd(s, i) /\ sep = KeySep(s, i)
    OBVIOUS
  <2> HIDE DEF end, sep
  <2>2. QED BY ONLY <2>1, s \in Body, i \in 1..Len(s), s[i] \in Letters, KeyAt(s, i), w = KeyWord(s, i),
                    KeyWordIs
<1> HIDE DEF end, sep
<1>4. end \in Nat /\ sep \in Nat /\ i + 1 <= end /\ end <= sep
  BY <1>1, <1>2
<1>5. a \in Nat /\ z \in Nat /\ k < a /\ a < z /\ z <= Len(t) /\ z + 1 = k + Len(w)
  BY <1>1, <1>3, <1>4
<1>6. t[k] = Quote
  <2>1. 1 \in 1..Len(w) /\ k - 1 + 1 = k
    BY <1>3, <1>4
  <2>2. t[k - 1 + 1] = w[1]
    BY <2>1
  <2>3. QED BY ONLY <1>3, <2>1, <2>2
<1>7. t[a] = Quote
  <2>1. end - i + 2 \in 1..Len(w) /\ k - 1 + (end - i + 2) = a
    BY <1>1, <1>3, <1>4
  <2>2. t[k - 1 + (end - i + 2)] = w[end - i + 2]
    BY <2>1
  <2> HIDE DEF a
  <2>3. QED BY ONLY <1>3, <2>1, <2>2
<1>8. t[z] = Colon
  <2>1. sep - i + 3 \in 1..Len(w) /\ k - 1 + (sep - i + 3) = z
    BY <1>1, <1>3, <1>4
  <2>2. t[k - 1 + (sep - i + 3)] = w[sep - i + 3]
    BY <2>1
  <2> HIDE DEF z
  <2>3. QED BY ONLY <1>3, <2>1, <2>2
<1>9. ASSUME NEW q \in (k + 1)..(a - 1) PROVE t[q] \in Identifier
  <2> DEFINE m == q - k - 1 + i
             j == m - i + 2
  <2>1. m \in i..(end - 1) /\ j \in 1..Len(w) /\ k - 1 + j = q
    <3>1. /\ q \in Int /\ k + 1 <= q /\ q <= k + 1 + (end - i) - 1 /\ i <= end /\ end <= sep
          /\ i \in Int /\ k \in Int /\ end \in Int /\ sep \in Int /\ Len(w) = sep - i + 3
      BY <1>1, <1>3, <1>4
    <3>2. QED BY ONLY <3>1
  <2>2. s[m] \in Identifier /\ w[j] = s[m]
    BY <1>2, <1>3, <2>1
  <2> HIDE DEF m, j
  <2>3. t[k - 1 + j] = w[j]
    BY <2>1
  <2>4. QED BY ONLY <2>1, <2>2, <2>3
<1>10. ASSUME NEW q \in (a + 1)..(z - 1) PROVE t[q] \in Blank
  <2> DEFINE m == q - k - 2 + i
             j == m - i + 3
  <2>1. m \in end..(sep - 1) /\ j \in 1..Len(w) /\ k - 1 + j = q
    <3>1. /\ q \in Int /\ k + 1 + (end - i) + 1 <= q /\ q <= k + 2 + (sep - i) - 1
          /\ i \in Int /\ k \in Int /\ end \in Int /\ sep \in Int /\ i <= end /\ Len(w) = sep - i + 3
      BY <1>1, <1>3, <1>4
    <3>2. QED BY ONLY <3>1
  <2>2. s[m] \in Blank /\ w[j] = s[m]
    BY <1>2, <1>3, <2>1
  <2> HIDE DEF m, j
  <2>3. t[k - 1 + j] = w[j]
    BY <2>1
  <2>4. QED BY ONLY <2>1, <2>2, <2>3
<1>11. Copies(t, z + 1, FALSE, FALSE)
  BY <1>5
<1> HIDE DEF a, z
<1>12. k \in 1..Len(t) /\ a \in 1..Len(t) /\ z \in 1..Len(t)
  BY <1>1, <1>5
<1>13. AsChar(Quote) = Quote /\ AsChar(Colon) = Colon /\ Colon # Quote /\ Colon \notin Blank
       /\ ~OpensKey(Quote) /\ ~OpensKey(Colon) /\ Quote \notin Blank /\ Quote \notin Letters /\ Quote # Backslash
  BY AsCharIs, SignsAre, Classes
<1>14. Copies(t, z, FALSE, FALSE)
  <2>1. ~(FALSE /\ Escaped(t, z)) /\ ~TakesKey(t, z, FALSE, FALSE)
    BY DEF TakesKey
  <2>2. InString(FALSE, t[z]) = FALSE /\ Expects(FALSE, FALSE, t[z]) = FALSE
    BY <1>8, <1>13 DEF InString, Expects
  <2>3. Copies(t, z + 1, InString(FALSE, t[z]), Expects(FALSE, FALSE, t[z]))
    BY ONLY <1>11, <2>2, Zenon
  <2>4. QED BY <1>8, <1>12, <1>13, <2>1, <2>3, CopyOne
<1>15. Copies(t, a + 1, FALSE, FALSE)
  <2>1. a + 1 \in 1..(Len(t) + 1) /\ z \in (a + 1)..(Len(t) + 1)
    BY <1>1, <1>5
  <2>2. \A m \in (a + 1)..(z - 1) : t[m] \in Identifier \cup Blank
    BY <1>10
  <2>3. QED BY ONLY t \in Body, <1>14, <2>1, <2>2, CopyRun
<1>16. Copies(t, a, TRUE, FALSE)
  <2>1. ~(TRUE /\ Escaped(t, a)) /\ ~TakesKey(t, a, TRUE, FALSE)
    BY <1>7, <1>13 DEF TakesKey, Escaped
  <2>2. InString(TRUE, t[a]) = FALSE /\ Expects(TRUE, FALSE, t[a]) = FALSE
    BY <1>7 DEF InString, Expects
  <2>3. Copies(t, a + 1, InString(TRUE, t[a]), Expects(TRUE, FALSE, t[a]))
    BY ONLY <1>15, <2>2, Zenon
  <2>4. QED BY <1>7, <1>12, <1>13, <2>1, <2>3, CopyOne
<1>17. Copies(t, k + 1, TRUE, FALSE)
  <2>1. k + 1 \in 1..(Len(t) + 1) /\ a \in (k + 1)..(Len(t) + 1)
    BY <1>1, <1>5
  <2>2. \A m \in (k + 1)..(a - 1) : t[m] \in Identifier \cup Blank
    BY <1>9
  <2>3. QED BY ONLY t \in Body, <1>16, <2>1, <2>2, CopyRun
<1>18. QED
  <2>1. ~(FALSE /\ Escaped(t, k)) /\ ~TakesKey(t, k, FALSE, key)
    BY <1>6, <1>13 DEF TakesKey
  <2>2. InString(FALSE, t[k]) = TRUE /\ Expects(FALSE, key, t[k]) = FALSE
    BY <1>6, <1>13 DEF InString, Expects
  <2>3. Copies(t, k + 1, InString(FALSE, t[k]), Expects(FALSE, key, t[k]))
    BY ONLY <1>17, <2>2, Zenon
  <2>4. QED BY <1>6, <1>12, <1>13, <2>1, <2>3, CopyOne

(* A text that carries, from k on, what a scanner made of s from i up to    *)
(* the character at sep: out[j] is what it makes of s from j on             *)
Carries(out, s, i, sep) ==
  /\ \A j \in i..sep : out[j] \in Body
  /\ \A j \in i..(sep - 1) : out[j] = <<s[j]>> \o out[j + 1]
  /\ sep = Len(s) + 1 => out[sep] = <<>>
  /\ sep <= Len(s) => \E x \in Body : out[sep] = <<AsChar(s[sep])>> \o x

LEMMA CarriesIs ==
  ASSUME NEW s \in Body, NEW i \in 1..(Len(s) + 1), NEW sep \in i..(Len(s) + 1),
         NEW out, Carries(out, s, i, sep),
         NEW t \in Body, NEW k \in Nat, k >= 1, Behind(t, k, out[i])
  PROVE  /\ \A j \in i..(sep - 1) : At(t, k + (j - i)) = s[j]
         /\ At(t, k + (sep - i)) = AsChar(At(s, sep))
<1> DEFINE Done(d) == Behind(t, k + d, out[i + d])
           T == {d \in Nat : d <= sep - i => Done(d)}
<1>1. /\ Len(s) \in Nat /\ i \in Nat /\ sep \in Nat /\ Len(t) \in Nat
      /\ \A j \in 1..Len(s) : At(s, j) = s[j] /\ s[j] \in Chars
      /\ \A j \in 1..Len(t) : At(t, j) = t[j]
      /\ At(s, Len(s) + 1) = Nil /\ At(t, Len(t) + 1) = Nil
  BY TextPlaces
<1>2. /\ \A j \in i..sep : out[j] \in Body
      /\ \A j \in i..(sep - 1) : out[j] = <<s[j]>> \o out[j + 1]
      /\ sep = Len(s) + 1 => out[sep] = <<>>
      /\ sep <= Len(s) => \E x \in Body : out[sep] = <<AsChar(s[sep])>> \o x
  BY DEF Carries
<1>3. 0 \in T
  <2>1. k + 0 = k /\ i + 0 = i
    BY <1>1
  <2>2. Done(0)
    BY ONLY <2>1, Behind(t, k, out[i]), Zenon
  <2> HIDE DEF Done
  <2>3. QED BY <2>2
<1>4. ASSUME NEW d \in Nat, d + 1 <= sep - i, Done(d)
      PROVE  Done(d + 1) /\ k + d \in 1..Len(t) /\ t[k + d] = s[i + d]
  <2> DEFINE j == i + d
             p == k + d
             x == out[j + 1]
  <2>1. j \in i..(sep - 1) /\ j \in 1..Len(s) /\ j + 1 \in i..sep /\ p \in Nat /\ p >= 1
    BY <1>1, <1>4
  <2>2. j + 1 = i + (d + 1) /\ p + 1 = k + (d + 1)
    BY <1>1
  <2>3. Behind(t, p, out[j])
    BY <1>4
  <2> HIDE DEF j, p
  <2>4. out[j] = <<s[j]>> \o x /\ x \in Body /\ s[j] \in Chars
    BY <1>1, <1>2, <2>1
  <2> HIDE DEF x
  <2>5. Behind(t, p, <<s[j]>> \o x)
    BY ONLY <2>3, <2>4, Zenon
  <2>6. p \in 1..Len(t) /\ t[p] = s[j] /\ Behind(t, p + 1, x)
    BY <2>1, <2>4, <2>5, BehindOne
  <2>7. Done(d + 1)
    BY ONLY <2>2, <2>6, Zenon DEF x
  <2>8. QED BY ONLY <2>6, <2>7 DEF j, p
<1>5. ASSUME NEW d \in Nat, d \in T PROVE d + 1 \in T
  <2> SUFFICES ASSUME d + 1 <= sep - i PROVE Done(d + 1)
    <3> HIDE DEF Done
    <3>1. QED OBVIOUS
  <2>1. d <= sep - i
    BY <1>1
  <2>2. Done(d)
    <3> HIDE DEF Done
    <3>1. QED BY <1>5, <2>1
  <2>3. QED BY ONLY <1>4, <2>2, d \in Nat, d + 1 <= sep - i
<1> HIDE DEF Done
<1>6. Nat \subseteq T
  <2> HIDE DEF T
  <2>1. QED BY ONLY <1>3, <1>5, SetInduction
<1>7. \A d \in Nat : d <= sep - i => Done(d)
  BY <1>6
<1>8. ASSUME NEW j \in i..(sep - 1) PROVE At(t, k + (j - i)) = s[j]
  <2> DEFINE d == j - i
  <2>1. d \in Nat /\ d + 1 <= sep - i /\ d <= sep - i /\ i + d = j
    BY <1>1
  <2> HIDE DEF d
  <2>2. k + d \in 1..Len(t) /\ t[k + d] = s[i + d]
    BY <1>4, <1>7, <2>1
  <2>3. At(t, k + d) = s[j]
    BY <1>1, <2>1, <2>2
  <2>4. QED BY <2>3 DEF d
<1>9. At(t, k + (sep - i)) = AsChar(At(s, sep))
  <2> DEFINE d == sep - i
             p == k + d
  <2>1. d \in Nat /\ d <= sep - i /\ i + d = sep
    BY <1>1
  <2>2. Done(d)
    BY <1>7, <2>1
  <2> HIDE DEF d
  <2>3. p \in Nat /\ p >= 1
    BY <2>1
  <2>4. Behind(t, p, out[sep])
    BY ONLY <2>1, <2>2, Zenon DEF Done, p
  <2> HIDE DEF p
  <2>5. CASE sep = Len(s) + 1
    <3>1. Behind(t, p, <<>>)
      BY ONLY <1>2, <2>4, <2>5
    <3>2. p = Len(t) + 1
      BY <3>1, BehindNothing
    <3>3. QED BY <1>1, <2>5, <3>2, AsCharIs DEF p, d
  <2>6. CASE sep <= Len(s)
    <3>1. sep \in 1..Len(s)
      BY <1>1, <2>6
    <3>2. PICK x \in Body : out[sep] = <<AsChar(s[sep])>> \o x
      BY <1>2, <2>6
    <3>3. AsChar(s[sep]) \in Chars
      BY <1>1, <3>1, AsCharIs
    <3>4. Behind(t, p, <<AsChar(s[sep])>> \o x)
      BY ONLY <2>4, <3>2, Zenon
    <3>5. p \in 1..Len(t) /\ t[p] = AsChar(s[sep])
      BY <2>3, <3>2, <3>3, <3>4, BehindOne
    <3>6. QED BY <1>1, <3>1, <3>5 DEF p, d
  <2>7. QED BY <1>1, <2>5, <2>6
<1>10. QED BY <1>8, <1>9

(* Where what a scanner made of s begins with the same identifier, it is no *)
(* key either                                                               *)
LEMMA StillNoKey ==
  ASSUME NEW s \in Body, NEW i \in 1..Len(s), s[i] \in Letters, ~KeyAt(s, i),
         NEW t \in Body, NEW k \in Nat, k >= 1,
         \A j \in i..(KeySep(s, i) - 1) : At(t, k + (j - i)) = s[j],
         At(t, k + (KeySep(s, i) - i)) = AsChar(At(s, KeySep(s, i)))
  PROVE  ~KeyAt(t, k)
<1> DEFINE end == KeyEnd(s, i)
           sep == KeySep(s, i)
           e2 == k + (end - i)
           s2 == k + (sep - i)
<1>1. /\ Len(s) \in Nat /\ i \in Nat /\ Len(t) \in Nat
      /\ \A j : At(t, j) # Nil => j \in 1..Len(t)
      /\ \A j \in 1..Len(s) : At(s, j) = s[j] /\ s[j] \in Chars
      /\ At(s, Len(s) + 1) = Nil
  BY TextPlaces
<1>2. /\ end \in (i + 1)..(Len(s) + 1) /\ sep \in end..(Len(s) + 1)
      /\ \A m \in i..(end - 1) : m \in 1..Len(s) /\ s[m] \in Identifier
      /\ At(s, end) \notin Identifier
      /\ \A m \in end..(sep - 1) : m \in 1..Len(s) /\ s[m] \in Blank
      /\ At(s, sep) \notin Blank
  BY KeyPlaces
<1>3. ~EndsKey(At(s, sep))
  BY DEF KeyAt
<1> HIDE DEF end
<1>4. (\A j \in i..(sep - 1) : At(t, k + (j - i)) = s[j]) /\ At(t, s2) = AsChar(At(s, sep))
  OBVIOUS
<1> HIDE DEF sep
<1>5. end \in Nat /\ sep \in Nat /\ i + 1 <= end /\ end <= sep /\ sep <= Len(s) + 1
  BY <1>1, <1>2
<1>6. At(s, sep) \in Chars \/ At(s, sep) = Nil
  <2>1. sep = Len(s) + 1 \/ sep \in 1..Len(s)
    BY <1>1, <1>5
  <2>2. QED BY <1>1, <2>1
<1>7. /\ At(t, s2) \notin Blank /\ ~EndsKey(At(t, s2))
      /\ At(s, sep) \notin Identifier => At(t, s2) \notin Identifier
  BY <1>2, <1>3, <1>4, <1>6, AsCharIs, Classes, SignsAre
<1>8. Nil \notin Identifier /\ Nil \notin Blank
  BY Classes
<1>9. ASSUME NEW q \in k..(e2 - 1) PROVE At(t, q) \in Identifier
  <2> DEFINE j == q - k + i
  <2>1. j \in i..(sep - 1) /\ j \in i..(end - 1) /\ k + (j - i) = q
    BY <1>1, <1>5
  <2> HIDE DEF j
  <2>2. At(t, q) = s[j] /\ s[j] \in Identifier
    BY <1>2, <1>4, <2>1
  <2>3. QED BY <2>2
<1>10. ASSUME NEW q \in e2..(s2 - 1) PROVE At(t, q) \in Blank
  <2> DEFINE j == q - k + i
  <2>1. j \in i..(sep - 1) /\ j \in end..(sep - 1) /\ k + (j - i) = q
    BY <1>1, <1>5
  <2> HIDE DEF j
  <2>2. At(t, q) = s[j] /\ s[j] \in Blank
    BY <1>2, <1>4, <2>1
  <2>3. QED BY <2>2
<1>11. At(t, e2) \notin Identifier
  <2>1. CASE end = sep
    BY <1>2, <1>7, <2>1
  <2>2. CASE end # sep
    <3>1. e2 \in e2..(s2 - 1)
      BY <1>1, <1>5, <2>2
    <3>2. QED BY <1>10, <3>1, Classes
  <2>3. QED BY <2>1, <2>2
<1>12. e2 \in (k + 1)..(Len(t) + 1) /\ s2 \in e2..(Len(t) + 1)
  <2>1. e2 \in Nat /\ s2 \in Nat /\ k + 1 <= e2 /\ e2 <= s2
    BY <1>1, <1>5
  <2>2. e2 - 1 \in k..(e2 - 1)
    BY <2>1
  <2>3. e2 - 1 \in 1..Len(t)
    BY <1>1, <1>8, <1>9, <2>2
  <2>4. s2 <= Len(t) + 1
    <3>1. CASE s2 = e2
      BY <1>1, <2>1, <2>3, <3>1
    <3>2. CASE s2 # e2
      <4>1. s2 - 1 \in e2..(s2 - 1)
        BY <2>1, <3>2
      <4>2. s2 - 1 \in 1..Len(t)
        BY <1>1, <1>8, <1>10, <4>1
      <4>3. QED BY <1>1, <2>1, <4>2
    <3>3. QED BY <3>1, <3>2
  <2>5. QED BY <1>1, <2>1, <2>3, <2>4
<1> HIDE DEF e2, s2
<1>13. k \in 1..(Len(t) + 1) /\ e2 \in k..(Len(t) + 1) /\ e2 \in 1..(Len(t) + 1)
  BY <1>1, <1>12
<1>14. KeyEnd(t, k) = e2
  BY <1>8, <1>9, <1>11, <1>13, PastUnique DEF KeyEnd
<1>15. Past(t, Blank, e2) = s2
  BY <1>7, <1>8, <1>10, <1>12, <1>13, PastUnique
<1>16. QED BY <1>7, <1>14, <1>15, Zenon DEF KeyAt, KeySep

LEMMA Calm ==
  \A c \in Identifier \cup Blank : /\ c \in Chars /\ c # Quote /\ c # Backslash /\ AsChar(c) = c
                                   /\ ~OpensKey(c) /\ InString(FALSE, c) = FALSE
                                   /\ Expects(FALSE, FALSE, c) = FALSE
<1> SUFFICES ASSUME NEW c \in Identifier \cup Blank
             PROVE  /\ c \in Chars /\ c # Quote /\ c # Backslash /\ AsChar(c) = c
                    /\ ~OpensKey(c) /\ InString(FALSE, c) = FALSE
                    /\ Expects(FALSE, FALSE, c) = FALSE
  OBVIOUS
<1>1. c \in Chars /\ c # Quote /\ c # Backslash /\ AsChar(c) = c
  BY AsCharIs, Classes
<1>2. ~OpensKey(c)
  <2>1. \A d \in Chars : OpensKey(d) => d \notin Blank /\ d \notin Identifier
    BY Zenon DEF OpensKey, Identifier, Letters, Blank
  <2>2. QED BY <1>1, <2>1
<1>3. InString(FALSE, c) = FALSE /\ Expects(FALSE, FALSE, c) = FALSE
  BY <1>1, <1>2 DEF InString, Expects
<1>4. QED BY ONLY <1>1, <1>2, <1>3

(* What the scanners make of an identifier that is no key, and of the       *)
(* blanks behind it                                                         *)
LEMMA KeysCarry ==
  ASSUME NEW s \in Body, NEW i \in 1..Len(s), s[i] \in Letters,
         NEW out, \A j \in 1..(Len(s) + 1) : out[j] = KeysFrom(s)[<<j, FALSE, FALSE>>]
  PROVE  Carries(out, s, i + 1, KeySep(s, i))
<1> DEFINE sep == KeySep(s, i)
<1>0. \A j \in 1..(Len(s) + 1) : out[j] = KeysFrom(s)[<<j, FALSE, FALSE>>]
  OBVIOUS
<1>1. Len(s) \in Nat /\ i \in Nat /\ \A j \in 1..Len(s) : s[j] \in Chars
  BY TextPlaces
<1>2. /\ sep \in (i + 1)..(Len(s) + 1)
      /\ \A m \in (i + 1)..(sep - 1) : m \in 1..Len(s) /\ s[m] \in Identifier \cup Blank
  <2> DEFINE end == KeyEnd(s, i)
  <2>1. /\ end \in (i + 1)..(Len(s) + 1) /\ sep \in end..(Len(s) + 1)
        /\ \A m \in i..(end - 1) : m \in 1..Len(s) /\ s[m] \in Identifier
        /\ \A m \in end..(sep - 1) : m \in 1..Len(s) /\ s[m] \in Blank
    BY KeyPlaces
  <2> HIDE DEF end, sep
  <2>2. \A m \in (i + 1)..(sep - 1) : m \in i..(end - 1) \/ m \in end..(sep - 1)
    BY <1>1, <2>1
  <2>3. sep \in (i + 1)..(Len(s) + 1)
    BY <1>1, <2>1
  <2>4. QED BY <2>1, <2>2, <2>3
<1> HIDE DEF sep
<1>3. \A j \in 1..(Len(s) + 1) : out[j] \in Body
  BY StateTypes
<1>4. ASSUME NEW j \in 1..Len(s)
      PROVE  out[j] = <<AsChar(s[j])>> \o KeysFrom(s)[<<j + 1, InString(FALSE, s[j]), Expects(FALSE, FALSE, s[j])>>]
  <2>1. KeysFrom(s)[<<j, FALSE, FALSE>>] =
          KeyTurn(s, <<j, FALSE, FALSE>>).push \o KeysFrom(s)[KeyTurn(s, <<j, FALSE, FALSE>>).next]
    BY KeysAre
  <2>2. ~(FALSE /\ Escaped(s, j)) /\ ~TakesKey(s, j, FALSE, FALSE)
    BY DEF TakesKey
  <2>3. /\ KeyTurn(s, <<j, FALSE, FALSE>>).push = <<AsChar(s[j])>>
        /\ KeyTurn(s, <<j, FALSE, FALSE>>).next = <<j + 1, InString(FALSE, s[j]), Expects(FALSE, FALSE, s[j])>>
    BY <2>2, KeyTurnIs
  <2>4. out[j] = KeysFrom(s)[<<j, FALSE, FALSE>>]
    <3>1. j \in 1..(Len(s) + 1)
      BY <1>1
    <3>2. QED BY ONLY <1>0, <3>1, Zenon
  <2>5. QED BY ONLY <2>1, <2>3, <2>4, Zenon
<1>5. ASSUME NEW j \in (i + 1)..(sep - 1) PROVE out[j] = <<s[j]>> \o out[j + 1]
  <2>1. j \in 1..Len(s) /\ j + 1 \in 1..(Len(s) + 1)
    BY <1>1, <1>2
  <2>2. AsChar(s[j]) = s[j] /\ InString(FALSE, s[j]) = FALSE /\ Expects(FALSE, FALSE, s[j]) = FALSE
    BY <1>2, Calm
  <2>3. out[j] = <<AsChar(s[j])>> \o KeysFrom(s)[<<j + 1, InString(FALSE, s[j]), Expects(FALSE, FALSE, s[j])>>]
    BY <1>4, <2>1
  <2>4. out[j + 1] = KeysFrom(s)[<<j + 1, FALSE, FALSE>>]
    BY <2>1
  <2>5. QED BY ONLY <2>2, <2>3, <2>4, Zenon
<1>6. sep = Len(s) + 1 => out[sep] = <<>>
  <2>1. Len(s) + 1 \in 1..(Len(s) + 1)
    BY <1>1
  <2>2. KeysFrom(s)[<<Len(s) + 1, FALSE, FALSE>>] = <<>>
    BY KeysAre, Zenon
  <2>3. QED BY <1>0, <2>1, <2>2, Zenon
<1>7. sep <= Len(s) => \E x \in Body : out[sep] = <<AsChar(s[sep])>> \o x
  <2> SUFFICES ASSUME sep <= Len(s) PROVE \E x \in Body : out[sep] = <<AsChar(s[sep])>> \o x
    OBVIOUS
  <2>1. sep \in 1..Len(s) /\ sep + 1 \in 1..(Len(s) + 1)
    BY <1>1, <1>2
  <2>2. KeysFrom(s)[<<sep + 1, InString(FALSE, s[sep]), Expects(FALSE, FALSE, s[sep])>>] \in Body
    BY <2>1, StateTypes
  <2>3. QED BY <1>4, <2>1, <2>2
<1>8. \A j \in (i + 1)..sep : j \in 1..(Len(s) + 1)
  BY <1>1, <1>2
<1>9. QED BY ONLY <1>3, <1>5, <1>6, <1>7, <1>8 DEF Carries, sep

LEMMA EscapesCarry ==
  ASSUME NEW s \in Body, NEW i \in 1..Len(s), s[i] \in Letters,
         NEW out, \A j \in 1..(Len(s) + 1) : out[j] = EscapesFrom(s)[<<j, FALSE>>]
  PROVE  Carries(out, s, i + 1, KeySep(s, i))
<1> DEFINE sep == KeySep(s, i)
<1>0. \A j \in 1..(Len(s) + 1) : out[j] = EscapesFrom(s)[<<j, FALSE>>]
  OBVIOUS
<1>1. Len(s) \in Nat /\ i \in Nat /\ \A j \in 1..Len(s) : s[j] \in Chars
  BY TextPlaces
<1>2. /\ sep \in (i + 1)..(Len(s) + 1)
      /\ \A m \in (i + 1)..(sep - 1) : m \in 1..Len(s) /\ s[m] \in Identifier \cup Blank
  <2> DEFINE end == KeyEnd(s, i)
  <2>1. /\ end \in (i + 1)..(Len(s) + 1) /\ sep \in end..(Len(s) + 1)
        /\ \A m \in i..(end - 1) : m \in 1..Len(s) /\ s[m] \in Identifier
        /\ \A m \in end..(sep - 1) : m \in 1..Len(s) /\ s[m] \in Blank
    BY KeyPlaces
  <2> HIDE DEF end, sep
  <2>2. \A m \in (i + 1)..(sep - 1) : m \in i..(end - 1) \/ m \in end..(sep - 1)
    BY <1>1, <2>1
  <2>3. sep \in (i + 1)..(Len(s) + 1)
    BY <1>1, <2>1
  <2>4. QED BY <2>1, <2>2, <2>3
<1> HIDE DEF sep
<1>3. \A j \in 1..(Len(s) + 1) : out[j] \in Body
  BY StateTypes
<1>4. ASSUME NEW j \in 1..Len(s)
      PROVE  out[j] = <<AsChar(s[j])>> \o EscapesFrom(s)[<<j + 1, InString(FALSE, s[j])>>]
  <2> DEFINE turn == EscapeTurn(s, <<j, FALSE>>)
  <2>1. EscapesFrom(s)[<<j, FALSE>>] = turn.push \o EscapesFrom(s)[turn.next]
    BY EscapesAre
  <2>2. turn.push = <<AsChar(s[j])>> /\ turn.next = <<j + 1, InString(FALSE, s[j])>>
    BY EscapeTurnIs
  <2>3. out[j] = EscapesFrom(s)[<<j, FALSE>>]
    <3>1. j \in 1..(Len(s) + 1)
      BY <1>1
    <3>2. QED BY ONLY <1>0, <3>1, Zenon
  <2> HIDE DEF turn
  <2>4. QED BY ONLY <2>1, <2>2, <2>3, Zenon
<1>5. ASSUME NEW j \in (i + 1)..(sep - 1) PROVE out[j] = <<s[j]>> \o out[j + 1]
  <2>1. j \in 1..Len(s) /\ j + 1 \in 1..(Len(s) + 1)
    BY <1>1, <1>2
  <2>2. AsChar(s[j]) = s[j] /\ InString(FALSE, s[j]) = FALSE
    BY <1>2, Calm
  <2>3. out[j] = <<AsChar(s[j])>> \o EscapesFrom(s)[<<j + 1, InString(FALSE, s[j])>>]
    BY <1>4, <2>1
  <2>4. out[j + 1] = EscapesFrom(s)[<<j + 1, FALSE>>]
    BY <2>1
  <2>5. QED BY ONLY <2>2, <2>3, <2>4, Zenon
<1>6. sep = Len(s) + 1 => out[sep] = <<>>
  <2>1. Len(s) + 1 \in 1..(Len(s) + 1)
    BY <1>1
  <2>2. EscapesFrom(s)[<<Len(s) + 1, FALSE>>] = <<>>
    BY EscapesAre, Zenon
  <2>3. QED BY <1>0, <2>1, <2>2, Zenon
<1>7. sep <= Len(s) => \E x \in Body : out[sep] = <<AsChar(s[sep])>> \o x
  <2> SUFFICES ASSUME sep <= Len(s) PROVE \E x \in Body : out[sep] = <<AsChar(s[sep])>> \o x
    OBVIOUS
  <2>1. sep \in 1..Len(s) /\ sep + 1 \in 1..(Len(s) + 1)
    BY <1>1, <1>2
  <2>2. EscapesFrom(s)[<<sep + 1, InString(FALSE, s[sep])>>] \in Body
    BY <2>1, StateTypes
  <2>3. QED BY <1>4, <2>1, <2>2
<1>8. \A j \in (i + 1)..sep : j \in 1..(Len(s) + 1)
  BY <1>1, <1>2
<1>9. QED BY ONLY <1>3, <1>5, <1>6, <1>7, <1>8 DEF Carries, sep

(* An identifier that is no key does not become one *)
LEMMA NoKeyBehind ==
  ASSUME NEW s \in Body, NEW i \in 1..Len(s), s[i] \in Letters, ~KeyAt(s, i),
         NEW out, Carries(out, s, i + 1, KeySep(s, i)),
         NEW t \in Body, NEW k \in Nat, k >= 1, k <= Len(t), t[k] = s[i], Behind(t, k + 1, out[i + 1])
  PROVE  ~KeyAt(t, k)
<1> DEFINE sep == KeySep(s, i)
           i1 == i + 1
           k1 == k + 1
<1>1. Len(s) \in Nat /\ i \in Nat /\ Len(t) \in Nat /\ \A j \in 1..Len(t) : At(t, j) = t[j]
  BY TextPlaces
<1>2. sep \in i1..(Len(s) + 1) /\ i1 \in 1..(Len(s) + 1) /\ k1 \in Nat /\ k1 >= 1
  <2>1. KeyEnd(s, i) \in (i + 1)..(Len(s) + 1) /\ sep \in KeyEnd(s, i)..(Len(s) + 1)
    BY KeyPlaces
  <2>2. QED BY <1>1, <2>1
<1> HIDE DEF sep
<1>3. Carries(out, s, i1, sep) /\ Behind(t, k1, out[i1])
  BY DEF sep
<1> HIDE DEF i1, k1
<1>4. /\ \A j \in i1..(sep - 1) : At(t, k1 + (j - i1)) = s[j]
      /\ At(t, k1 + (sep - i1)) = AsChar(At(s, sep))
  BY <1>2, <1>3, CarriesIs
<1>5. ASSUME NEW j \in i..(sep - 1) PROVE At(t, k + (j - i)) = s[j]
  <2>1. CASE j = i
    <3>1. k + (j - i) = k /\ k \in 1..Len(t)
      BY <1>1, <2>1
    <3>2. QED BY <1>1, <2>1, <3>1
  <2>2. CASE j # i
    <3>1. j \in i1..(sep - 1) /\ k1 + (j - i1) = k + (j - i)
      BY <1>1, <1>2, <2>2 DEF i1, k1
    <3>2. QED BY <1>4, <3>1
  <2>3. QED BY <2>1, <2>2
<1>6. k1 + (sep - i1) = k + (sep - i)
  BY <1>1, <1>2 DEF i1, k1
<1>7. At(t, k + (sep - i)) = AsChar(At(s, sep))
  BY ONLY <1>4, <1>6
<1>8. QED BY <1>5, <1>7, StillNoKey DEF sep

(* What quote_bare_keys makes of s from i on, it leaves alone wherever it   *)
(* meets it in the same state                                               *)
LEMMA KeysSettle ==
  ASSUME NEW s \in Body, NEW t \in Body
  PROVE  \A i \in 1..(Len(s) + 1), b, key \in BOOLEAN, k \in Nat :
           k >= 1 /\ Behind(t, k, KeysFrom(s)[<<i, b, key>>]) => Copies(t, k, b, key)
<1> DEFINE n == Len(s)
           Settles(i) == \A b, key \in BOOLEAN, k \in Nat :
             k >= 1 /\ Behind(t, k, KeysFrom(s)[<<i, b, key>>]) => Copies(t, k, b, key)
           m == n + 1
           T == {i \in 1..m : Settles(i)}
<1>1. n \in Nat /\ m \in Nat /\ Len(t) \in Nat /\ \A j \in 1..n : s[j] \in Chars
  BY TextPlaces
<1>2. ASSUME NEW i \in 1..m, \A j \in 1..m : j > i => j \in T PROVE i \in T
  <2> SUFFICES ASSUME NEW b \in BOOLEAN, NEW key \in BOOLEAN, NEW k \in Nat, k >= 1,
                      Behind(t, k, KeysFrom(s)[<<i, b, key>>])
               PROVE  Copies(t, k, b, key)
    OBVIOUS
  <2>1. ASSUME NEW j \in 1..m, j > i PROVE Settles(j)
    <3> HIDE DEF Settles
    <3>1. QED BY <1>2, <2>1
  <2> HIDE DEF Settles
  <2>2. i = m \/ i \in 1..n
    BY <1>1
  <2>3. CASE i = m
    <3>1. KeysFrom(s)[<<i, b, key>>] = <<>>
      <4>1. KeysFrom(s)[<<n + 1, b, key>>] = <<>>
        BY KeysAre
      <4>2. QED BY ONLY <2>3, <4>1, Zenon DEF m
    <3>2. k = Len(t) + 1
      BY <3>1, BehindNothing
    <3>3. QED BY <3>2, CopiesNothing
  <2> DEFINE turn == KeyTurn(s, <<i, b, key>>)
  <2>4. CASE i \in 1..n /\ b /\ Escaped(s, i)
    <3> DEFINE c == AsChar(s[i + 1])
               i2 == i + 2
               x == KeysFrom(s)[<<i2, TRUE, key>>]
    <3>1. i + 1 \in 1..n /\ i2 \in 1..m /\ i2 > i /\ b = TRUE
      BY <1>1, <2>4 DEF Escaped
    <3>2. KeysFrom(s)[<<i, b, key>>] = <<Backslash, c>> \o x
      <4>1. KeysFrom(s)[<<i, b, key>>] = turn.push \o KeysFrom(s)[turn.next]
        BY <2>4, KeysAre
      <4>2. turn.push = <<Backslash, c>> /\ turn.next = <<i2, TRUE, key>>
        BY <2>4, KeyTurnIs
      <4> HIDE DEF c, turn, i2
      <4>3. QED BY ONLY <4>1, <4>2, Zenon DEF x
    <3>3. c \in Chars /\ AsChar(c) = c /\ Backslash \in Chars
      BY <1>1, <3>1, AsCharIs, Classes
    <3>4. x \in Body
      BY <3>1, StateTypes
    <3> HIDE DEF c, i2
    <3>5. Behind(t, k, <<Backslash, c>> \o x)
      BY ONLY <3>2, Behind(t, k, KeysFrom(s)[<<i, b, key>>]), Zenon
    <3> HIDE DEF x
    <3>6. k \in 1..Len(t) /\ k < Len(t) /\ t[k] = Backslash /\ t[k + 1] = c /\ Behind(t, k + 2, x)
      BY <3>3, <3>4, <3>5, BehindTwo
    <3>7. Copies(t, k + 2, TRUE, key)
      <4>1. k + 2 \in Nat /\ k + 2 >= 1
        OBVIOUS
      <4>2. Settles(i2)
        BY <2>1, <3>1
      <4>3. QED BY <3>6, <4>1, <4>2 DEF Settles, x
    <3>8. Escaped(t, k) /\ AsChar(t[k + 1]) = t[k + 1]
      BY <3>3, <3>6 DEF Escaped
    <3>9. Copies(t, k, TRUE, key)
      BY <3>6, <3>7, <3>8, CopyTwo
    <3>10. QED BY ONLY <3>1, <3>9, Zenon
  <2>5. CASE i \in 1..n /\ TakesKey(s, i, b, key)
    <3> DEFINE w == KeyWord(s, i)
               i2 == KeySep(s, i) + 1
               x == KeysFrom(s)[<<i2, FALSE, FALSE>>]
    <3>1. i \in 1..n /\ s[i] \in Letters /\ KeyAt(s, i) /\ b = FALSE
      BY <2>5 DEF TakesKey
    <3>2. i2 \in 1..m /\ i2 > i
      <4>1. KeyEnd(s, i) \in (i + 1)..(n + 1) /\ KeySep(s, i) \in KeyEnd(s, i)..(n + 1) /\ KeySep(s, i) <= n
        BY <3>1, KeyPlaces
      <4>2. QED BY <1>1, <4>1
    <3>3. w \in Body
      BY <3>1, KeyWordIs
    <3>4. x \in Body
      BY <3>2, StateTypes
    <3>5. KeysFrom(s)[<<i, b, key>>] = w \o x
      <4>1. KeysFrom(s)[<<i, b, key>>] = turn.push \o KeysFrom(s)[turn.next]
        BY <2>5, KeysAre
      <4>2. turn.push = w /\ turn.next = <<i2, FALSE, FALSE>>
        BY <2>5, KeyTurnIs
      <4> HIDE DEF w, turn, i2
      <4>3. QED BY ONLY <4>1, <4>2, Zenon DEF x
    <3> HIDE DEF w, i2
    <3>6. Behind(t, k, w \o x)
      BY ONLY <3>5, Behind(t, k, KeysFrom(s)[<<i, b, key>>]), Zenon
    <3> HIDE DEF x
    <3>7. Behind(t, k + Len(w), x) /\ \A j \in 1..Len(w) : t[k - 1 + j] = w[j]
      BY <3>3, <3>4, <3>6, BehindConcat
    <3>8. k + Len(w) \in Nat /\ k + Len(w) >= 1 /\ k + Len(w) <= Len(t) + 1
      <4>1. Len(w) \in Nat
        BY <3>3, TextPlaces
      <4>2. k + Len(w) \in 1..(Len(t) + 1)
        BY <3>7 DEF Behind
      <4>3. QED BY <1>1, <4>1, <4>2
    <3>9. Copies(t, k + Len(w), FALSE, FALSE)
      <4>1. Settles(i2)
        BY <2>1, <3>2
      <4>2. QED BY <3>7, <3>8, <4>1 DEF Settles, x
    <3>10. Copies(t, k, FALSE, key)
      BY <3>1, <3>7, <3>8, <3>9, CopyKey DEF w
    <3>11. QED BY ONLY <3>1, <3>10, Zenon
  <2>6. CASE i \in 1..n /\ ~(b /\ Escaped(s, i)) /\ ~TakesKey(s, i, b, key)
    <3> DEFINE c == AsChar(s[i])
               b1 == InString(b, s[i])
               k1 == Expects(b, key, s[i])
               i1 == i + 1
               x == KeysFrom(s)[<<i1, b1, k1>>]
    <3>1. i \in 1..n /\ i1 \in 1..m /\ i1 > i /\ s[i] \in Chars
      BY <1>1, <2>6
    <3>2. KeysFrom(s)[<<i, b, key>>] = <<c>> \o x
      <4>1. KeysFrom(s)[<<i, b, key>>] = turn.push \o KeysFrom(s)[turn.next]
        BY <2>6, KeysAre
      <4>2. turn.push = <<c>> /\ turn.next = <<i1, b1, k1>>
        BY <2>6, KeyTurnIs
      <4> HIDE DEF c, turn, i1, b1, k1
      <4>3. QED BY ONLY <4>1, <4>2, Zenon DEF x
    <3>3. /\ c \in Chars /\ AsChar(c) = c
          /\ c \in Letters <=> s[i] \in Letters
          /\ c \in Blank <=> s[i] \in Blank
          /\ c = Quote <=> s[i] = Quote
          /\ c = Backslash <=> s[i] = Backslash
          /\ OpensKey(c) <=> OpensKey(s[i])
      BY <3>1, AsCharIs
    <3>4. b1 \in BOOLEAN /\ k1 \in BOOLEAN
      BY DEF InString, Expects, OpensKey
    <3>5. x \in Body
      BY <3>1, <3>4, StateTypes
    <3>6. InString(b, c) = b1 /\ Expects(b, key, c) = k1
      <4>1. (c = Quote) = (s[i] = Quote) /\ (c # Quote) = (s[i] # Quote)
        BY <3>3
      <4>2. (OpensKey(c) \/ (c \in Blank /\ key)) = (OpensKey(s[i]) \/ (s[i] \in Blank /\ key))
        BY <3>3
      <4>3. QED BY ONLY <4>1, <4>2, Zenon DEF InString, Expects, b1, k1
    <3> HIDE DEF b1, k1, i1
    <3>7. Behind(t, k, <<c>> \o x)
      BY ONLY <3>2, Behind(t, k, KeysFrom(s)[<<i, b, key>>]), Zenon
    <3> HIDE DEF x
    <3>8. k \in 1..Len(t) /\ t[k] = c /\ Behind(t, k + 1, x)
      <4> HIDE DEF c
      <4>1. QED BY <3>3, <3>5, <3>7, BehindOne
    <3>9. Copies(t, k + 1, b1, k1)
      <4>1. k + 1 \in Nat /\ k + 1 >= 1
        OBVIOUS
      <4>2. Settles(i1)
        BY <2>1, <3>1
      <4>3. QED BY <3>4, <3>8, <4>1, <4>2 DEF Settles, x
    <3>10. ~(b /\ Escaped(t, k))
      <4> SUFFICES ASSUME b, Escaped(t, k) PROVE FALSE
        OBVIOUS
      <4>1. s[i] = Backslash /\ ~Escaped(s, i) /\ k < Len(t)
        BY <2>6, <3>3, <3>8 DEF Escaped
      <4>2. i1 = n + 1
        BY <1>1, <3>1, <4>1 DEF Escaped, i1
      <4>3. x = <<>>
        <5>1. KeysFrom(s)[<<n + 1, b1, k1>>] = <<>>
          BY <3>4, KeysAre
        <5>2. QED BY ONLY <4>2, <5>1, Zenon DEF x
      <4>4. k + 1 = Len(t) + 1
        BY <3>8, <4>3, BehindNothing
      <4>5. QED BY <1>1, <4>1, <4>4
    <3>11. ~TakesKey(t, k, b, key)
      <4> SUFFICES ASSUME TakesKey(t, k, b, key) PROVE FALSE
        OBVIOUS
      <4>1. ~b /\ key /\ t[k] \in Letters /\ KeyAt(t, k)
        BY DEF TakesKey
      <4>2. s[i] \in Letters /\ c = s[i] /\ ~KeyAt(s, i)
        <5>1. s[i] \in Letters
          BY <3>3, <3>8, <4>1
        <5>2. AsChar(s[i]) = s[i]
          BY <5>1, AsCharIs, Classes
        <5>3. QED BY <2>6, <4>1, <5>1, <5>2 DEF TakesKey
      <4>3. b1 = FALSE /\ k1 = FALSE
        <5>1. s[i] \in Identifier \cup Blank /\ s[i] # Quote /\ s[i] \notin Blank /\ ~OpensKey(s[i])
          BY <4>2, Calm, Classes
        <5>2. QED BY <4>1, <5>1 DEF b1, k1, InString, Expects
      <4> DEFINE out == [j \in 1..(Len(s) + 1) |-> KeysFrom(s)[<<j, FALSE, FALSE>>]]
      <4>4. \A j \in 1..(Len(s) + 1) : out[j] = KeysFrom(s)[<<j, FALSE, FALSE>>]
        OBVIOUS
      <4>5. out[i + 1] = x
        <5>1. i + 1 \in 1..(Len(s) + 1) /\ i1 = i + 1
          BY <3>1 DEF i1
        <5>2. out[i + 1] = KeysFrom(s)[<<i + 1, FALSE, FALSE>>]
          BY <5>1
        <5> HIDE DEF out
        <5>3. QED BY ONLY <4>3, <5>1, <5>2, Zenon DEF x
      <4> HIDE DEF out
      <4>6. Carries(out, s, i + 1, KeySep(s, i))
        BY <3>1, <4>2, <4>4, KeysCarry
      <4>7. k <= Len(t) /\ t[k] = s[i] /\ Behind(t, k + 1, out[i + 1])
        BY <1>1, <3>8, <4>2, <4>5
      <4>8. ~KeyAt(t, k)
        BY <3>1, <4>2, <4>6, <4>7, NoKeyBehind
      <4>9. QED BY <4>1, <4>8
    <3>12. AsChar(t[k]) = t[k] /\ Copies(t, k + 1, InString(b, t[k]), Expects(b, key, t[k]))
      <4> HIDE DEF c
      <4>1. QED BY ONLY <3>3, <3>6, <3>8, <3>9, Zenon
    <3>13. QED BY <3>8, <3>10, <3>11, <3>12, CopyOne
  <2>7. QED BY <2>2, <2>3, <2>4, <2>5, <2>6
<1> HIDE DEF T, m
<1>3. 1..m \subseteq T
  <2>1. m \in Nat
    BY <1>1
  <2>2. QED BY ONLY <1>2, <2>1, DownInduction
<1>4. \A i \in 1..m : Settles(i)
  <2> HIDE DEF Settles
  <2>1. QED BY <1>3 DEF T
<1>5. QED BY <1>4 DEF m

(* Where quote_bare_keys leaves a text alone, it leaves alone what          *)
(* escape_string_controls makes of it                                       *)
LEMMA EscapesSettle ==
  ASSUME NEW s \in Body, NEW t \in Body
  PROVE  \A i \in 1..(Len(s) + 1), b, key \in BOOLEAN, k \in Nat :
           k >= 1 /\ Copies(s, i, b, key) /\ Behind(t, k, EscapesFrom(s)[<<i, b>>]) => Copies(t, k, b, key)
<1> DEFINE n == Len(s)
           Settles(i) == \A b, key \in BOOLEAN, k \in Nat :
             k >= 1 /\ Copies(s, i, b, key) /\ Behind(t, k, EscapesFrom(s)[<<i, b>>]) => Copies(t, k, b, key)
           m == n + 1
           T == {i \in 1..m : Settles(i)}
<1>1. n \in Nat /\ m \in Nat /\ Len(t) \in Nat /\ \A j \in 1..n : s[j] \in Chars
  BY TextPlaces
<1>2. ASSUME NEW i \in 1..m, \A j \in 1..m : j > i => j \in T PROVE i \in T
  <2> SUFFICES ASSUME NEW b \in BOOLEAN, NEW key \in BOOLEAN, NEW k \in Nat, k >= 1,
                      Copies(s, i, b, key), Behind(t, k, EscapesFrom(s)[<<i, b>>])
               PROVE  Copies(t, k, b, key)
    OBVIOUS
  <2>1. ASSUME NEW j \in 1..m, j > i PROVE Settles(j)
    <3> HIDE DEF Settles
    <3>1. QED BY <1>2, <2>1
  <2> HIDE DEF Settles
  <2> DEFINE turn == EscapeTurn(s, <<i, b>>)
             x1 == EscapesFrom(s)[<<i + 1, TRUE>>]
             x2 == EscapesFrom(s)[<<i + 2, TRUE>>]
  <2>2. i = m \/ i \in 1..n
    BY <1>1
  <2>7. \A j \in 1..n, a \in BOOLEAN : EscapeTurns(s, j, a)
    BY EscapeTurnsAre
  <2>3. CASE i = m
    <3>1. EscapesFrom(s)[<<i, b>>] = <<>>
      <4>1. EscapesFrom(s)[<<n + 1, b>>] = <<>>
        BY EscapesAre
      <4>2. QED BY ONLY <2>3, <4>1, Zenon DEF m
    <3>2. k = Len(t) + 1
      BY <3>1, BehindNothing
    <3>3. QED BY <3>2, CopiesNothing
  <2>4. CASE i \in 1..n /\ b /\ Escaped(s, i)
    <3> DEFINE d == s[i + 1]
    <3>1. i + 1 \in 1..n /\ i + 2 \in 1..m /\ i + 2 > i /\ b = TRUE /\ d \in Chars /\ i \in 1..n
      BY <1>1, <2>4 DEF Escaped
    <3>2. AsChar(d) = d /\ Copies(s, i + 2, TRUE, key)
      <4>1. Copies(s, i, TRUE, key)
        BY <3>1
      <4>2. QED BY <2>4, <4>1, CopyTwo
    <3>3. x2 \in Body /\ x1 \in Body /\ Backslash \in Chars /\ Escape_n \in Chars
      <4>1. i + 1 \in 1..(Len(s) + 1) /\ i + 2 \in 1..(Len(s) + 1) /\ TRUE \in BOOLEAN
        BY <1>1, <3>1
      <4>2. x1 \in Body /\ x2 \in Body
        <5> HIDE DEF n, m
        <5>1. QED BY <4>1, StateTypes
      <4>3. Backslash \in Chars /\ Escape_n \in Chars
        BY SignsAre
      <4>4. QED BY ONLY <4>2, <4>3, Zenon
    <3> HIDE DEF x1, x2
    <3>4. EscapesFrom(s)[<<i, b>>] = turn.push \o EscapesFrom(s)[turn.next]
      BY <2>4, EscapesAre
    <3>5. \A p \in Nat : p >= 1 /\ Behind(t, p, x2) => Copies(t, p, TRUE, key)
      <4>1. Settles(i + 2)
        BY <2>1, <3>1
      <4>2. QED BY <3>2, <4>1 DEF Settles, x2
    <3>6. CASE d \in Escapable
      <4>1. EscapesFrom(s)[<<i, b>>] = <<Backslash, d>> \o x2
        <5>1. turn.push = <<Backslash, d>> /\ turn.next = <<i + 2, TRUE>>
          <6> HIDE DEF n
          <6>1. QED BY ONLY <2>4, <2>7, <3>6, b \in BOOLEAN, Zenon DEF EscapeTurns, turn, d
        <5> HIDE DEF d, turn
        <5>2. QED BY ONLY <3>4, <5>1, Zenon DEF x2
      <4> HIDE DEF d
      <4>2. Behind(t, k, <<Backslash, d>> \o x2)
        BY ONLY <4>1, Behind(t, k, EscapesFrom(s)[<<i, b>>]), Zenon
      <4>3. k \in 1..Len(t) /\ k < Len(t) /\ t[k] = Backslash /\ t[k + 1] = d /\ Behind(t, k + 2, x2)
        BY <3>1, <3>3, <4>2, BehindTwo
      <4>4. k + 2 \in Nat /\ k + 2 >= 1
        OBVIOUS
      <4>5. Copies(t, k + 2, TRUE, key)
        BY <3>5, <4>3, <4>4
      <4>6. Escaped(t, k) /\ AsChar(t[k + 1]) = t[k + 1]
        BY <3>2, <4>3 DEF Escaped
      <4>7. Copies(t, k, TRUE, key)
        BY <4>3, <4>5, <4>6, CopyTwo
      <4>8. QED BY ONLY <3>1, <4>7, Zenon
    <3>7. CASE d \notin Escapable
      <4>1. EscapesFrom(s)[<<i, b>>] = <<Backslash, Backslash>> \o x1
        <5>1. turn.push = <<Backslash, Backslash>> /\ turn.next = <<i + 1, TRUE>>
          <6> HIDE DEF n
          <6>1. QED BY ONLY <2>4, <2>7, <3>7, b \in BOOLEAN, Zenon DEF EscapeTurns, turn, d
        <5> HIDE DEF turn
        <5>2. QED BY ONLY <3>4, <5>1, Zenon DEF x1
      <4>2. Behind(t, k, <<Backslash, Backslash>> \o x1)
        BY ONLY <4>1, Behind(t, k, EscapesFrom(s)[<<i, b>>]), Zenon
      <4>3. k \in 1..Len(t) /\ k < Len(t) /\ t[k] = Backslash /\ t[k + 1] = Backslash /\ Behind(t, k + 2, x1)
        BY <3>3, <4>2, BehindTwo
      <4>4. d # Quote /\ d # Backslash
        BY <3>7, SignsAre
      <4> DEFINE k2 == k + 2
                 next == EscapeTurn(s, <<i + 1, TRUE>>)
      <4>5. k2 \in Nat /\ k2 >= 1
        OBVIOUS
      <4>6. x1 = next.push \o EscapesFrom(s)[next.next]
        BY <3>1, EscapesAre DEF x1
      <4>7. ~Escaped(s, i + 1)
        BY <4>4 DEF Escaped
      <4>8. Copies(t, k2, TRUE, key)
        <5>1. CASE d = LineFeed
          <6>1. x1 = <<Backslash, Escape_n>> \o x2
            <7>1. next.push = <<Backslash, Escape_n>> /\ next.next = <<(i + 1) + 1, TRUE>>
              <8> HIDE DEF n
              <8>1. TRUE \in BOOLEAN
                OBVIOUS
              <8>2. QED BY ONLY <2>7, <3>1, <5>1, <8>1, Zenon DEF EscapeTurns, next, d
            <7>2. (i + 1) + 1 = i + 2
              BY <1>1
            <7> HIDE DEF next
            <7>3. QED BY ONLY <4>6, <7>1, <7>2, Zenon DEF x2
          <6> HIDE DEF k2
          <6>2. Behind(t, k2, <<Backslash, Escape_n>> \o x2)
            BY ONLY <4>3, <6>1, Zenon DEF k2
          <6>3. k2 \in 1..Len(t) /\ k2 < Len(t) /\ t[k2] = Backslash /\ t[k2 + 1] = Escape_n /\ Behind(t, k2 + 2, x2)
            BY <3>3, <4>5, <6>2, BehindTwo
          <6>4. k2 + 2 \in Nat /\ k2 + 2 >= 1
            BY <4>5
          <6>5. Copies(t, k2 + 2, TRUE, key)
            BY <3>5, <6>3, <6>4
          <6>6. Escaped(t, k2) /\ AsChar(t[k2 + 1]) = t[k2 + 1]
            BY <6>3, AsCharIs, SignsAre DEF Escaped
          <6>7. QED BY <6>3, <6>5, <6>6, CopyTwo
        <5>2. CASE d # LineFeed
          <6>1. x1 = <<d>> \o x2
            <7>1. next.push = <<AsChar(d)>> /\ next.next = <<(i + 1) + 1, InString(TRUE, d)>>
              <8> HIDE DEF n
              <8>1. TRUE \in BOOLEAN
                OBVIOUS
              <8>2. QED BY ONLY <2>7, <3>1, <4>7, <5>2, <8>1, Zenon DEF EscapeTurns, next, d
            <7>2. (i + 1) + 1 = i + 2
              BY <1>1
            <7>3. InString(TRUE, d) = TRUE
              BY <4>4 DEF InString
            <7> HIDE DEF next, d
            <7>4. QED BY ONLY <3>2, <4>6, <7>1, <7>2, <7>3, Zenon DEF x2
          <6> HIDE DEF k2, d
          <6>2. Behind(t, k2, <<d>> \o x2)
            BY ONLY <4>3, <6>1, Zenon DEF k2
          <6>3. k2 \in 1..Len(t) /\ t[k2] = d /\ Behind(t, k2 + 1, x2)
            BY <3>1, <3>3, <4>5, <6>2, BehindOne
          <6>4. k2 + 1 \in Nat /\ k2 + 1 >= 1
            BY <4>5
          <6>5. Copies(t, k2 + 1, TRUE, key)
            BY <3>5, <6>3, <6>4
          <6>6. InString(TRUE, t[k2]) = TRUE /\ Expects(TRUE, key, t[k2]) = key
            BY <4>4, <6>3 DEF InString, Expects
          <6>7. AsChar(t[k2]) = t[k2] /\ Copies(t, k2 + 1, InString(TRUE, t[k2]), Expects(TRUE, key, t[k2]))
            BY ONLY <3>2, <6>3, <6>5, <6>6, Zenon
          <6>8. ~(TRUE /\ Escaped(t, k2)) /\ ~TakesKey(t, k2, TRUE, key)
            BY <4>4, <6>3 DEF Escaped, TakesKey
          <6>9. QED BY <6>3, <6>7, <6>8, CopyOne
        <5>3. QED BY <5>1, <5>2
      <4>9. Escaped(t, k) /\ AsChar(t[k + 1]) = t[k + 1]
        BY <4>3, AsCharIs DEF Escaped
      <4>10. Copies(t, k, TRUE, key)
        BY <4>3, <4>8, <4>9, CopyTwo
      <4>11. QED BY ONLY <3>1, <4>10, Zenon
    <3>8. QED BY <3>6, <3>7
  <2>5. CASE i \in 1..n /\ ~(b /\ Escaped(s, i))
    <3> DEFINE c == s[i]
               b1 == InString(b, c)
               k1 == Expects(b, key, c)
               i1 == i + 1
               x == EscapesFrom(s)[<<i1, b1>>]
    <3>1. i \in 1..n /\ i1 \in 1..m /\ i1 > i /\ c \in Chars
      BY <1>1, <2>5
    <3>2. ~TakesKey(s, i, b, key)
      BY <3>1, CopiesNoKey
    <3>3. AsChar(c) = c /\ Copies(s, i1, b1, k1)
      BY <2>5, <3>1, <3>2, CopyOne
    <3>4. b1 \in BOOLEAN /\ k1 \in BOOLEAN
      BY DEF InString, Expects, OpensKey
    <3>5. x \in Body
      BY <3>1, <3>4, StateTypes
    <3>6. EscapesFrom(s)[<<i, b>>] = turn.push \o EscapesFrom(s)[turn.next]
      BY <2>5, EscapesAre
    <3>7. \A p \in Nat : p >= 1 /\ Behind(t, p, x) => Copies(t, p, b1, k1)
      <4>1. Settles(i1)
        BY <2>1, <3>1
      <4> HIDE DEF b1, k1, i1
      <4>2. QED BY <3>3, <3>4, <4>1 DEF Settles
    <3>8. CASE b /\ c = LineFeed
      <4>1. b1 = TRUE /\ k1 = key /\ b = TRUE
        BY <3>8, SignsAre DEF b1, k1, InString, Expects
      <4>2. EscapesFrom(s)[<<i, b>>] = <<Backslash, Escape_n>> \o x
        <5>1. turn.push = <<Backslash, Escape_n>> /\ turn.next = <<i1, TRUE>>
          <6> HIDE DEF n
          <6>1. QED BY ONLY <2>7, <3>1, <3>8, b \in BOOLEAN, Zenon DEF EscapeTurns, turn, c, i1
        <5> HIDE DEF turn, b1, i1
        <5>2. QED BY ONLY <3>6, <4>1, <5>1, Zenon DEF x
      <4> HIDE DEF x
      <4>3. Behind(t, k, <<Backslash, Escape_n>> \o x)
        BY ONLY <4>2, Behind(t, k, EscapesFrom(s)[<<i, b>>]), Zenon
      <4>4. k \in 1..Len(t) /\ k < Len(t) /\ t[k] = Backslash /\ t[k + 1] = Escape_n /\ Behind(t, k + 2, x)
        BY <3>5, <4>3, BehindTwo, SignsAre
      <4>5. k + 2 \in Nat /\ k + 2 >= 1
        OBVIOUS
      <4> HIDE DEF b1, k1
      <4>6. Copies(t, k + 2, b1, k1)
        BY <3>7, <4>4, <4>5
      <4>7. Copies(t, k + 2, TRUE, key)
        BY ONLY <4>1, <4>6, Zenon
      <4>8. Escaped(t, k) /\ AsChar(t[k + 1]) = t[k + 1]
        BY <4>4, AsCharIs, SignsAre DEF Escaped
      <4>9. Copies(t, k, TRUE, key)
        BY <4>4, <4>7, <4>8, CopyTwo
      <4>10. QED BY ONLY <4>1, <4>9, Zenon
    <3>9. CASE ~(b /\ c = LineFeed)
      <4>1. EscapesFrom(s)[<<i, b>>] = <<c>> \o x
        <5>1. turn.push = <<AsChar(c)>> /\ turn.next = <<i1, b1>>
          <6> HIDE DEF n
          <6>1. QED BY ONLY <2>5, <2>7, <3>1, <3>9, b \in BOOLEAN, Zenon DEF EscapeTurns, turn, c, i1, b1
        <5> HIDE DEF turn, b1, i1, c
        <5>2. QED BY ONLY <3>3, <3>6, <5>1, Zenon DEF x
      <4> HIDE DEF x
      <4>2. Behind(t, k, <<c>> \o x)
        <5> HIDE DEF c
        <5>1. QED BY ONLY <4>1, Behind(t, k, EscapesFrom(s)[<<i, b>>]), Zenon
      <4>3. k \in 1..Len(t) /\ t[k] = c /\ Behind(t, k + 1, x)
        <5> HIDE DEF c
        <5>1. QED BY <3>1, <3>5, <4>2, BehindOne
      <4>4. Copies(t, k + 1, b1, k1)
        <5>1. k + 1 \in Nat /\ k + 1 >= 1
          OBVIOUS
        <5> HIDE DEF b1, k1
        <5>2. QED BY <3>7, <4>3, <5>1
      <4>5. ~(b /\ Escaped(t, k))
        <5> SUFFICES ASSUME b, Escaped(t, k) PROVE FALSE
          OBVIOUS
        <5>1. c = Backslash /\ ~Escaped(s, i) /\ k < Len(t)
          BY <2>5, <4>3 DEF Escaped
        <5>2. i1 = n + 1
          BY <1>1, <3>1, <5>1 DEF Escaped, i1
        <5> HIDE DEF b1
        <5>3. x = <<>>
          <6>1. EscapesFrom(s)[<<n + 1, b1>>] = <<>>
            BY <3>4, EscapesAre
          <6> HIDE DEF i1
          <6>2. QED BY ONLY <5>2, <6>1, Zenon DEF x
        <5>4. k + 1 = Len(t) + 1
          BY <4>3, <5>3, BehindNothing
        <5>5. QED BY <1>1, <5>1, <5>4
      <4>6. ~TakesKey(t, k, b, key)
        <5> SUFFICES ASSUME TakesKey(t, k, b, key) PROVE FALSE
          OBVIOUS
        <5>1. ~b /\ key /\ c \in Letters /\ KeyAt(t, k)
          BY <4>3 DEF TakesKey
        <5>2. ~KeyAt(s, i)
          BY <3>2, <5>1 DEF TakesKey
        <5>3. b1 = FALSE
          <6>1. c # Quote
            BY <5>1, Classes
          <6>2. QED BY <5>1, <6>1 DEF b1, InString
        <5> DEFINE out == [j \in 1..(Len(s) + 1) |-> EscapesFrom(s)[<<j, FALSE>>]]
        <5>4. \A j \in 1..(Len(s) + 1) : out[j] = EscapesFrom(s)[<<j, FALSE>>]
          OBVIOUS
        <5>5. out[i + 1] = x
          <6>1. i + 1 \in 1..(Len(s) + 1) /\ i1 = i + 1
            BY <3>1 DEF i1
          <6>2. out[i + 1] = EscapesFrom(s)[<<i + 1, FALSE>>]
            BY <6>1
          <6> HIDE DEF out, b1, i1
          <6>3. QED BY ONLY <5>3, <6>1, <6>2, Zenon DEF x
        <5> HIDE DEF out
        <5>6. Carries(out, s, i + 1, KeySep(s, i))
          BY <3>1, <5>1, <5>4, EscapesCarry
        <5>7. k <= Len(t) /\ t[k] = s[i] /\ Behind(t, k + 1, out[i + 1])
          BY <1>1, <4>3, <5>5
        <5>8. ~KeyAt(t, k)
          BY <3>1, <5>1, <5>2, <5>6, <5>7, NoKeyBehind
        <5>9. QED BY <5>1, <5>8
      <4>7. AsChar(t[k]) = t[k] /\ Copies(t, k + 1, InString(b, t[k]), Expects(b, key, t[k]))
        <5>1. InString(b, t[k]) = b1 /\ Expects(b, key, t[k]) = k1
          BY ONLY <4>3, Zenon DEF b1, k1
        <5> HIDE DEF b1, k1, c
        <5>2. QED BY ONLY <3>3, <4>3, <4>4, <5>1, Zenon
      <4>8. QED BY <4>3, <4>5, <4>6, <4>7, CopyOne
    <3>10. QED BY <3>8, <3>9
  <2>6. QED BY <2>2, <2>3, <2>4, <2>5
<1> HIDE DEF T, m
<1>3. 1..m \subseteq T
  <2>1. m \in Nat
    BY <1>1
  <2>2. QED BY ONLY <1>2, <2>1, DownInduction
<1>4. \A i \in 1..m : Settles(i)
  <2> HIDE DEF Settles
  <2>1. QED BY <1>3 DEF T
<1>5. QED BY <1>4 DEF m

(* Behind both scanners no bare key is left to find *)
LEMMA NoKeyLeft ==
  ASSUME NEW s \in Body
  PROVE  LET escaped == EscapeStringControls(QuoteBareKeys(s))
         IN  QuoteBareKeys(s) \in Body /\ escaped \in Body /\ QuoteBareKeys(escaped) = escaped
<1> DEFINE q == QuoteBareKeys(s)
           e == EscapeStringControls(q)
<1>1. q \in Body /\ q = KeysFrom(s)[<<1, FALSE, FALSE>>]
  <2>1. 1 \in 1..(Len(s) + 1)
    BY TextPlaces
  <2>2. KeysFrom(s)[<<1, FALSE, FALSE>>] \in Body
    BY <2>1, StateTypes
  <2>3. QED BY <2>2, KeysIsFrom
<1> HIDE DEF q
<1>2. e \in Body /\ e = EscapesFrom(q)[<<1, FALSE>>]
  <2>1. 1 \in 1..(Len(q) + 1)
    BY <1>1, TextPlaces
  <2>2. EscapesFrom(q)[<<1, FALSE>>] \in Body
    BY <1>1, <2>1, StateTypes
  <2>3. QED BY <2>2, EscapesIsFrom
<1> HIDE DEF e
<1>3. 1 \in Nat /\ 1 >= 1 /\ 1 \in 1..(Len(s) + 1) /\ 1 \in 1..(Len(q) + 1) /\ 1 \in 1..(Len(e) + 1)
  BY <1>1, <1>2, TextPlaces
<1>4. Copies(q, 1, FALSE, FALSE)
  <2>1. Behind(q, 1, KeysFrom(s)[<<1, FALSE, FALSE>>])
    BY <1>1, WholeBehind
  <2>2. QED BY <1>1, <1>3, <2>1, KeysSettle
<1>5. Copies(e, 1, FALSE, FALSE)
  <2>1. Behind(e, 1, EscapesFrom(q)[<<1, FALSE>>])
    BY <1>2, WholeBehind
  <2>2. \A i \in 1..(Len(q) + 1), b, key \in BOOLEAN, k \in Nat :
          k >= 1 /\ Copies(q, i, b, key) /\ Behind(e, k, EscapesFrom(q)[<<i, b>>]) => Copies(e, k, b, key)
    BY ONLY <1>1, <1>2, EscapesSettle
  <2>3. FALSE \in BOOLEAN
    OBVIOUS
  <2>4. QED BY ONLY <1>3, <1>4, <2>1, <2>2, <2>3, Zenon
<1>6. QuoteBareKeys(e) = e
  <2>1. KeysFrom(e)[<<1, FALSE, FALSE>>] \in Body
    BY <1>2, <1>3, StateTypes
  <2>2. Behind(e, 1, KeysFrom(e)[<<1, FALSE, FALSE>>])
    BY <1>5 DEF Copies
  <2>3. KeysFrom(e)[<<1, FALSE, FALSE>>] = e
    BY <1>2, <2>1, <2>2, BehindWhole
  <2>4. QED BY <2>3, KeysIsFrom
<1>7. QED BY ONLY <1>1, <1>2, <1>6, Zenon DEF q, e

-----------------------------------------------------------------------------
(***************************************************************************)
(* Strings JSON accepts.                                                   *)
(***************************************************************************)

(* A function that is the same at d and at the later place next[d], unless  *)
(* it stops at d                                                            *)
Chase(m, V, stop, base, next) ==
  /\ m \in Nat /\ base \in [1..m -> V] /\ next \in [1..m -> 1..m]
  /\ \A d \in 1..m : d \notin stop => next[d] > d

LEMMA ChaseExists ==
  ASSUME NEW m, NEW V, NEW stop, NEW base, NEW next, Chase(m, V, stop, base, next)
  PROVE  \E f \in [1..m -> V] : \A d \in 1..m : f[d] = IF d \in stop THEN base[d] ELSE f[next[d]]
<1> DEFINE D    == 1..m
           step == [d \in D |-> [v \in V |-> v]]
           rank == [d \in D |-> m - d]
<1>1. /\ m \in Nat /\ base \in [D -> V] /\ next \in [D -> D]
      /\ \A d \in D : d \notin stop => next[d] > d
  BY DEF Chase
<1>2. step \in [D -> [V -> V]]
  OBVIOUS
<1>3. rank \in [D -> Nat] /\ \A d \in D : rank[d] <= m /\ rank[d] = m - d
  BY <1>1
<1> HIDE DEF rank
<1>4. ASSUME NEW d \in D \ stop PROVE rank[next[d]] < rank[d]
  <2>1. next[d] \in D /\ d \in D /\ next[d] > d
    BY <1>1
  <2>2. rank[next[d]] = m - next[d] /\ rank[d] = m - d
    BY <1>3, <2>1
  <2>3. QED BY <1>1, <2>1, <2>2
<1> HIDE DEF step
<1>5. Descends(D, V, stop, base, next, step, rank, m)
  BY <1>1, <1>2, <1>3, <1>4 DEF Descends
<1> HIDE DEF D
<1>6. PICK f \in [D -> V] : \A d \in D : f[d] = IF d \in stop THEN base[d] ELSE step[d][f[next[d]]]
  BY ONLY <1>5, Recursion
<1>7. ASSUME NEW d \in D PROVE step[d][f[next[d]]] = f[next[d]]
  <2>1. f[next[d]] \in V
    BY <1>1, <1>6
  <2>2. QED BY <2>1 DEF step
<1>8. \A d \in D : f[d] = IF d \in stop THEN base[d] ELSE f[next[d]]
  BY ONLY <1>6, <1>7, Zenon
<1>9. QED BY ONLY <1>6, <1>8, Zenon DEF D

(* The places behind the strings *)
IsEnds(end, s) ==
  end = [j \in 1..(Len(s) + 1) |->
           IF At(s, j) = Quote THEN j + 1
           ELSE IF At(s, j) = Backslash /\ At(s, j + 1) \in Escapable THEN end[j + 2]
           ELSE IF At(s, j) \in Plain THEN end[j + 1]
           ELSE 0]

EndsFrom(s) == CHOOSE end : IsEnds(end, s)

LEMMA StringEndIs ==
  ASSUME NEW s, NEW i
  PROVE  StringEnd(s, i) = IF At(s, i) = Quote THEN EndsFrom(s)[i + 1] ELSE 0
  BY DEF StringEnd, EndsFrom, IsEnds

LEMMA EndsChosen ==
  ASSUME NEW s, \E end : IsEnds(end, s)
  PROVE  IsEnds(EndsFrom(s), s)
  BY Zenon DEF EndsFrom

LEMMA EndsAre ==
  ASSUME NEW s \in Body
  PROVE  \A j \in 1..(Len(s) + 1) :
           /\ EndsFrom(s)[j] =
                IF At(s, j) = Quote THEN j + 1
                ELSE IF At(s, j) = Backslash /\ At(s, j + 1) \in Escapable THEN EndsFrom(s)[j + 2]
                ELSE IF At(s, j) \in Plain THEN EndsFrom(s)[j + 1]
                ELSE 0
           /\ EndsFrom(s)[j] # 0 => EndsFrom(s)[j] \in (j + 1)..(Len(s) + 1)
<1> DEFINE n == Len(s)
           m == n + 1
           Esc(j) == At(s, j) = Backslash /\ At(s, j + 1) \in Escapable
           stop == {j \in 1..m : At(s, j) = Quote \/ (~Esc(j) /\ At(s, j) \notin Plain)}
           base == [j \in 1..m |-> IF At(s, j) = Quote THEN j + 1 ELSE 0]
           next == [j \in 1..m |-> IF j \in stop THEN j ELSE IF Esc(j) THEN j + 2 ELSE j + 1]
<1>1. n \in Nat /\ m \in Nat /\ m = n + 1
  BY TextPlaces
<1>2. \A i : At(s, i) # Nil => i \in 1..n
  BY TextPlaces
<1>3. Quote # Nil /\ Backslash # Nil /\ Nil \notin Plain /\ Nil \notin Escapable
      /\ Quote # Backslash /\ Quote \notin Plain /\ Backslash \notin Plain
  BY SignsAre, Classes
<1>4. /\ \A j : At(s, j) = Quote => j \in 1..n
      /\ \A j : Esc(j) => j \in 1..n /\ j + 1 \in 1..n
      /\ \A j : At(s, j) \in Plain => j \in 1..n
  BY <1>2, <1>3
<1>5. \A j \in 1..m : j \notin stop => next[j] \in 1..m /\ next[j] > j
  <2> SUFFICES ASSUME NEW j \in 1..m, j \notin stop PROVE next[j] \in 1..m /\ next[j] > j
    OBVIOUS
  <2>1. CASE Esc(j)
    <3>1. next[j] = j + 2 /\ j + 1 \in 1..n /\ j \in 1..n
      BY <1>4, <2>1
    <3> HIDE DEF next
    <3>2. QED BY <1>1, <3>1
  <2>2. CASE ~Esc(j)
    <3>1. next[j] = j + 1 /\ j \in 1..n
      BY <1>4, <2>2
    <3> HIDE DEF next
    <3>2. QED BY <1>1, <3>1
  <2>3. QED BY <2>1, <2>2
<1>6. next \in [1..m -> 1..m]
  <2>1. ASSUME NEW j \in 1..m PROVE next[j] \in 1..m
    <3>1. CASE j \in stop
      <4> HIDE DEF stop
      <4>1. QED BY <3>1
    <3>2. CASE j \notin stop
      BY <1>5, <3>2
    <3>3. QED BY <3>1, <3>2
  <2> DEFINE to(j) == IF j \in stop THEN j ELSE IF Esc(j) THEN j + 2 ELSE j + 1
  <2>2. next = [j \in 1..m |-> to(j)] /\ \A j \in 1..m : next[j] = to(j)
    OBVIOUS
  <2> HIDE DEF to, next
  <2>3. QED BY <2>1, <2>2
<1>7. base \in [1..m -> Nat]
  BY <1>1
<1>8. \A j \in 1..m : base[j] = IF At(s, j) = Quote THEN j + 1 ELSE 0
  OBVIOUS
<1>9. \A j \in 1..m : next[j] = IF j \in stop THEN j ELSE IF Esc(j) THEN j + 2 ELSE j + 1
  OBVIOUS
<1>10. \A j \in 1..m : j \in stop <=> At(s, j) = Quote \/ (~Esc(j) /\ At(s, j) \notin Plain)
  OBVIOUS
<1>11. \A j : ~(At(s, j) = Quote /\ Esc(j)) /\ ~(At(s, j) \in Plain /\ (Esc(j) \/ At(s, j) = Quote))
  BY <1>3
<1> HIDE DEF stop, base, next
<1>12. Chase(m, Nat, stop, base, next)
  BY ONLY <1>1, <1>5, <1>6, <1>7 DEF Chase
<1>13. PICK f \in [1..m -> Nat] : \A j \in 1..m : f[j] = IF j \in stop THEN base[j] ELSE f[next[j]]
  BY ONLY <1>12, ChaseExists
<1>14. ASSUME NEW j \in 1..m
       PROVE  f[j] = IF At(s, j) = Quote THEN j + 1
                     ELSE IF Esc(j) THEN f[j + 2]
                     ELSE IF At(s, j) \in Plain THEN f[j + 1]
                     ELSE 0
  <2> HIDE DEF Esc, m
  <2>1. CASE At(s, j) = Quote
    BY <1>8, <1>10, <1>13, <2>1, Zenon
  <2>2. CASE Esc(j)
    BY <1>9, <1>10, <1>11, <1>13, <2>2, Zenon
  <2>3. CASE At(s, j) \in Plain
    BY <1>9, <1>10, <1>11, <1>13, <2>3, Zenon
  <2>4. CASE At(s, j) # Quote /\ ~Esc(j) /\ At(s, j) \notin Plain
    BY <1>8, <1>10, <1>13, <2>4, Zenon
  <2>5. QED BY ONLY <2>1, <2>2, <2>3, <2>4, Zenon
<1>15. IsEnds(f, s)
  <2>1. f = [j \in 1..m |-> IF At(s, j) = Quote THEN j + 1
                            ELSE IF Esc(j) THEN f[j + 2]
                            ELSE IF At(s, j) \in Plain THEN f[j + 1]
                            ELSE 0]
    <3> HIDE DEF Esc, m
    <3>1. QED BY ONLY <1>13, <1>14
  <2>2. QED BY ONLY <2>1, Zenon DEF IsEnds, Esc, m, n
<1> DEFINE g == EndsFrom(s)
<1>16. IsEnds(g, s)
  BY ONLY <1>15, EndsChosen
<1> HIDE DEF g
<1>17. \A j \in 1..m : g[j] = IF At(s, j) = Quote THEN j + 1
                              ELSE IF Esc(j) THEN g[j + 2]
                              ELSE IF At(s, j) \in Plain THEN g[j + 1]
                              ELSE 0
  BY ONLY <1>16, Zenon DEF IsEnds, Esc, m, n
<1> DEFINE T == {j \in 1..m : g[j] # 0 => g[j] \in (j + 1)..m}
<1>18. ASSUME NEW j \in 1..m, \A i \in 1..m : i > j => i \in T PROVE j \in T
  <2> SUFFICES ASSUME g[j] # 0 PROVE g[j] \in (j + 1)..m
    OBVIOUS
  <2> HIDE DEF Esc, m
  <2>1. CASE At(s, j) = Quote
    <3>1. g[j] = j + 1
      BY <1>17, <2>1, Zenon
    <3>2. j \in 1..n
      BY <1>4, <2>1
    <3>3. QED BY <1>1, <3>1, <3>2
  <2>2. CASE Esc(j)
    <3>1. g[j] = g[j + 2]
      BY <1>11, <1>17, <2>2, Zenon
    <3>2. j + 2 \in 1..m /\ j + 2 > j
      BY <1>1, <1>4, <2>2
    <3>3. g[j + 2] # 0 => g[j + 2] \in (j + 2 + 1)..m
      BY <1>18, <3>2
    <3>4. QED BY <1>1, <3>1, <3>3
  <2>3. CASE At(s, j) \in Plain
    <3>1. g[j] = g[j + 1]
      BY <1>11, <1>17, <2>3, Zenon
    <3>2. j + 1 \in 1..m /\ j + 1 > j
      BY <1>1, <1>4, <2>3
    <3>3. g[j + 1] # 0 => g[j + 1] \in (j + 1 + 1)..m
      BY <1>18, <3>2
    <3>4. QED BY <1>1, <3>1, <3>3
  <2>4. CASE At(s, j) # Quote /\ ~Esc(j) /\ At(s, j) \notin Plain
    BY <1>17, <2>4, Zenon
  <2>5. QED BY ONLY <2>1, <2>2, <2>3, <2>4, Zenon
<1> HIDE DEF T, m
<1>19. 1..m \subseteq T
  <2>1. m \in Nat
    BY <1>1
  <2>2. QED BY ONLY <1>18, <2>1, DownInduction
<1>20. \A j \in 1..m : g[j] # 0 => g[j] \in (j + 1)..m
  BY ONLY <1>19 DEF T
<1>21. QED BY ONLY <1>17, <1>20, Zenon DEF Esc, m, n, g

IsValid(from, s) ==
  from = [i \in 1..(Len(s) + 1) |->
            IF i > Len(s) THEN TRUE
            ELSE IF s[i] = Quote THEN StringEnd(s, i) # 0 /\ from[StringEnd(s, i)]
            ELSE from[i + 1]]

ValidFrom(s) == CHOOSE from : IsValid(from, s)

LEMMA ValidIsFrom ==
  ASSUME NEW s
  PROVE  StringsValid(s) = ValidFrom(s)[1]
  BY DEF StringsValid, ValidFrom, IsValid

LEMMA ValidChosen ==
  ASSUME NEW s, \E from : IsValid(from, s)
  PROVE  IsValid(ValidFrom(s), s)
  BY Zenon DEF ValidFrom

LEMMA ValidAre ==
  ASSUME NEW s \in Body
  PROVE  \A i \in 1..(Len(s) + 1) :
           ValidFrom(s)[i] = IF i > Len(s) THEN TRUE
                             ELSE IF s[i] = Quote THEN StringEnd(s, i) # 0 /\ ValidFrom(s)[StringEnd(s, i)]
                             ELSE ValidFrom(s)[i + 1]
<1> DEFINE n == Len(s)
           m == n + 1
           stop == {i \in 1..m : i > n \/ (s[i] = Quote /\ StringEnd(s, i) = 0)}
           base == [i \in 1..m |-> i > n]
           next == [i \in 1..m |-> IF i \in stop THEN i ELSE IF s[i] = Quote THEN StringEnd(s, i) ELSE i + 1]
<1>1. n \in Nat /\ m \in Nat /\ m = n + 1
  BY TextPlaces
<1>2. \A i \in 1..m : i \notin stop => next[i] \in 1..m /\ next[i] > i
  <2> SUFFICES ASSUME NEW i \in 1..m, i \notin stop PROVE next[i] \in 1..m /\ next[i] > i
    OBVIOUS
  <2>1. i \in 1..n /\ i + 1 \in 1..m
    BY <1>1
  <2>2. CASE s[i] = Quote
    <3>1. next[i] = StringEnd(s, i) /\ StringEnd(s, i) # 0
      BY <2>1, <2>2
    <3> HIDE DEF next, stop
    <3>2. StringEnd(s, i) = EndsFrom(s)[i + 1]
      BY <2>1, <2>2, StringEndIs, TextPlaces
    <3>3. EndsFrom(s)[i + 1] # 0 => EndsFrom(s)[i + 1] \in ((i + 1) + 1)..m
      BY <2>1, EndsAre
    <3>4. QED BY <1>1, <2>1, <3>1, <3>2, <3>3
  <2>3. CASE s[i] # Quote
    <3>1. next[i] = i + 1
      BY <2>3
    <3> HIDE DEF next, stop
    <3>2. QED BY <2>1, <3>1
  <2>4. QED BY <2>2, <2>3
<1>3. base \in [1..m -> BOOLEAN]
  OBVIOUS
<1>4. \A i \in 1..m : base[i] = (i > n)
  OBVIOUS
<1>5. \A i \in 1..m : next[i] = IF i \in stop THEN i ELSE IF s[i] = Quote THEN StringEnd(s, i) ELSE i + 1
  OBVIOUS
<1>6. \A i \in 1..m : i \in stop <=> i > n \/ (s[i] = Quote /\ StringEnd(s, i) = 0)
  OBVIOUS
<1>7. next = [i \in 1..m |-> next[i]]
  OBVIOUS
<1> HIDE DEF stop, base, next
<1>8. \A i \in 1..m : next[i] \in 1..m
  BY ONLY <1>2, <1>5
<1>9. Chase(m, BOOLEAN, stop, base, next)
  BY ONLY <1>1, <1>2, <1>3, <1>7, <1>8 DEF Chase
<1>10. PICK f \in [1..m -> BOOLEAN] : \A i \in 1..m : f[i] = IF i \in stop THEN base[i] ELSE f[next[i]]
  BY ONLY <1>9, ChaseExists
<1>11. ASSUME NEW i \in 1..m
       PROVE  f[i] = IF i > n THEN TRUE
                     ELSE IF s[i] = Quote THEN StringEnd(s, i) # 0 /\ f[StringEnd(s, i)]
                     ELSE f[i + 1]
  <2>1. f[i] = IF i \in stop THEN base[i] ELSE f[next[i]]
    BY ONLY <1>10, Zenon
  <2> HIDE DEF m
  <2>2. CASE i > n
    <3>1. i \in stop /\ base[i] = (i > n)
      BY ONLY <1>4, <1>6, <2>2, i \in 1..m, Zenon
    <3>2. f[i] = (i > n)
      BY ONLY <2>1, <3>1, Zenon
    <3>3. QED BY ONLY <2>2, <3>2, Zenon
  <2>3. CASE ~(i > n) /\ s[i] = Quote /\ StringEnd(s, i) = 0
    <3>1. i \in stop /\ base[i] = (i > n)
      BY ONLY <1>4, <1>6, <2>3, i \in 1..m, Zenon
    <3>2. f[i] = (i > n)
      BY ONLY <2>1, <3>1, Zenon
    <3>3. QED BY ONLY <2>3, <3>2, Zenon
  <2>4. CASE ~(i > n) /\ s[i] = Quote /\ StringEnd(s, i) # 0
    <3>1. i \notin stop
      BY ONLY <1>6, <2>4, i \in 1..m, Zenon
    <3>2. next[i] = StringEnd(s, i)
      BY ONLY <1>5, <2>4, <3>1, i \in 1..m, Zenon
    <3>3. f[i] = f[StringEnd(s, i)]
      BY ONLY <2>1, <3>1, <3>2, Zenon
    <3>4. f[i] \in BOOLEAN
      BY <1>10 DEF m
    <3>5. f[i] = (StringEnd(s, i) # 0 /\ f[StringEnd(s, i)])
      BY ONLY <2>4, <3>3, <3>4, Zenon
    <3>6. QED BY ONLY <2>4, <3>5, Zenon
  <2>5. CASE ~(i > n) /\ s[i] # Quote
    <3>1. i \notin stop
      BY ONLY <1>6, <2>5, i \in 1..m, Zenon
    <3>2. next[i] = i + 1
      BY ONLY <1>5, <2>5, <3>1, i \in 1..m, Zenon
    <3>3. f[i] = f[i + 1]
      BY ONLY <2>1, <3>1, <3>2, Zenon
    <3>4. QED BY ONLY <2>5, <3>3, Zenon
  <2>6. QED BY ONLY <2>2, <2>3, <2>4, <2>5, Zenon
<1>12. IsValid(f, s)
  <2>1. f = [i \in 1..m |-> IF i > n THEN TRUE
                            ELSE IF s[i] = Quote THEN StringEnd(s, i) # 0 /\ f[StringEnd(s, i)]
                            ELSE f[i + 1]]
    <3>1. f = [i \in 1..m |-> f[i]]
      BY ONLY <1>10
    <3>2. QED BY ONLY <1>11, <3>1, Zenon
  <2>2. QED BY ONLY <2>1, Zenon DEF IsValid, m, n
<1>13. IsValid(ValidFrom(s), s)
  BY ONLY <1>12, ValidChosen
<1>14. QED BY ONLY <1>13, Zenon DEF IsValid

(* From k on, in this state, the strings of t are ones JSON accepts *)
Sound(t, k, b) ==
  IF b THEN EndsFrom(t)[k] # 0 /\ ValidFrom(t)[EndsFrom(t)[k]] ELSE ValidFrom(t)[k]

LEMMA SoundEnd ==
  ASSUME NEW t \in Body
  PROVE  Sound(t, Len(t) + 1, FALSE)
<1>1. Len(t) \in Nat
  BY TextPlaces
<1>2. Len(t) + 1 \in 1..(Len(t) + 1) /\ Len(t) + 1 > Len(t)
  BY <1>1
<1>3. ValidFrom(t)[Len(t) + 1]
  BY <1>2, ValidAre
<1>4. QED BY <1>3 DEF Sound

LEMMA SoundOutside ==
  ASSUME NEW t \in Body, NEW k \in 1..Len(t), t[k] # Quote, Sound(t, k + 1, FALSE)
  PROVE  Sound(t, k, FALSE)
<1>1. k \in 1..(Len(t) + 1) /\ ~(k > Len(t))
  BY TextPlaces
<1>2. ValidFrom(t)[k] = ValidFrom(t)[k + 1]
  BY <1>1, ValidAre
<1>3. QED BY <1>2 DEF Sound

LEMMA SoundOpens ==
  ASSUME NEW t \in Body, NEW k \in 1..Len(t), t[k] = Quote, Sound(t, k + 1, TRUE)
  PROVE  Sound(t, k, FALSE)
<1>1. k \in 1..(Len(t) + 1) /\ ~(k > Len(t)) /\ At(t, k) = t[k]
  BY TextPlaces
<1>2. ValidFrom(t)[k] = (StringEnd(t, k) # 0 /\ ValidFrom(t)[StringEnd(t, k)])
  BY <1>1, ValidAre
<1>3. StringEnd(t, k) = EndsFrom(t)[k + 1]
  BY <1>1, StringEndIs
<1>4. EndsFrom(t)[k + 1] # 0 /\ ValidFrom(t)[EndsFrom(t)[k + 1]]
  BY DEF Sound
<1>5. ValidFrom(t)[k]
  BY ONLY <1>2, <1>3, <1>4, Zenon
<1>6. QED BY <1>5 DEF Sound

LEMMA SoundCloses ==
  ASSUME NEW t \in Body, NEW k \in 1..Len(t), t[k] = Quote, Sound(t, k + 1, FALSE)
  PROVE  Sound(t, k, TRUE)
<1>1. k \in 1..(Len(t) + 1) /\ At(t, k) = t[k] /\ k + 1 # 0
  BY TextPlaces
<1>2. EndsFrom(t)[k] = k + 1
  BY <1>1, EndsAre
<1>3. ValidFrom(t)[k + 1]
  BY DEF Sound
<1>4. QED BY <1>1, <1>2, <1>3 DEF Sound

LEMMA SoundEscape ==
  ASSUME NEW t \in Body, NEW k \in 1..Len(t), k < Len(t), t[k] = Backslash, t[k + 1] \in Escapable,
         Sound(t, k + 2, TRUE)
  PROVE  Sound(t, k, TRUE)
<1>1. k \in 1..(Len(t) + 1) /\ k + 1 \in 1..Len(t)
  BY TextPlaces
<1>2. At(t, k) = t[k] /\ At(t, k + 1) = t[k + 1]
  BY <1>1, TextPlaces
<1>3. Backslash # Quote
  BY Classes
<1>4. EndsFrom(t)[k] = EndsFrom(t)[k + 2]
  BY <1>1, <1>2, <1>3, EndsAre
<1>5. QED BY <1>4 DEF Sound

LEMMA SoundPlain ==
  ASSUME NEW t \in Body, NEW k \in 1..Len(t), t[k] \in Plain, Sound(t, k + 1, TRUE)
  PROVE  Sound(t, k, TRUE)
<1>1. k \in 1..(Len(t) + 1) /\ At(t, k) = t[k]
  BY TextPlaces
<1>2. t[k] # Quote /\ t[k] # Backslash
  BY SignsAre
<1>3. EndsFrom(t)[k] = EndsFrom(t)[k + 1]
  BY <1>1, <1>2, EndsAre
<1>4. QED BY <1>3 DEF Sound

(* The ways a string the model left open is closed *)
Closes == {<<>>, <<Quote>>, <<Backslash, Quote>>}

(* Whatever ends in x and one of these is sound where x begins *)
Closing(x, b, close) ==
  \A t \in Body, k \in Nat : k >= 1 /\ Behind(t, k, x \o close) => Sound(t, k, b)

LEMMA ClosesText ==
  /\ Closes \subseteq Body /\ <<>> \in Closes /\ <<Quote>> \in Closes /\ <<Backslash, Quote>> \in Closes
<1>1. Quote \in Chars /\ Backslash \in Chars
  BY Classes
<1>2. <<>> \in Body
  BY EmptySeq DEF Body
<1>3. <<Quote>> \in Body /\ <<Backslash, Quote>> \in Body
  BY <1>1, OneAndTwo
<1>4. QED BY <1>2, <1>3 DEF Closes

(* One character more, or two, in front *)
LEMMA ClosingOne ==
  ASSUME NEW c \in Chars, NEW x \in Body, NEW close \in Closes, NEW b \in BOOLEAN, NEW b1 \in BOOLEAN,
         Closing(x, b1, close),
         \A t \in Body : \A k \in 1..Len(t) : t[k] = c /\ Sound(t, k + 1, b1) => Sound(t, k, b)
  PROVE  Closing(<<c>> \o x, b, close)
<1> SUFFICES ASSUME NEW t \in Body, NEW k \in Nat, k >= 1, Behind(t, k, (<<c>> \o x) \o close)
             PROVE  Sound(t, k, b)
  BY DEF Closing
<1>1. close \in Body /\ <<c>> \in Body
  BY ClosesText, OneAndTwo
<1>2. x \o close \in Body
  BY <1>1, ConcatProperties DEF Body
<1> DEFINE a == <<c>>
<1>3. (a \o x) \o close = a \o (x \o close)
  <2> HIDE DEF a
  <2>1. a \in Seq(Chars) /\ x \in Seq(Chars) /\ close \in Seq(Chars)
    BY <1>1 DEF a, Body
  <2>2. QED BY ONLY <2>1, ConcatAssociative
<1> DEFINE y == x \o close
<1>4. Behind(t, k, <<c>> \o y)
  <2>1. Behind(t, k, (a \o x) \o close)
    OBVIOUS
  <2> HIDE DEF a
  <2>2. Behind(t, k, a \o y)
    BY ONLY <1>3, <2>1, Zenon DEF y
  <2>3. QED BY <2>2 DEF a
<1>5. y \in Body
  BY <1>2
<1> HIDE DEF a, y
<1>6. k \in 1..Len(t) /\ t[k] = c /\ Behind(t, k + 1, y)
  BY ONLY <1>4, <1>5, t \in Body, k \in Nat, k >= 1, c \in Chars, BehindOne
<1>7. k + 1 \in Nat /\ k + 1 >= 1
  OBVIOUS
<1>8. Sound(t, k + 1, b1)
  <2>1. \A p \in Nat : p >= 1 /\ Behind(t, p, y) => Sound(t, p, b1)
    BY DEF Closing, y
  <2>2. QED BY ONLY <1>6, <1>7, <2>1
<1>9. QED BY ONLY <1>6, <1>8, t \in Body,
              \A t_1 \in Body : \A k_1 \in 1..Len(t_1) : t_1[k_1] = c /\ Sound(t_1, k_1 + 1, b1) => Sound(t_1, k_1, b)

LEMMA ClosingTwo ==
  ASSUME NEW d \in Escapable, NEW x \in Body, NEW close \in Closes, Closing(x, TRUE, close)
  PROVE  Closing(<<Backslash, d>> \o x, TRUE, close)
<1> SUFFICES ASSUME NEW t \in Body, NEW k \in Nat, k >= 1, Behind(t, k, (<<Backslash, d>> \o x) \o close)
             PROVE  Sound(t, k, TRUE)
  BY DEF Closing
<1>0. Backslash \in Chars /\ d \in Chars
  BY SignsAre
<1>1. close \in Body /\ <<Backslash, d>> \in Body
  BY <1>0, ClosesText, OneAndTwo
<1>2. x \o close \in Body
  BY <1>1, ConcatProperties DEF Body
<1> DEFINE a == <<Backslash, d>>
<1>3. (a \o x) \o close = a \o (x \o close)
  <2> HIDE DEF a
  <2>1. a \in Seq(Chars) /\ x \in Seq(Chars) /\ close \in Seq(Chars)
    BY <1>1 DEF a, Body
  <2>2. QED BY ONLY <2>1, ConcatAssociative
<1> DEFINE y == x \o close
<1>4. Behind(t, k, <<Backslash, d>> \o y)
  <2>1. Behind(t, k, (a \o x) \o close)
    OBVIOUS
  <2> HIDE DEF a
  <2>2. Behind(t, k, a \o y)
    BY ONLY <1>3, <2>1, Zenon DEF y
  <2>3. QED BY <2>2 DEF a
<1>5. y \in Body
  BY <1>2
<1> HIDE DEF a, y
<1>6. k \in 1..Len(t) /\ k < Len(t) /\ t[k] = Backslash /\ t[k + 1] = d /\ Behind(t, k + 2, y)
  BY ONLY <1>0, <1>4, <1>5, t \in Body, k \in Nat, k >= 1, BehindTwo
<1>7. k + 2 \in Nat /\ k + 2 >= 1
  OBVIOUS
<1>8. Sound(t, k + 2, TRUE)
  <2>1. \A p \in Nat : p >= 1 /\ Behind(t, p, y) => Sound(t, p, TRUE)
    BY DEF Closing, y
  <2>2. QED BY ONLY <1>6, <1>7, <2>1
<1>9. t[k + 1] \in Escapable
  BY <1>6
<1>10. QED BY ONLY <1>6, <1>8, <1>9, t \in Body, SoundEscape

LEMMA OneOne ==
  ASSUME NEW c \in Chars, NEW d \in Chars
  PROVE  <<c>> \o <<d>> = <<c, d>>
<1> DEFINE q == <<d>>
           r == <<c, d>>
<1>1. q \in Body /\ r \in Body
  BY OneAndTwo
<1>2. Len(q) = 1 /\ q[1] = d /\ Len(r) = 2 /\ r[1] = c /\ r[2] = d
  OBVIOUS
<1> HIDE DEF q, r
<1>3. Len(r) = Len(q) + 1 /\ \A i \in 1..Len(q) : r[1 + i] = q[i]
  <2>1. \A i \in 1..Len(q) : i = 1 /\ 1 + i = 2
    BY <1>2
  <2>2. QED BY <1>2, <2>1
<1>4. r = <<c>> \o q
  BY <1>1, <1>2, <1>3, IsCons DEF Body
<1>5. QED BY <1>4 DEF q, r

LEMMA ClosingEnds ==
  /\ Closing(<<>>, FALSE, <<>>) /\ Closing(<<>>, TRUE, <<Quote>>)
  /\ Closing(<<Backslash>> \o <<>>, TRUE, <<Backslash, Quote>>)
<1>1. <<>> \in Body /\ <<>> \in Closes /\ <<>> \o <<>> = <<>>
  BY ClosesText, ConcatEmptySeq DEF Body
<1>2. Closing(<<>>, FALSE, <<>>)
  <2> SUFFICES ASSUME NEW t \in Body, NEW k \in Nat, k >= 1, Behind(t, k, <<>> \o <<>>)
               PROVE  Sound(t, k, FALSE)
    BY DEF Closing
  <2>1. k = Len(t) + 1
    BY <1>1, BehindNothing
  <2>2. QED BY <2>1, SoundEnd
<1>3. ASSUME NEW t \in Body, NEW k \in Nat, k >= 1, Behind(t, k, <<Quote>>)
      PROVE  Sound(t, k, TRUE)
  <2>1. <<Quote>> = <<Quote>> \o <<>>
    <3> DEFINE a == <<Quote>>
    <3>1. a \in Seq(Chars)
      BY ClosesText DEF Body
    <3> HIDE DEF a
    <3>2. a = a \o <<>>
      BY <3>1, ConcatEmptySeq
    <3>3. QED BY <3>2 DEF a
  <2>2. Behind(t, k, <<Quote>> \o <<>>)
    BY ONLY <1>3, <2>1, Zenon
  <2>3. Quote \in Chars
    BY Classes
  <2>4. k \in 1..Len(t) /\ t[k] = Quote /\ Behind(t, k + 1, <<>>)
    BY <1>1, <1>3, <2>2, <2>3, BehindOne
  <2>5. k + 1 = Len(t) + 1
    BY <2>4, BehindNothing
  <2>6. Sound(t, k + 1, FALSE)
    BY <2>5, SoundEnd
  <2>7. QED BY <2>4, <2>6, SoundCloses
<1>4. Closing(<<>>, TRUE, <<Quote>>)
  <2>1. <<>> \o <<Quote>> = <<Quote>>
    BY ClosesText, ConcatEmptySeq DEF Body
  <2>2. QED BY <1>3, <2>1 DEF Closing
<1>5. Closing(<<Backslash>> \o <<>>, TRUE, <<Backslash, Quote>>)
  <2> SUFFICES ASSUME NEW t \in Body, NEW k \in Nat, k >= 1,
                      Behind(t, k, (<<Backslash>> \o <<>>) \o <<Backslash, Quote>>)
               PROVE  Sound(t, k, TRUE)
    BY DEF Closing
  <2>1. (<<Backslash>> \o <<>>) \o <<Backslash, Quote>> = <<Backslash, Backslash>> \o <<Quote>>
    <3> DEFINE a == <<Backslash>>
               u == <<Quote>>
    <3>1. a \in Seq(Chars) /\ u \in Seq(Chars)
      BY ClosesText, Classes DEF Body
    <3>2. a \o u = <<Backslash, Quote>> /\ a \o a = <<Backslash, Backslash>>
      BY OneOne, Classes
    <3> HIDE DEF a, u
    <3>3. a \o <<>> = a
      BY <3>1, ConcatEmptySeq
    <3>4. a \o (a \o u) = (a \o a) \o u
      BY ONLY <3>1, ConcatAssociative
    <3>5. QED BY ONLY <3>2, <3>3, <3>4, Zenon DEF a, u
  <2>2. Behind(t, k, <<Backslash, Backslash>> \o <<Quote>>)
    BY ONLY <2>1, Behind(t, k, (<<Backslash>> \o <<>>) \o <<Backslash, Quote>>), Zenon
  <2>3. Backslash \in Chars /\ <<Quote>> \in Body /\ Backslash \in Escapable
    BY Classes, ClosesText, SignsAre
  <2>4. k \in 1..Len(t) /\ k < Len(t) /\ t[k] = Backslash /\ t[k + 1] = Backslash /\ Behind(t, k + 2, <<Quote>>)
    BY <2>2, <2>3, BehindTwo
  <2>5. k + 2 \in Nat /\ k + 2 >= 1
    OBVIOUS
  <2>6. Sound(t, k + 2, TRUE)
    BY <1>3, <2>4, <2>5
  <2>7. QED BY <2>3, <2>4, <2>6, SoundEscape
<1>6. QED BY ONLY <1>2, <1>4, <1>5

(* What escape_string_controls makes of a text can be closed *)
LEMMA EscapesClose ==
  ASSUME NEW s \in Body
  PROVE  \A i \in 1..(Len(s) + 1), b \in BOOLEAN :
           \E close \in Closes : Closing(EscapesFrom(s)[<<i, b>>], b, close)
<1> DEFINE n == Len(s)
           m == n + 1
           Ends(i) == \A b \in BOOLEAN : \E close \in Closes : Closing(EscapesFrom(s)[<<i, b>>], b, close)
           T == {i \in 1..m : Ends(i)}
<1>1. n \in Nat /\ m \in Nat /\ m = n + 1 /\ \A j \in 1..n : s[j] \in Chars
  BY TextPlaces
<1>2. ASSUME NEW i \in 1..m, \A j \in 1..m : j > i => j \in T PROVE i \in T
  <2> SUFFICES ASSUME NEW b \in BOOLEAN
               PROVE  \E close \in Closes : Closing(EscapesFrom(s)[<<i, b>>], b, close)
    OBVIOUS
  <2>1. ASSUME NEW j \in 1..m, j > i PROVE Ends(j)
    <3> HIDE DEF Ends
    <3>1. QED BY <1>2, <2>1
  <2> DEFINE turn == EscapeTurn(s, <<i, b>>)
             out(j, a) == EscapesFrom(s)[<<j, a>>]
  <2>2. ASSUME NEW j \in 1..m, j > i, NEW a \in BOOLEAN
        PROVE  out(j, a) \in Body /\ \E close \in Closes : Closing(out(j, a), a, close)
    <3>1. out(j, a) \in Body
      BY <2>2, StateTypes DEF m, n
    <3>2. QED BY <2>1, <2>2, <3>1
  <2> HIDE DEF Ends
  <2>3. CASE i = m
    <3>1. out(m, b) = <<>>
      BY EscapesAre
    <3>2. EscapesFrom(s)[<<i, b>>] = <<>>
      BY ONLY <2>3, <3>1, Zenon
    <3>3. CASE b
      <4>1. Closing(<<>>, b, <<Quote>>) /\ <<Quote>> \in Closes
        <5>1. b = TRUE
          BY <3>3
        <5>2. QED BY ONLY <5>1, ClosingEnds, ClosesText, Zenon
      <4>2. QED BY ONLY <3>2, <4>1, Zenon
    <3>4. CASE ~b
      <4>1. Closing(<<>>, b, <<>>) /\ <<>> \in Closes
        <5>1. b = FALSE
          BY <3>4
        <5>2. QED BY ONLY <5>1, ClosingEnds, ClosesText, Zenon
      <4>2. QED BY ONLY <3>2, <4>1, Zenon
    <3>5. QED BY ONLY <3>3, <3>4, Zenon
  <2>4. CASE i \in 1..n
    <3> DEFINE c == s[i]
    <3>1. c \in Chars /\ i + 1 \in 1..m /\ i + 1 > i /\ AsChar(c) \in Chars
      BY <1>1, <2>4, AsCharIs
    <3>2. EscapesFrom(s)[<<i, b>>] = turn.push \o EscapesFrom(s)[turn.next]
      BY <2>4, EscapesAre
    <3>3. /\ b /\ Escaped(s, i) /\ s[i + 1] \in Escapable =>
                turn.push = <<Backslash, s[i + 1]>> /\ turn.next = <<i + 2, TRUE>>
          /\ b /\ Escaped(s, i) /\ s[i + 1] \notin Escapable =>
                turn.push = <<Backslash, Backslash>> /\ turn.next = <<i + 1, TRUE>>
          /\ b /\ c = LineFeed => turn.push = <<Backslash, Escape_n>> /\ turn.next = <<i + 1, TRUE>>
          /\ ~(b /\ (Escaped(s, i) \/ c = LineFeed)) =>
                turn.push = <<AsChar(c)>> /\ turn.next = <<i + 1, InString(b, c)>>
      BY <2>4, EscapeTurnIs
    <3>4. Backslash \in Escapable /\ Escape_n \in Escapable
      BY SignsAre
    <3>5. ASSUME NEW d \in Escapable, NEW j \in 1..m, j > i, b,
                 turn.push = <<Backslash, d>>, turn.next = <<j, TRUE>>
          PROVE  \E close \in Closes : Closing(EscapesFrom(s)[<<i, b>>], b, close)
      <4>1. EscapesFrom(s)[<<i, b>>] = <<Backslash, d>> \o out(j, TRUE)
        <5> HIDE DEF turn
        <5>1. QED BY ONLY <3>2, <3>5, Zenon
      <4>2. PICK close \in Closes : Closing(out(j, TRUE), TRUE, close)
        BY <2>2, <3>5
      <4>3. out(j, TRUE) \in Body
        BY <2>2, <3>5
      <4> HIDE DEF out
      <4>4. Closing(<<Backslash, d>> \o out(j, TRUE), TRUE, close)
        BY ONLY <3>5, <4>2, <4>3, ClosingTwo
      <4>5. b = TRUE
        BY <3>5
      <4>6. QED BY ONLY <4>1, <4>2, <4>4, <4>5, Zenon
    <3> DEFINE b1 == InString(b, c)
    <3>6. b1 \in BOOLEAN
      BY DEF InString
    <3>7. ASSUME turn.push = <<AsChar(c)>>, turn.next = <<i + 1, b1>>,
                 \A t \in Body : \A k \in 1..Len(t) : t[k] = AsChar(c) /\ Sound(t, k + 1, b1) => Sound(t, k, b)
          PROVE  \E close \in Closes : Closing(EscapesFrom(s)[<<i, b>>], b, close)
      <4>1. EscapesFrom(s)[<<i, b>>] = <<AsChar(c)>> \o out(i + 1, b1)
        <5> HIDE DEF turn, b1, c
        <5>1. QED BY ONLY <3>2, <3>7, Zenon
      <4> HIDE DEF b1, c
      <4>2. PICK close \in Closes : Closing(out(i + 1, b1), b1, close)
        BY <2>2, <3>1, <3>6
      <4>3. out(i + 1, b1) \in Body
        BY <2>2, <3>1, <3>6
      <4> HIDE DEF out
      <4>4. Closing(<<AsChar(c)>> \o out(i + 1, b1), b, close)
        BY ONLY <3>1, <3>6, <3>7, <4>2, <4>3, b \in BOOLEAN, ClosingOne
      <4>5. QED BY ONLY <4>1, <4>2, <4>4, Zenon
    <3>8. CASE b /\ Escaped(s, i) /\ s[i + 1] \in Escapable
      <4>1. i + 2 \in 1..m /\ i + 2 > i
        BY <1>1, <2>4, <3>8 DEF Escaped
      <4> HIDE DEF turn, out
      <4>2. QED BY ONLY <3>3, <3>5, <3>8, <4>1, Zenon
    <3>9. CASE b /\ Escaped(s, i) /\ s[i + 1] \notin Escapable
      <4> HIDE DEF turn, out
      <4>1. QED BY ONLY <3>1, <3>3, <3>4, <3>5, <3>9, Zenon
    <3>10. CASE b /\ c = LineFeed
      <4> HIDE DEF turn, out
      <4>1. QED BY ONLY <3>1, <3>3, <3>4, <3>5, <3>10, Zenon
    <3>11. CASE ~(b /\ (Escaped(s, i) \/ c = LineFeed))
      <4>1. turn.push = <<AsChar(c)>> /\ turn.next = <<i + 1, b1>>
        BY <3>3, <3>11
      <4>2. CASE ~b /\ c = Quote
        <5>1. b1 = TRUE /\ b = FALSE /\ AsChar(c) = Quote
          BY <3>1, <4>2, AsCharIs DEF InString
        <5>2. \A t \in Body : \A k \in 1..Len(t) : t[k] = Quote /\ Sound(t, k + 1, TRUE) => Sound(t, k, FALSE)
          BY SoundOpens
        <5> HIDE DEF b1, c, turn, out
        <5>3. QED BY ONLY <3>7, <4>1, <5>1, <5>2, Zenon
      <4>3. CASE ~b /\ c # Quote
        <5>1. b1 = FALSE /\ b = FALSE /\ AsChar(c) # Quote
          BY <3>1, <4>3, AsCharIs DEF InString
        <5>2. \A t \in Body : \A k \in 1..Len(t) : t[k] # Quote /\ Sound(t, k + 1, FALSE) => Sound(t, k, FALSE)
          BY SoundOutside
        <5> HIDE DEF b1, c, turn, out
        <5>3. QED BY ONLY <3>7, <4>1, <5>1, <5>2, Zenon
      <4>4. CASE b /\ c = Quote
        <5>1. b1 = FALSE /\ b = TRUE /\ AsChar(c) = Quote
          BY <3>1, <4>4, AsCharIs DEF InString
        <5>2. \A t \in Body : \A k \in 1..Len(t) : t[k] = Quote /\ Sound(t, k + 1, FALSE) => Sound(t, k, TRUE)
          BY SoundCloses
        <5> HIDE DEF b1, c, turn, out
        <5>3. QED BY ONLY <3>7, <4>1, <5>1, <5>2, Zenon
      <4>5. CASE b /\ c = Backslash
        <5>1. i + 1 = m /\ b1 = TRUE /\ b = TRUE /\ AsChar(c) = Backslash
          <6>1. ~Escaped(s, i)
            BY <3>11, <4>5
          <6>2. i + 1 = m
            BY <1>1, <2>4, <4>5, <6>1 DEF Escaped
          <6>3. QED BY <3>1, <4>5, <6>2, AsCharIs, Classes DEF InString
        <5>2. out(m, TRUE) = <<>>
          BY EscapesAre
        <5> HIDE DEF b1, c, turn
        <5>3. EscapesFrom(s)[<<i, b>>] = <<Backslash>> \o <<>>
          BY ONLY <3>2, <4>1, <5>1, <5>2, Zenon
        <5> HIDE DEF out
        <5>4. QED BY ONLY <5>1, <5>3, ClosingEnds, ClosesText, Zenon
      <4>6. CASE b /\ c # Quote /\ c # Backslash
        <5>1. c \in Plain /\ AsChar(c) \in Plain
          BY <3>1, <3>11, <4>6, SignsAre, AsCharIs
        <5>2. b1 = TRUE /\ b = TRUE
          BY <4>6 DEF InString
        <5>3. \A t \in Body : \A k \in 1..Len(t) : t[k] \in Plain /\ Sound(t, k + 1, TRUE) => Sound(t, k, TRUE)
          BY SoundPlain
        <5> HIDE DEF b1, c, turn, out
        <5>4. QED BY ONLY <3>7, <4>1, <5>1, <5>2, <5>3, Zenon
      <4> HIDE DEF c, turn, out
      <4>7. QED BY ONLY <4>2, <4>3, <4>4, <4>5, <4>6, Zenon
    <3> HIDE DEF c, turn, out
    <3>12. QED BY ONLY <3>8, <3>9, <3>10, <3>11, Zenon
  <2>5. i = m \/ i \in 1..n
    BY <1>1
  <2>6. QED BY <2>3, <2>4, <2>5
<1> HIDE DEF T, m
<1>3. 1..m \subseteq T
  <2>1. m \in Nat
    BY <1>1
  <2>2. QED BY ONLY <1>2, <2>1, DownInduction
<1>4. \A i \in 1..m : Ends(i)
  <2> HIDE DEF Ends
  <2>1. QED BY <1>3 DEF T
<1>5. QED BY <1>4 DEF m

(* The repairs finish the job whatever the model wrote: what comes out of   *)
(* quote_bare_keys and escape_string_controls has no bare key left and only *)
(* strings JSON accepts, the last one however it is closed                  *)
(* (json_lenient.rs:174, 400).                                              *)
THEOREM RepairsAlwaysSettle == Spec => []RepairsSettle
<1>1. ASSUME Types PROVE RepairsSettle
  <2> DEFINE q == QuoteBareKeys(body)
             e == EscapeStringControls(q)
  <2>1. body \in Body
    BY <1>1 DEF Types
  <2>2. q \in Body /\ e \in Body /\ QuoteBareKeys(e) = e
    BY <2>1, NoKeyLeft
  <2>3. e = EscapesFrom(q)[<<1, FALSE>>]
    BY EscapesIsFrom
  <2> HIDE DEF q, e
  <2>4. 1 \in 1..(Len(q) + 1) /\ FALSE \in BOOLEAN /\ 1 \in Nat /\ 1 >= 1
    BY <2>2, TextPlaces
  <2>5. PICK close \in Closes : Closing(e, FALSE, close)
    BY ONLY <2>2, <2>3, <2>4, EscapesClose
  <2> DEFINE t == e \o close
  <2>6. t \in Body
    BY <2>2, ClosesText, ConcatProperties DEF Body
  <2>7. Sound(t, 1, FALSE)
    <3>1. Behind(t, 1, t)
      BY <2>6, WholeBehind
    <3>2. QED BY <2>4, <2>5, <2>6, <3>1 DEF Closing
  <2>8. StringsValid(t)
    BY <2>7, ValidIsFrom DEF Sound
  <2>9. \E c \in Closes : StringsValid(e \o c)
    BY <2>5, <2>8
  <2>10. QED BY ONLY <2>2, <2>9, Zenon DEF RepairsSettle, Closes, q, e
<1>2. QED BY <1>1, BodyText, PTL

-----------------------------------------------------------------------------
(***************************************************************************)
(* Texts JSON accepts.                                                     *)
(***************************************************************************)

(* Names for what may come, and for more characters *)
AwaitsValue == "value"
AwaitsFirst == "first"
AwaitsItem  == "item"
AwaitsEnd   == "behind"
One         == "1"
OpenList    == "["
CloseList   == "]"

LEMMA JsonSigns ==
  /\ Awaited = {AwaitsValue, AwaitsFirst, AwaitsItem, AwaitsEnd}
  /\ AwaitsEnd \notin {AwaitsValue, AwaitsFirst, AwaitsItem}
  /\ AwaitsValue \notin {AwaitsFirst, AwaitsItem}
  /\ Closers = {Close, CloseList} /\ Close # CloseList /\ Comma \notin Closers
  /\ \A c \in {Open, OpenList, Close, CloseList, Comma, Colon, One, Quote} :
       /\ c \in Chars /\ c # Nil /\ c # Backslash /\ c \notin Blank /\ c \notin Letters /\ AsChar(c) = c
       /\ c # Quote => InString(FALSE, c) = FALSE
  /\ One \in Identifier /\ Nil \notin {One}
<1>1. Awaited = {AwaitsValue, AwaitsFirst, AwaitsItem, AwaitsEnd}
  BY Zenon DEF Awaited, AwaitsValue, AwaitsFirst, AwaitsItem, AwaitsEnd
<1>2. AwaitsEnd \notin {AwaitsValue, AwaitsFirst, AwaitsItem} /\ AwaitsValue \notin {AwaitsFirst, AwaitsItem}
  BY Zenon DEF AwaitsValue, AwaitsFirst, AwaitsItem, AwaitsEnd
<1>3. Closers = {Close, CloseList} /\ Close # CloseList /\ Comma \notin Closers
  BY Zenon DEF Closers, Close, CloseList, Comma
<1>4. ASSUME NEW c \in {Open, OpenList, Close, CloseList, Comma, Colon, One, Quote}
      PROVE  c \in Chars /\ c # Nil /\ c # Backslash /\ c \notin Blank /\ c \notin Letters /\ AsChar(c) = c
  <2>1. CASE c = Open
    BY <2>1, Zenon DEF Open, Chars, Nil, Backslash, Blank, Letters, AsChar
  <2>2. CASE c = OpenList
    BY <2>2, Zenon DEF OpenList, Chars, Nil, Backslash, Blank, Letters, AsChar
  <2>3. CASE c = Close
    BY <2>3, Zenon DEF Close, Chars, Nil, Backslash, Blank, Letters, AsChar
  <2>4. CASE c = CloseList
    BY <2>4, Zenon DEF CloseList, Chars, Nil, Backslash, Blank, Letters, AsChar
  <2>5. CASE c = Comma
    BY <2>5, Zenon DEF Comma, Chars, Nil, Backslash, Blank, Letters, AsChar
  <2>6. CASE c = Colon
    BY <2>6, Zenon DEF Colon, Chars, Nil, Backslash, Blank, Letters, AsChar
  <2>7. CASE c = One
    BY <2>7, Zenon DEF One, Chars, Nil, Backslash, Blank, Letters, AsChar, Identifier
  <2>8. CASE c = Quote
    BY <2>8, Zenon DEF Quote, Chars, Nil, Backslash, Blank, Letters, AsChar
  <2>9. QED BY <2>1, <2>2, <2>3, <2>4, <2>5, <2>6, <2>7, <2>8, Zenon
<1>5. \A c : c # Quote => InString(FALSE, c) = FALSE
  BY Zenon DEF InString
<1>6. One \in Identifier /\ Nil \notin {One}
  BY Zenon DEF One, Identifier, Nil
<1>7. QED BY ONLY <1>1, <1>2, <1>3, <1>4, <1>5, <1>6, Zenon

JsonStates(s) == (0..(Len(s) + 1)) \X Awaited \X Seq(Closers)

IsReads(reads, s) ==
  reads = [at \in (0..(Len(s) + 1)) \X Awaited \X Seq(Closers) |->
             IF at[1] = 0 THEN FALSE
             ELSE IF at[2] = "behind" /\ at[3] = <<>> THEN Past(s, Blank, at[1]) > Len(s)
             ELSE reads[JsonTurn(s, at)]]

ReadsFrom(s) == CHOOSE reads : IsReads(reads, s)

LEMMA ReadsIsFrom ==
  ASSUME NEW s
  PROVE  IsJson(s) = ReadsFrom(s)[<<1, AwaitsValue, <<>>>>]
  BY Zenon DEF IsJson, ReadsFrom, IsReads, AwaitsValue

LEMMA ReadsChosen ==
  ASSUME NEW s, \E reads : IsReads(reads, s)
  PROVE  IsReads(ReadsFrom(s), s)
  BY Zenon DEF ReadsFrom

(* The next state where JSON reads on at <<i, a, open>>, here being the      *)
(* first character that is not blank                                        *)
Moves(s, i, a, open, here, next) ==
  \/ /\ a \in {AwaitsFirst, AwaitsEnd} /\ open # <<>> /\ At(s, here) = Head(open)
     /\ next = <<here + 1, AwaitsEnd, Tail(open)>>
  \/ /\ a = AwaitsEnd /\ open # <<>> /\ At(s, here) = Comma
     /\ next = <<here + 1, AwaitsItem, open>>
  \/ /\ a \in {AwaitsFirst, AwaitsItem} /\ open # <<>> /\ Head(open) = Close
     /\ StringEnd(s, here) # 0 /\ At(s, Past(s, Blank, StringEnd(s, here))) = Colon
     /\ next = <<Past(s, Blank, StringEnd(s, here)) + 1, AwaitsValue, open>>
  \/ /\ a # AwaitsEnd /\ ~(a \in {AwaitsFirst, AwaitsItem} /\ open # <<>> /\ Head(open) = Close)
     /\ \/ StringEnd(s, here) # 0 /\ next = <<StringEnd(s, here), AwaitsEnd, open>>
        \/ At(s, here) = One /\ next = <<Past(s, {One}, here), AwaitsEnd, open>>
        \/ At(s, here) = Open /\ next = <<here + 1, AwaitsFirst, <<Close>> \o open>>
        \/ At(s, here) = OpenList /\ next = <<here + 1, AwaitsFirst, <<CloseList>> \o open>>

LEMMA JsonTurnIs ==
  ASSUME NEW s, NEW i, NEW a, NEW open, NEW here, here = Past(s, Blank, i),
         NEW next, next = JsonTurn(s, <<i, a, open>>)
  PROVE  next = <<0, AwaitsEnd, <<>>>> \/ Moves(s, i, a, open, here, next)
<1> DEFINE c == At(s, here)
           string == StringEnd(s, here)
           colon == Past(s, Blank, string)
           isKey == a \in {AwaitsFirst, AwaitsItem} /\ open # <<>> /\ Head(open) = Close
           isItem == a # AwaitsEnd /\ ~isKey
           t1 == <<here + 1, AwaitsEnd, Tail(open)>>
           t2 == <<here + 1, AwaitsItem, open>>
           t3 == <<colon + 1, AwaitsValue, open>>
           t4 == <<string, AwaitsEnd, open>>
           t5 == <<Past(s, {One}, here), AwaitsEnd, open>>
           t6 == <<here + 1, AwaitsFirst, <<Close>> \o open>>
           t7 == <<here + 1, AwaitsFirst, <<CloseList>> \o open>>
           t8 == <<0, AwaitsEnd, <<>>>>
           c1 == a \in {AwaitsFirst, AwaitsEnd} /\ open # <<>> /\ c = Head(open)
           c2 == a = AwaitsEnd /\ open # <<>> /\ c = Comma
           c3 == isKey /\ string # 0 /\ At(s, colon) = Colon
           c4 == isItem /\ string # 0
           c5 == isItem /\ c = One
           c6 == isItem /\ c = Open
           c7 == isItem /\ c = OpenList
<1>1. <<i, a, open>>[1] = i /\ <<i, a, open>>[2] = a /\ <<i, a, open>>[3] = open
  OBVIOUS
<1>2. next = CASE c1 -> t1 [] c2 -> t2 [] c3 -> t3 [] c4 -> t4 [] c5 -> t5 [] c6 -> t6 [] c7 -> t7 [] OTHER -> t8
  BY <1>1, Zenon DEF JsonTurn, AwaitsValue, AwaitsFirst, AwaitsItem, AwaitsEnd, Comma, Close, Colon, One, Open, OpenList, CloseList
<1>3. \/ c1 /\ next = t1
      \/ c2 /\ next = t2
      \/ c3 /\ next = t3
      \/ c4 /\ next = t4
      \/ c5 /\ next = t5
      \/ c6 /\ next = t6
      \/ c7 /\ next = t7
      \/ next = t8
  <2> HIDE DEF c1, c2, c3, c4, c5, c6, c7, t1, t2, t3, t4, t5, t6, t7, t8
  <2>1. QED BY <1>2, Zenon
<1>4. QED BY <1>3, Zenon DEF Moves

LEMMA StringPlaces ==
  ASSUME NEW s \in Body, NEW i \in 1..(Len(s) + 1), StringEnd(s, i) # 0
  PROVE  /\ i \in 1..Len(s) /\ s[i] = Quote /\ StringEnd(s, i) = EndsFrom(s)[i + 1]
         /\ StringEnd(s, i) \in (i + 2)..(Len(s) + 1)
<1>1. At(s, i) = Quote /\ StringEnd(s, i) = EndsFrom(s)[i + 1]
  BY StringEndIs, Zenon
<1>2. Len(s) \in Nat /\ i \in 1..Len(s) /\ s[i] = Quote
  BY <1>1, TextPlaces, Classes
<1>3. i + 1 \in 1..(Len(s) + 1)
  BY <1>2
<1>4. EndsFrom(s)[i + 1] # 0 => EndsFrom(s)[i + 1] \in (i + 1 + 1)..(Len(s) + 1)
  BY ONLY <1>3, EndsAre, s \in Body
<1>5. QED BY <1>1, <1>2, <1>4

(* The state after one at i, at a later place *)
GoesOn(s, i, next) ==
  \E j, b, o : /\ next = <<j, b, o>> /\ j \in (i + 1)..(Len(s) + 1)
               /\ b \in Awaited /\ o \in Seq(Closers)

LEMMA MovesOn ==
  ASSUME NEW s \in Body, NEW i \in 1..(Len(s) + 1), NEW a \in Awaited, NEW open \in Seq(Closers),
         NEW here, here = Past(s, Blank, i), NEW next, Moves(s, i, a, open, here, next)
  PROVE  GoesOn(s, i, next)
<1>1. Len(s) \in Nat /\ \A k : At(s, k) # Nil => k \in 1..Len(s)
  BY TextPlaces
<1>2. here \in i..(Len(s) + 1)
  BY PastIs, Classes
<1>3. \A x : x # Nil /\ At(s, here) = x => here + 1 \in (i + 1)..(Len(s) + 1)
  BY <1>1, <1>2
<1>4. /\ AwaitsValue \in Awaited /\ AwaitsFirst \in Awaited /\ AwaitsItem \in Awaited /\ AwaitsEnd \in Awaited
      /\ Close \in Closers /\ CloseList \in Closers
      /\ Close # Nil /\ CloseList # Nil /\ Comma # Nil /\ One # Nil /\ Open # Nil /\ OpenList # Nil /\ Colon # Nil
  BY JsonSigns
<1>5. \A c \in Closers : c # Nil
  BY <1>4, JsonSigns
<1>6. ASSUME open # <<>> PROVE Head(open) \in Closers /\ Tail(open) \in Seq(Closers)
  BY <1>6, HeadTailProperties
<1>7. StringEnd(s, here) # 0 => StringEnd(s, here) \in (i + 1)..(Len(s) + 1)
  <2>1. here \in 1..(Len(s) + 1)
    BY <1>1, <1>2
  <2>2. StringEnd(s, here) # 0 => StringEnd(s, here) \in (here + 2)..(Len(s) + 1)
    BY <2>1, StringPlaces
  <2>3. QED BY <1>1, <1>2, <2>2
<1>8. ASSUME open # <<>>, At(s, here) = Head(open), next = <<here + 1, AwaitsEnd, Tail(open)>>
      PROVE  GoesOn(s, i, next)
  <2>1. here + 1 \in (i + 1)..(Len(s) + 1)
    BY <1>3, <1>5, <1>6, <1>8
  <2>2. QED BY ONLY <1>4, <1>6, <1>8, <2>1, Zenon DEF GoesOn
<1>9. ASSUME At(s, here) = Comma, next = <<here + 1, AwaitsItem, open>>
      PROVE  GoesOn(s, i, next)
  <2>1. here + 1 \in (i + 1)..(Len(s) + 1)
    BY <1>3, <1>4, <1>9
  <2>2. QED BY <1>4, <1>9, <2>1, Zenon DEF GoesOn
<1>10. ASSUME StringEnd(s, here) # 0, At(s, Past(s, Blank, StringEnd(s, here))) = Colon,
              next = <<Past(s, Blank, StringEnd(s, here)) + 1, AwaitsValue, open>>
       PROVE  GoesOn(s, i, next)
  <2> DEFINE end == StringEnd(s, here)
             colon == Past(s, Blank, end)
  <2> HIDE DEF end
  <2>1. end \in (i + 1)..(Len(s) + 1)
    BY <1>7, <1>10 DEF end
  <2>2. end \in 1..(Len(s) + 1)
    BY <1>1, <2>1
  <2>3. colon \in end..(Len(s) + 1)
    BY ONLY <2>2, PastIs, Classes, s \in Body
  <2> HIDE DEF colon
  <2>4. At(s, colon) = Colon /\ next = <<colon + 1, AwaitsValue, open>>
    BY ONLY <1>10, Zenon DEF colon, end
  <2>5. colon \in 1..Len(s)
    BY <1>1, <1>4, <2>4
  <2>6. colon + 1 \in (i + 1)..(Len(s) + 1)
    BY <1>1, <2>1, <2>3, <2>5
  <2>7. QED BY <1>4, <2>4, <2>6, Zenon DEF GoesOn
<1>11. ASSUME StringEnd(s, here) # 0, next = <<StringEnd(s, here), AwaitsEnd, open>>
       PROVE  GoesOn(s, i, next)
  BY <1>4, <1>7, <1>11, Zenon DEF GoesOn
<1>12. ASSUME At(s, here) = One, next = <<Past(s, {One}, here), AwaitsEnd, open>>
       PROVE  GoesOn(s, i, next)
  <2> DEFINE end == Past(s, {One}, here)
  <2>1. here \in 1..(Len(s) + 1)
    BY <1>1, <1>2
  <2>2. end \in here..(Len(s) + 1) /\ At(s, end) \notin {One}
    BY <2>1, PastIs, JsonSigns
  <2> HIDE DEF end
  <2>3. end # here
    BY <1>12, <2>2
  <2>4. end \in (i + 1)..(Len(s) + 1)
    BY <1>1, <1>2, <2>2, <2>3
  <2>5. QED BY <1>4, <1>12, <2>4, Zenon DEF GoesOn, end
<1>13. ASSUME NEW c \in {Close, CloseList}, NEW d \in {Open, OpenList}, At(s, here) = d,
              next = <<here + 1, AwaitsFirst, <<c>> \o open>>
       PROVE  GoesOn(s, i, next)
  <2>1. here + 1 \in (i + 1)..(Len(s) + 1)
    BY <1>3, <1>4, <1>13
  <2>2. <<c>> \o open \in Seq(Closers)
    <3>1. c \in Closers
      BY <1>4
    <3>2. <<c>> \in Seq(Closers)
      BY <3>1
    <3>3. QED BY <3>2, ConcatProperties
  <2>3. QED BY <1>4, <1>13, <2>1, <2>2, Zenon DEF GoesOn
<1>14. QED BY <1>8, <1>9, <1>10, <1>11, <1>12, <1>13, Zenon DEF Moves

LEMMA JsonTurnType ==
  ASSUME NEW s \in Body, NEW i \in 1..(Len(s) + 1), NEW a \in Awaited, NEW open \in Seq(Closers),
         NEW next, next = JsonTurn(s, <<i, a, open>>)
  PROVE  next \in JsonStates(s) /\ (next[1] = 0 \/ next[1] > i)
<1>1. CASE next = <<0, AwaitsEnd, <<>>>>
  <2>1. 0 \in 0..(Len(s) + 1)
    BY TextPlaces
  <2>2. AwaitsEnd \in Awaited /\ <<>> \in Seq(Closers)
    BY JsonSigns, EmptySeq
  <2>3. <<0, AwaitsEnd, <<>>>> \in JsonStates(s)
    BY ONLY <2>1, <2>2, Zenon DEF JsonStates
  <2>4. <<0, AwaitsEnd, <<>>>>[1] = 0
    OBVIOUS
  <2>5. QED BY ONLY <1>1, <2>3, <2>4, Zenon
<1>2. CASE Moves(s, i, a, open, Past(s, Blank, i), next)
  <2>1. GoesOn(s, i, next)
    BY <1>2, MovesOn
  <2>2. PICK j, b, o : /\ next = <<j, b, o>> /\ j \in (i + 1)..(Len(s) + 1)
                       /\ b \in Awaited /\ o \in Seq(Closers)
    BY <2>1, Zenon DEF GoesOn
  <2>3. j \in 0..(Len(s) + 1) /\ j > i
    BY <2>2, TextPlaces
  <2>4. QED BY <2>2, <2>3 DEF JsonStates
<1>3. QED BY <1>1, <1>2, JsonTurnIs, Zenon

LEMMA ReadsAre ==
  ASSUME NEW s \in Body
  PROVE  \A i \in 1..(Len(s) + 1), a \in Awaited, open \in Seq(Closers) :
           /\ ~ReadsFrom(s)[<<0, a, open>>]
           /\ a = AwaitsEnd /\ open = <<>> =>
                (ReadsFrom(s)[<<i, a, open>>] <=> Past(s, Blank, i) > Len(s))
           /\ ~(a = AwaitsEnd /\ open = <<>>) =>
                (ReadsFrom(s)[<<i, a, open>>] <=> ReadsFrom(s)[JsonTurn(s, <<i, a, open>>)])
<1> DEFINE D == JsonStates(s)
           Over(at) == at[2] = AwaitsEnd /\ at[3] = <<>>
           stop == {at \in D : at[1] = 0 \/ Over(at)}
           base == [at \in D |-> IF at[1] = 0 THEN FALSE ELSE Past(s, Blank, at[1]) > Len(s)]
           next == [at \in D |-> IF at \in stop THEN at ELSE JsonTurn(s, at)]
           N == Len(s) + 2
           rank == [at \in D |-> IF at[1] = 0 THEN 0 ELSE N - at[1]]
<1>1. Len(s) \in Nat /\ N \in Nat /\ N = Len(s) + 2
  BY TextPlaces
<1>2. \A at \in D : at[1] \in 0..(Len(s) + 1) /\ at = <<at[1], at[2], at[3]>> /\ at[2] \in Awaited /\ at[3] \in Seq(Closers)
  BY DEF JsonStates
<1>3. \A at \in D : at \in stop <=> at[1] = 0 \/ Over(at)
  OBVIOUS
<1>4. ASSUME NEW at \in D, at \notin stop
      PROVE  JsonTurn(s, at) \in D /\ (JsonTurn(s, at)[1] = 0 \/ JsonTurn(s, at)[1] > at[1]) /\ at[1] \in 1..(Len(s) + 1)
  <2> HIDE DEF D, Over, stop
  <2>1. at[1] # 0
    BY <1>3, <1>4, Zenon
  <2>2. at[1] \in 1..(Len(s) + 1)
    BY ONLY <1>1, <1>2, <1>4, <2>1
  <2>3. \A t : t = JsonTurn(s, <<at[1], at[2], at[3]>>) => t \in JsonStates(s) /\ (t[1] = 0 \/ t[1] > at[1])
    BY ONLY <1>2, <1>4, <2>2, JsonTurnType, s \in Body
  <2>4. QED BY ONLY <1>2, <1>4, <2>2, <2>3, Zenon DEF D
<1>5. rank \in [D -> Nat] /\ \A at \in D : rank[at] <= N /\ rank[at] = IF at[1] = 0 THEN 0 ELSE N - at[1]
  <2> HIDE DEF D
  <2>1. \A at \in D : /\ (IF at[1] = 0 THEN 0 ELSE N - at[1]) \in Nat
                      /\ (IF at[1] = 0 THEN 0 ELSE N - at[1]) <= N
    <3>1. \A k \in 0..(Len(s) + 1) : (IF k = 0 THEN 0 ELSE N - k) \in Nat /\ (IF k = 0 THEN 0 ELSE N - k) <= N
      BY <1>1
    <3>2. QED BY ONLY <1>2, <3>1, Zenon
  <2>2. QED BY ONLY <2>1
<1>6. \A at \in D : next[at] = IF at \in stop THEN at ELSE JsonTurn(s, at)
  <2> HIDE DEF D, stop
  <2>1. QED OBVIOUS
<1>7. next \in [D -> D]
  <2>1. \A at \in D : (IF at \in stop THEN at ELSE JsonTurn(s, at)) \in D
    <3> HIDE DEF D, stop
    <3>1. QED BY ONLY <1>4, Zenon
  <2> HIDE DEF D, stop
  <2>2. QED BY ONLY <2>1
<1>8. base \in [D -> BOOLEAN]
  <2> HIDE DEF D
  <2>1. ASSUME NEW at \in D PROVE (IF at[1] = 0 THEN FALSE ELSE Past(s, Blank, at[1]) > Len(s)) \in BOOLEAN
    <3>1. CASE at[1] = 0
      BY <3>1
    <3>2. CASE at[1] # 0
      <4>1. at[1] \in 1..(Len(s) + 1)
        BY ONLY <1>1, <1>2, <2>1, <3>2
      <4>2. Past(s, Blank, at[1]) \in at[1]..(Len(s) + 1)
        BY ONLY <4>1, PastIs, Classes, s \in Body
      <4>3. (Past(s, Blank, at[1]) > Len(s)) \in BOOLEAN
        BY ONLY <1>1, <4>1, <4>2
      <4>4. QED BY ONLY <3>2, <4>3, Zenon
    <3>3. QED BY ONLY <3>1, <3>2, Zenon
  <2>2. QED BY ONLY <2>1
<1>9. \A at \in D : base[at] = IF at[1] = 0 THEN FALSE ELSE Past(s, Blank, at[1]) > Len(s)
  <2> HIDE DEF D
  <2>1. QED BY Zenon
<1> HIDE DEF rank, next, base
<1>10. ASSUME NEW at \in D, at \notin stop PROVE rank[next[at]] < rank[at]
  <2> HIDE DEF D, stop, Over
  <2> DEFINE j == JsonTurn(s, at)
  <2>1. next[at] = j /\ j \in D /\ (j[1] = 0 \/ j[1] > at[1]) /\ at[1] \in 1..(Len(s) + 1)
    BY ONLY <1>4, <1>6, <1>10, Zenon
  <2> HIDE DEF j
  <2>2. rank[j] = (IF j[1] = 0 THEN 0 ELSE N - j[1]) /\ rank[at] = IF at[1] = 0 THEN 0 ELSE N - at[1]
    BY ONLY <1>5, <1>10, <2>1, Zenon
  <2>3. j[1] \in 0..(Len(s) + 1)
    BY ONLY <1>2, <2>1, Zenon
  <2>4. QED BY ONLY <1>1, <2>1, <2>2, <2>3
<1>11. PICK f \in [D -> BOOLEAN] : \A at \in D : f[at] = IF at \in stop THEN base[at] ELSE f[next[at]]
  <2> HIDE DEF D, stop, N
  <2>1. \A at \in D : rank[at] <= N
    BY ONLY <1>5, Zenon
  <2>2. Descent(D, BOOLEAN, stop, base, next, rank, N)
    BY ONLY <1>1, <1>5, <1>7, <1>8, <1>10, <2>1, Zenon DEF Descent
  <2>3. QED BY ONLY <2>2, DescentExists
<1>12. ASSUME NEW at \in D
       PROVE  f[at] = IF at[1] = 0 THEN FALSE ELSE IF Over(at) THEN Past(s, Blank, at[1]) > Len(s) ELSE f[JsonTurn(s, at)]
  <2> HIDE DEF D, stop, Over
  <2>1. QED BY ONLY <1>3, <1>6, <1>9, <1>11, <1>12, Zenon
<1>13. IsReads(f, s)
  <2>1. f = [at \in D |-> IF at[1] = 0 THEN FALSE ELSE IF Over(at) THEN Past(s, Blank, at[1]) > Len(s) ELSE f[JsonTurn(s, at)]]
    <3> HIDE DEF D, Over
    <3>1. QED BY ONLY <1>11, <1>12
  <2>2. QED BY ONLY <2>1, Zenon DEF IsReads, D, JsonStates, Over, AwaitsEnd
<1>14. IsReads(ReadsFrom(s), s)
  BY ONLY <1>13, ReadsChosen
<1> DEFINE g == ReadsFrom(s)
<1> HIDE DEF g
<1>15. \A at \in D : g[at] = IF at[1] = 0 THEN FALSE ELSE IF Over(at) THEN Past(s, Blank, at[1]) > Len(s) ELSE g[JsonTurn(s, at)]
  BY ONLY <1>14, Zenon DEF g, IsReads, D, JsonStates, Over, AwaitsEnd
<1>16. ASSUME NEW i \in 0..(Len(s) + 1), NEW a \in Awaited, NEW open \in Seq(Closers), NEW at, at = <<i, a, open>>
       PROVE  g[at] = IF i = 0 THEN FALSE ELSE IF a = AwaitsEnd /\ open = <<>> THEN Past(s, Blank, i) > Len(s)
                      ELSE g[JsonTurn(s, at)]
  <2>1. at \in D /\ at[1] = i /\ at[2] = a /\ at[3] = open
    BY ONLY <1>16 DEF D, JsonStates
  <2> HIDE DEF D
  <2>2. QED BY ONLY <1>15, <2>1, Zenon DEF Over
<1>17. \A i \in 1..(Len(s) + 1) : i \in 0..(Len(s) + 1) /\ i # 0
  BY <1>1
<1>18. 0 \in 0..(Len(s) + 1)
  BY <1>1
<1> SUFFICES ASSUME NEW i \in 1..(Len(s) + 1), NEW a \in Awaited, NEW open \in Seq(Closers)
             PROVE  /\ ~g[<<0, a, open>>]
                    /\ a = AwaitsEnd /\ open = <<>> => (g[<<i, a, open>>] <=> Past(s, Blank, i) > Len(s))
                    /\ ~(a = AwaitsEnd /\ open = <<>>) => (g[<<i, a, open>>] <=> g[JsonTurn(s, <<i, a, open>>)])
  BY Zenon DEF g
<1>19. g[<<0, a, open>>] = FALSE
  BY ONLY <1>16, <1>18, a \in Awaited, open \in Seq(Closers), Zenon
<1>20. g[<<i, a, open>>] = IF a = AwaitsEnd /\ open = <<>> THEN Past(s, Blank, i) > Len(s) ELSE g[JsonTurn(s, <<i, a, open>>)]
  BY ONLY <1>16, <1>17, i \in 1..(Len(s) + 1), a \in Awaited, open \in Seq(Closers), Zenon
<1>21. QED BY ONLY <1>19, <1>20, Zenon

(* JSON accepts what is in s from i on, in this state *)
Reads(s, i, a, open) == ReadsFrom(s)[<<i, a, open>>]

(* How JSON reads on where the first character that is not blank is at here *)
Ends(s, here, a, open) == a = AwaitsEnd /\ open = <<>> /\ here = Len(s) + 1

Shuts(s, here, a, open) ==
  /\ a \in {AwaitsFirst, AwaitsEnd} /\ open # <<>> /\ here \in 1..Len(s) /\ s[here] = Head(open)
  /\ Head(open) \in Closers /\ Tail(open) \in Seq(Closers) /\ Reads(s, here + 1, AwaitsEnd, Tail(open))

Parts(s, here, a, open) ==
  /\ a = AwaitsEnd /\ open # <<>> /\ here \in 1..Len(s) /\ s[here] = Comma
  /\ Reads(s, here + 1, AwaitsItem, open)

HasString(s, here, end) ==
  here \in 1..Len(s) /\ s[here] = Quote /\ end = EndsFrom(s)[here + 1] /\ end \in (here + 2)..(Len(s) + 1)

Names(s, here, a, open) ==
  \E end, colon \in 1..(Len(s) + 1) :
    /\ a \in {AwaitsFirst, AwaitsItem} /\ open # <<>> /\ Head(open) = Close /\ HasString(s, here, end)
    /\ colon = Past(s, Blank, end) /\ colon \in end..Len(s) /\ s[colon] = Colon
    /\ Reads(s, colon + 1, AwaitsValue, open)

Quotes(s, here, a, open) ==
  \E end \in 1..(Len(s) + 1) :
    a # AwaitsEnd /\ HasString(s, here, end) /\ Reads(s, end, AwaitsEnd, open)

Counts(s, here, a, open) ==
  \E end \in (here + 1)..(Len(s) + 1) :
    /\ a # AwaitsEnd /\ here \in 1..Len(s) /\ \A k \in here..(end - 1) : s[k] = One
    /\ Reads(s, end, AwaitsEnd, open)

Opens(s, here, a, open) ==
  \E c \in {Open, OpenList}, d \in Closers :
    /\ a # AwaitsEnd /\ here \in 1..Len(s) /\ s[here] = c /\ <<d>> \o open \in Seq(Closers)
    /\ Head(<<d>> \o open) = d /\ (d = Close => c = Open) /\ (c = Open => d = Close)
    /\ Reads(s, here + 1, AwaitsFirst, <<d>> \o open)

LEMMA JsonReads ==
  ASSUME NEW s \in Body, NEW i \in 1..(Len(s) + 1), NEW a \in Awaited, NEW open \in Seq(Closers),
         Reads(s, i, a, open), NEW here, here = Past(s, Blank, i)
  PROVE  /\ here \in i..(Len(s) + 1) /\ here \in 1..(Len(s) + 1)
         /\ \A k \in i..(here - 1) : k \in 1..Len(s) /\ s[k] \in Blank
         /\ \/ Ends(s, here, a, open)
            \/ Shuts(s, here, a, open)
            \/ Parts(s, here, a, open)
            \/ Names(s, here, a, open)
            \/ Quotes(s, here, a, open)
            \/ Counts(s, here, a, open)
            \/ Opens(s, here, a, open)
<1>1. /\ Len(s) \in Nat /\ \A k : At(s, k) # Nil => k \in 1..Len(s)
      /\ \A k \in 1..Len(s) : At(s, k) = s[k]
  BY TextPlaces
<1>2. /\ here \in i..(Len(s) + 1) /\ At(s, here) \notin Blank
      /\ \A k \in i..(here - 1) : At(s, k) \in Blank
  BY PastIs, Classes
<1>3. here \in 1..(Len(s) + 1)
  BY <1>1, <1>2
<1>4. \A k \in i..(here - 1) : k \in 1..Len(s) /\ s[k] \in Blank
  <2>1. \A k \in i..(here - 1) : k \in 1..Len(s)
    BY <1>1, <1>2
  <2>2. QED BY <1>1, <1>2, <2>1
<1>5. CASE a = AwaitsEnd /\ open = <<>>
  <2>1. here > Len(s)
    BY <1>5, ReadsAre DEF Reads
  <2>2. Ends(s, here, a, open)
    BY <1>1, <1>2, <1>5, <2>1 DEF Ends
  <2>3. QED BY <1>2, <1>3, <1>4, <2>2
<1>6. CASE ~(a = AwaitsEnd /\ open = <<>>)
  <2> DEFINE next == JsonTurn(s, <<i, a, open>>)
  <2>1. ReadsFrom(s)[next] /\ ~ReadsFrom(s)[<<0, AwaitsEnd, <<>>>>]
    <3>1. AwaitsEnd \in Awaited /\ <<>> \in Seq(Closers)
      BY JsonSigns, EmptySeq
    <3>2. QED BY <1>6, <3>1, ReadsAre DEF Reads
  <2>2. next = <<0, AwaitsEnd, <<>>>> \/ Moves(s, i, a, open, here, next)
    BY JsonTurnIs
  <2> HIDE DEF next
  <2>3. Moves(s, i, a, open, here, next)
    BY ONLY <2>1, <2>2, Zenon
  <2>4. \A j, b, o : next = <<j, b, o>> => Reads(s, j, b, o)
    BY ONLY <2>1, Zenon DEF Reads
  <2>5. \A c : At(s, here) = c /\ c # Nil => here \in 1..Len(s) /\ s[here] = c
    BY <1>1
  <2>6. /\ Comma # Nil /\ One # Nil /\ Open # Nil /\ OpenList # Nil /\ Colon # Nil
        /\ Close \in Closers /\ CloseList \in Closers /\ \A c \in Closers : c # Nil
    BY JsonSigns
  <2>7. open # <<>> => Head(open) \in Closers /\ Tail(open) \in Seq(Closers)
    BY HeadTailProperties
  <2>8. ASSUME StringEnd(s, here) # 0 PROVE HasString(s, here, StringEnd(s, here)) /\ StringEnd(s, here) \in 1..(Len(s) + 1)
    <3>1. /\ here \in 1..Len(s) /\ s[here] = Quote /\ StringEnd(s, here) = EndsFrom(s)[here + 1]
          /\ StringEnd(s, here) \in (here + 2)..(Len(s) + 1)
      BY <1>3, <2>8, StringPlaces
    <3>2. \A k \in (here + 2)..(Len(s) + 1) : k \in 1..(Len(s) + 1)
      BY <1>1, <1>3
    <3>3. QED BY ONLY <3>1, <3>2, Zenon DEF HasString
  <2>9. ASSUME a \in {AwaitsFirst, AwaitsEnd}, open # <<>>, At(s, here) = Head(open), next = <<here + 1, AwaitsEnd, Tail(open)>>
        PROVE  Shuts(s, here, a, open)
    <3>1. here \in 1..Len(s) /\ s[here] = Head(open)
      BY ONLY <2>5, <2>6, <2>7, <2>9, Zenon
    <3>2. QED BY ONLY <2>4, <2>7, <2>9, <3>1, Zenon DEF Shuts
  <2>10. ASSUME a = AwaitsEnd, open # <<>>, At(s, here) = Comma, next = <<here + 1, AwaitsItem, open>>
         PROVE  Parts(s, here, a, open)
    BY ONLY <2>4, <2>5, <2>6, <2>10, Zenon DEF Parts
  <2>11. ASSUME a \in {AwaitsFirst, AwaitsItem}, open # <<>>, Head(open) = Close, StringEnd(s, here) # 0, At(s, Past(s, Blank, StringEnd(s, here))) = Colon,
                next = <<Past(s, Blank, StringEnd(s, here)) + 1, AwaitsValue, open>>
         PROVE  Names(s, here, a, open)
    <3> DEFINE end == StringEnd(s, here)
               colon == Past(s, Blank, end)
    <3>1. HasString(s, here, end) /\ end \in 1..(Len(s) + 1)
      BY <2>8, <2>11
    <3> HIDE DEF end
    <3>2. colon \in end..(Len(s) + 1)
      BY ONLY <3>1, PastIs, Classes, s \in Body
    <3>3. colon \in 1..Len(s) /\ s[colon] = Colon
      <4>1. At(s, colon) = Colon
        BY <2>11 DEF end
      <4>2. QED BY <1>1, <2>6, <4>1
    <3>4. next = <<colon + 1, AwaitsValue, open>>
      BY <2>11 DEF end
    <3>5. Reads(s, colon + 1, AwaitsValue, open)
      BY ONLY <2>4, <3>4, Zenon
    <3>6. colon \in end..Len(s) /\ colon \in 1..(Len(s) + 1) /\ colon = Past(s, Blank, end)
      BY <1>1, <3>1, <3>2, <3>3
    <3> HIDE DEF colon
    <3>7. QED BY ONLY <2>11, <3>1, <3>3, <3>5, <3>6, Zenon DEF Names
  <2>12. ASSUME a # AwaitsEnd, StringEnd(s, here) # 0, next = <<StringEnd(s, here), AwaitsEnd, open>>
         PROVE  Quotes(s, here, a, open)
    BY ONLY <2>4, <2>8, <2>12, Zenon DEF Quotes
  <2>13. ASSUME a # AwaitsEnd, At(s, here) = One, next = <<Past(s, {One}, here), AwaitsEnd, open>>
         PROVE  Counts(s, here, a, open)
    <3> DEFINE end == Past(s, {One}, here)
    <3>1. here \in 1..Len(s) /\ s[here] = One
      BY ONLY <2>5, <2>6, <2>13, Zenon
    <3>2. end \in here..(Len(s) + 1) /\ At(s, end) \notin {One} /\ \A k \in here..(end - 1) : At(s, k) \in {One}
      BY <1>3, PastIs, JsonSigns
    <3>3. Reads(s, end, AwaitsEnd, open)
      BY ONLY <2>4, <2>13, Zenon
    <3> HIDE DEF end
    <3>4. end # here
      BY <2>13, <3>2
    <3>5. end \in (here + 1)..(Len(s) + 1)
      BY <1>1, <3>1, <3>2, <3>4
    <3>6. \A k \in here..(end - 1) : s[k] = One
      BY <1>1, <3>1, <3>2
    <3>7. QED BY ONLY <2>13, <3>1, <3>3, <3>5, <3>6, Zenon DEF Counts
  <2>14. ASSUME a # AwaitsEnd, NEW c \in {Open, OpenList}, NEW d \in Closers,
                At(s, here) = c, next = <<here + 1, AwaitsFirst, <<d>> \o open>>,
                d = Close => c = Open, c = Open => d = Close
         PROVE  Opens(s, here, a, open)
    <3>1. here \in 1..Len(s) /\ s[here] = c
      <4>1. c # Nil
        BY <2>6
      <4>2. At(s, here) = c
        BY <2>14
      <4>3. QED BY ONLY <2>5, <4>1, <4>2, Zenon
    <3>2. <<d>> \o open \in Seq(Closers) /\ Head(<<d>> \o open) = d
      <4>1. <<d>> \in Seq(Closers)
        OBVIOUS
      <4>2. <<d>> \o open \in Seq(Closers)
        BY <4>1, ConcatProperties
      <4>3. (<<d>> \o open)[1] = d
        BY <4>1, ConcatProperties
      <4>4. QED BY <4>2, <4>3
    <3>3. Reads(s, here + 1, AwaitsFirst, <<d>> \o open)
      BY ONLY <2>4, <2>14, Zenon
    <3>4. QED BY ONLY <2>14, <3>1, <3>2, <3>3, Zenon DEF Opens
  <2>15. \/ Shuts(s, here, a, open) \/ Parts(s, here, a, open) \/ Names(s, here, a, open)
         \/ Quotes(s, here, a, open) \/ Counts(s, here, a, open) \/ Opens(s, here, a, open)
    <3>1. Open \in {Open, OpenList} /\ OpenList \in {Open, OpenList} /\ Open # OpenList /\ Close # CloseList
      BY Zenon DEF Open, OpenList, Close, CloseList
    <3>2. QED BY ONLY <2>3, <2>6, <2>9, <2>10, <2>11, <2>12, <2>13, <2>14, <3>1, Zenon DEF Moves
  <2>16. QED BY ONLY <1>2, <1>3, <1>4, <2>15, Zenon
<1>7. QED BY <1>5, <1>6

(* Text outside ASCII is all that the pushing of bytes alters *)
LEMMA AsciiIs ==
  ASSUME NEW s \in Body, Ascii(s)
  PROVE  \A i \in 1..Len(s) : AsChar(s[i]) = s[i]
<1>1. DOMAIN s = 1..Len(s)
  BY TextPlaces
<1>2. \A i \in 1..Len(s) : s[i] \in ToSet(s)
  BY <1>1 DEF ToSet
<1>3. \A i \in 1..Len(s) : s[i] # "U"
  BY <1>2, Zenon DEF Ascii
<1>4. \A c : c # "U" => AsChar(c) = c
  BY Zenon DEF AsChar
<1>5. QED BY ONLY <1>3, <1>4, Zenon

(* From k on, in this state, escape_string_controls pushes what it reads *)
Escapes(t, k, b) == Behind(t, k, EscapesFrom(t)[<<k, b>>])

LEMMA EscapeOne ==
  ASSUME NEW t \in Body, NEW k \in 1..Len(t), NEW b \in BOOLEAN, ~(b /\ (Escaped(t, k) \/ t[k] = LineFeed)),
         AsChar(t[k]) = t[k], Escapes(t, k + 1, InString(b, t[k]))
  PROVE  Escapes(t, k, b)
<1> DEFINE b1 == InString(b, t[k])
           x  == EscapesFrom(t)[<<k + 1, b1>>]
           push == EscapeTurn(t, <<k, b>>).push
           next == EscapeTurn(t, <<k, b>>).next
<1>1. Len(t) \in Nat /\ k \in Nat /\ k >= 1 /\ k + 1 \in 1..(Len(t) + 1) /\ t[k] \in Chars
  BY TextPlaces
<1>2. b1 \in BOOLEAN
  BY Zenon DEF InString
<1>3. x \in Body
  BY <1>1, <1>2, StateTypes
<1>4. EscapesFrom(t)[<<k, b>>] = <<t[k]>> \o x
  <2>1. EscapesFrom(t)[<<k, b>>] = push \o EscapesFrom(t)[next]
    BY EscapesAre
  <2>2. EscapeTurns(t, k, b)
    BY EscapeTurnsAre
  <2> HIDE DEF b1
  <2>3. push = <<AsChar(t[k])>> /\ next = <<k + 1, InString(b, t[k])>>
    BY <2>2, Zenon DEF EscapeTurns
  <2>4. QED BY ONLY <2>1, <2>3, AsChar(t[k]) = t[k], Zenon DEF x, b1
<1>5. Behind(t, k + 1, x)
  BY Zenon DEF Escapes
<1> HIDE DEF x, b1
<1>6. Behind(t, k, <<t[k]>> \o x)
  BY <1>1, <1>3, <1>5, BehindOne
<1>7. QED BY ONLY <1>4, <1>6, Zenon DEF Escapes

LEMMA EscapeTwo ==
  ASSUME NEW t \in Body, NEW k \in 1..Len(t), Escaped(t, k), t[k + 1] \in Escapable, Escapes(t, k + 2, TRUE)
  PROVE  Escapes(t, k, TRUE)
<1> DEFINE x  == EscapesFrom(t)[<<k + 2, TRUE>>]
           push == EscapeTurn(t, <<k, TRUE>>).push
           next == EscapeTurn(t, <<k, TRUE>>).next
<1>1. /\ Len(t) \in Nat /\ k \in Nat /\ k >= 1 /\ k < Len(t) /\ t[k] = Backslash
      /\ k + 1 \in 1..Len(t) /\ k + 2 \in 1..(Len(t) + 1)
  BY TextPlaces DEF Escaped
<1>2. Backslash \in Chars /\ t[k + 1] \in Chars
  BY <1>1, TextPlaces, Classes
<1>3. x \in Body
  BY <1>1, StateTypes
<1>4. EscapesFrom(t)[<<k, TRUE>>] = <<Backslash, t[k + 1]>> \o x
  <2>1. EscapesFrom(t)[<<k, TRUE>>] = push \o EscapesFrom(t)[next]
    BY EscapesAre
  <2>2. EscapeTurns(t, k, TRUE)
    BY EscapeTurnsAre
  <2>3. push = <<Backslash, t[k + 1]>> /\ next = <<k + 2, TRUE>>
    BY <2>2, Zenon DEF EscapeTurns
  <2>4. QED BY ONLY <2>1, <2>3, Zenon DEF x
<1>5. Behind(t, k + 2, x)
  BY Zenon DEF Escapes
<1> HIDE DEF x
<1>6. Behind(t, k, <<Backslash, t[k + 1]>> \o x)
  BY <1>1, <1>2, <1>3, <1>5, BehindTwo
<1>7. QED BY ONLY <1>4, <1>6, Zenon DEF Escapes

(* From k on, outside of a string or in one, neither scanner alters t *)
Keeps(t, k) == (\A key \in BOOLEAN : Copies(t, k, FALSE, key)) /\ Escapes(t, k, FALSE)
KeepsIn(t, k) == Copies(t, k, TRUE, FALSE) /\ Escapes(t, k, TRUE)

LEMMA KeepsNothing ==
  ASSUME NEW t \in Body
  PROVE  Keeps(t, Len(t) + 1)
<1>1. \A key \in BOOLEAN : Copies(t, Len(t) + 1, FALSE, key)
  BY CopiesNothing
<1>2. Escapes(t, Len(t) + 1, FALSE)
  BY EscapesAre, BehindNothing DEF Escapes
<1>3. QED BY <1>1, <1>2 DEF Keeps

(* Structure: what is neither a letter nor a quote *)
LEMMA KeepsSign ==
  ASSUME NEW t \in Body, NEW k \in 1..Len(t), t[k] \notin Letters, t[k] # Quote, AsChar(t[k]) = t[k], Keeps(t, k + 1)
  PROVE  Keeps(t, k)
<1>1. InString(FALSE, t[k]) = FALSE
  BY Zenon DEF InString
<1>2. ASSUME NEW key \in BOOLEAN PROVE Copies(t, k, FALSE, key)
  <2>1. ~TakesKey(t, k, FALSE, key)
    BY DEF TakesKey
  <2>2. Expects(FALSE, key, t[k]) \in BOOLEAN
    BY Zenon DEF Expects
  <2>3. Copies(t, k + 1, InString(FALSE, t[k]), Expects(FALSE, key, t[k]))
    BY ONLY <1>1, <2>2, Keeps(t, k + 1), Zenon DEF Keeps
  <2>4. QED BY <2>1, <2>3, CopyOne
<1>3. Escapes(t, k, FALSE)
  <2>1. Escapes(t, k + 1, InString(FALSE, t[k]))
    BY ONLY <1>1, Keeps(t, k + 1), Zenon DEF Keeps
  <2>2. QED BY <2>1, EscapeOne
<1>4. QED BY <1>2, <1>3 DEF Keeps

LEMMA KeepsRun ==
  ASSUME NEW t \in Body, NEW i \in 1..(Len(t) + 1), NEW j \in i..(Len(t) + 1),
         \A k \in i..(j - 1) : t[k] \notin Letters /\ t[k] # Quote /\ AsChar(t[k]) = t[k], Keeps(t, j)
  PROVE  Keeps(t, i)
<1> DEFINE T == {k \in Nat : Keeps(t, k)}
<1>1. Len(t) \in Nat /\ i \in Nat /\ j \in Nat /\ i <= j /\ j \in T /\ i \in i..j
  BY TextPlaces
<1>2. ASSUME NEW k \in i..(j - 1), k + 1 \in T PROVE k \in T
  <2>1. k \in 1..Len(t)
    BY <1>1
  <2>2. Keeps(t, k)
    BY <1>2, <2>1, KeepsSign
  <2>3. QED BY <2>1, <2>2
<1> HIDE DEF T
<1>3. i \in T
  BY ONLY <1>1, <1>2, StepBack
<1>4. QED BY <1>3 DEF T

LEMMA KeepsInString ==
  ASSUME NEW t \in Body, Ascii(t), NEW end \in 1..(Len(t) + 1), Keeps(t, end)
  PROVE  \A k \in 1..(Len(t) + 1) : EndsFrom(t)[k] = end => KeepsIn(t, k)
<1> DEFINE n == Len(t) + 1
           T == {k \in 1..n : EndsFrom(t)[k] = end => KeepsIn(t, k)}
<1>1. n \in Nat /\ Len(t) \in Nat /\ n = Len(t) + 1 /\ \A k : At(t, k) # Nil => k \in 1..Len(t) /\ t[k] = At(t, k)
  BY TextPlaces
<1>2. ASSUME NEW k \in 1..n, \A j \in 1..n : j > k => j \in T, EndsFrom(t)[k] = end PROVE KeepsIn(t, k)
  <2>1. EndsFrom(t)[k] = IF At(t, k) = Quote THEN k + 1
                         ELSE IF At(t, k) = Backslash /\ At(t, k + 1) \in Escapable THEN EndsFrom(t)[k + 2]
                         ELSE IF At(t, k) \in Plain THEN EndsFrom(t)[k + 1]
                         ELSE 0
    BY EndsAre
  <2>2. Quote # Nil /\ Backslash # Nil /\ Nil \notin Plain /\ Nil \notin Escapable /\ end # 0
    BY SignsAre, Classes
  <2>3. CASE At(t, k) = Quote
    <3>1. k \in 1..Len(t) /\ t[k] = Quote /\ end = k + 1
      BY <1>1, <1>2, <2>1, <2>2, <2>3
    <3>2. ~Escaped(t, k) /\ ~TakesKey(t, k, TRUE, FALSE) /\ t[k] # LineFeed /\ AsChar(t[k]) = t[k]
      BY <3>1, Classes, SignsAre, AsciiIs DEF Escaped, TakesKey
    <3>3. InString(TRUE, t[k]) = FALSE /\ Expects(TRUE, FALSE, t[k]) = FALSE
      BY <3>1, Zenon DEF InString, Expects
    <3>4. Copies(t, k + 1, FALSE, FALSE) /\ Escapes(t, k + 1, FALSE)
      BY <3>1, Zenon DEF Keeps
    <3>5. Copies(t, k, TRUE, FALSE)
      <4>1. Copies(t, k + 1, InString(TRUE, t[k]), Expects(TRUE, FALSE, t[k]))
        BY ONLY <3>3, <3>4, Zenon
      <4>2. QED BY <3>1, <3>2, <4>1, CopyOne
    <3>6. Escapes(t, k, TRUE)
      <4>1. Escapes(t, k + 1, InString(TRUE, t[k]))
        BY ONLY <3>3, <3>4, Zenon
      <4>2. QED BY <3>1, <3>2, <4>1, EscapeOne
    <3>7. QED BY <3>5, <3>6 DEF KeepsIn
  <2>4. CASE At(t, k) # Quote /\ At(t, k) = Backslash /\ At(t, k + 1) \in Escapable
    <3>1. k \in 1..Len(t) /\ t[k] = Backslash /\ k + 1 \in 1..Len(t) /\ t[k + 1] \in Escapable
      BY <1>1, <2>2, <2>4
    <3>2. EndsFrom(t)[k + 2] = end /\ k + 2 \in 1..n /\ k + 2 > k
      BY <1>1, <1>2, <2>1, <2>4, <3>1
    <3>3. KeepsIn(t, k + 2)
      BY <1>2, <3>2
    <3>4. Escaped(t, k) /\ AsChar(t[k + 1]) = t[k + 1]
      BY <1>1, <3>1, AsciiIs DEF Escaped
    <3>5. Copies(t, k, TRUE, FALSE)
      BY <3>1, <3>3, <3>4, CopyTwo DEF KeepsIn
    <3>6. Escapes(t, k, TRUE)
      BY <3>1, <3>3, <3>4, EscapeTwo DEF KeepsIn
    <3>7. QED BY <3>5, <3>6 DEF KeepsIn
  <2>5. CASE ~(At(t, k) = Backslash /\ At(t, k + 1) \in Escapable) /\ At(t, k) \in Plain
    <3>1. k \in 1..Len(t) /\ t[k] \in Plain
      BY <1>1, <2>2, <2>5
    <3>2. t[k] # Quote /\ t[k] # Backslash /\ t[k] # LineFeed /\ AsChar(t[k]) = t[k]
      <4>1. LineFeed \notin Plain
        BY Zenon DEF Plain, LineFeed
      <4>2. QED BY <3>1, <4>1, SignsAre, AsciiIs
    <3>3. EndsFrom(t)[k + 1] = end /\ k + 1 \in 1..n /\ k + 1 > k
      <4>1. At(t, k) # Quote
        BY <1>1, <2>2, <2>5, <3>1, <3>2
      <4>2. QED BY <1>1, <1>2, <2>1, <2>5, <3>1, <4>1
    <3>4. KeepsIn(t, k + 1)
      BY <1>2, <3>3
    <3>5. ~Escaped(t, k) /\ ~TakesKey(t, k, TRUE, FALSE)
      BY <3>2 DEF Escaped, TakesKey
    <3>6. InString(TRUE, t[k]) = TRUE /\ Expects(TRUE, FALSE, t[k]) = FALSE
      BY <3>2, Zenon DEF InString, Expects
    <3>7. Copies(t, k, TRUE, FALSE)
      <4>1. Copies(t, k + 1, InString(TRUE, t[k]), Expects(TRUE, FALSE, t[k]))
        BY ONLY <3>4, <3>6, Zenon DEF KeepsIn
      <4>2. QED BY <3>1, <3>2, <3>5, <4>1, CopyOne
    <3>8. Escapes(t, k, TRUE)
      <4>1. Escapes(t, k + 1, InString(TRUE, t[k]))
        BY ONLY <3>4, <3>6, Zenon DEF KeepsIn
      <4>2. QED BY <3>1, <3>2, <3>5, <4>1, EscapeOne
    <3>9. QED BY <3>7, <3>8 DEF KeepsIn
  <2>6. QED BY <1>2, <2>1, <2>2, <2>3, <2>4, <2>5
<1>3. 1..n \subseteq T
  <2>1. ASSUME NEW k \in 1..n, \A j \in 1..n : j > k => j \in T PROVE k \in T
    <3> SUFFICES ASSUME EndsFrom(t)[k] = end PROVE KeepsIn(t, k)
      OBVIOUS
    <3> HIDE DEF T
    <3>1. QED BY ONLY <1>2, <2>1, EndsFrom(t)[k] = end, Zenon
  <2>2. n \in Nat
    BY <1>1
  <2> HIDE DEF T, n
  <2>3. QED BY ONLY <2>1, <2>2, DownInduction
<1>4. QED BY <1>3

(* A string *)
LEMMA KeepsString ==
  ASSUME NEW t \in Body, Ascii(t), NEW k, NEW end, HasString(t, k, end), Keeps(t, end)
  PROVE  Keeps(t, k)
<1>1. k \in 1..Len(t) /\ t[k] = Quote /\ end = EndsFrom(t)[k + 1] /\ end \in (k + 2)..(Len(t) + 1)
  BY DEF HasString
<1>2. Len(t) \in Nat /\ k + 1 \in 1..(Len(t) + 1) /\ end \in 1..(Len(t) + 1)
  BY <1>1, TextPlaces
<1>3. KeepsIn(t, k + 1)
  BY <1>1, <1>2, KeepsInString
<1>4. InString(FALSE, t[k]) = TRUE /\ AsChar(t[k]) = t[k] /\ t[k] \notin Letters
  <2>1. InString(FALSE, Quote) = TRUE
    BY Zenon DEF InString
  <2>2. QED BY <1>1, <2>1, AsCharIs, Classes
<1>5. ASSUME NEW key \in BOOLEAN PROVE Copies(t, k, FALSE, key)
  <2>1. ~TakesKey(t, k, FALSE, key)
    BY <1>4 DEF TakesKey
  <2>2. Expects(FALSE, key, t[k]) = FALSE
    BY <1>1, SignsAre, Classes DEF Expects
  <2>3. Copies(t, k + 1, InString(FALSE, t[k]), Expects(FALSE, key, t[k]))
    BY ONLY <1>3, <1>4, <2>2, Zenon DEF KeepsIn
  <2>4. QED BY <1>1, <1>4, <2>1, <2>3, CopyOne
<1>6. Escapes(t, k, FALSE)
  <2>1. Escapes(t, k + 1, InString(FALSE, t[k]))
    BY ONLY <1>3, <1>4, Zenon DEF KeepsIn
  <2>2. QED BY <1>1, <1>4, <2>1, EscapeOne
<1>7. QED BY <1>5, <1>6 DEF Keeps

(* Neither scanner alters what JSON reads *)
LEMMA JsonKept ==
  ASSUME NEW s \in Body, Ascii(s)
  PROVE  \A i \in 1..(Len(s) + 1), a \in Awaited, open \in Seq(Closers) : Reads(s, i, a, open) => Keeps(s, i)
<1> DEFINE m == Len(s) + 1
           Kept(i) == \A a \in Awaited, open \in Seq(Closers) : Reads(s, i, a, open) => Keeps(s, i)
           T == {i \in 1..m : Kept(i)}
<1>1. Len(s) \in Nat /\ m \in Nat /\ \A k \in 1..Len(s) : s[k] \in Chars /\ AsChar(s[k]) = s[k]
  BY TextPlaces, AsciiIs
<1>2. ASSUME NEW i \in 1..m, \A j \in 1..m : j > i => j \in T PROVE i \in T
  <2> SUFFICES ASSUME NEW a \in Awaited, NEW open \in Seq(Closers), Reads(s, i, a, open) PROVE Keeps(s, i)
    OBVIOUS
  <2> DEFINE here == Past(s, Blank, i)
  <2>1. ASSUME NEW j \in 1..m, j > i, NEW b \in Awaited, NEW o \in Seq(Closers), Reads(s, j, b, o)
        PROVE  Keeps(s, j)
    <3>1. Kept(j)
      <4> HIDE DEF Kept
      <4>1. QED BY <1>2, <2>1
    <3>2. QED BY ONLY <2>1, <3>1, Zenon
  <2> HIDE DEF Kept
  <2>2. /\ here \in i..(Len(s) + 1) /\ here \in 1..(Len(s) + 1)
        /\ \A k \in i..(here - 1) : k \in 1..Len(s) /\ s[k] \in Blank
        /\ \/ Ends(s, here, a, open)
           \/ Shuts(s, here, a, open)
           \/ Parts(s, here, a, open)
           \/ Names(s, here, a, open)
           \/ Quotes(s, here, a, open)
           \/ Counts(s, here, a, open)
           \/ Opens(s, here, a, open)
    BY JsonReads
  <2> HIDE DEF here
  <2>3. here \in i..(Len(s) + 1) /\ here \in 1..m /\ i \in 1..(Len(s) + 1)
    BY <2>2
  <2>4. AwaitsValue \in Awaited /\ AwaitsFirst \in Awaited /\ AwaitsItem \in Awaited /\ AwaitsEnd \in Awaited
    BY JsonSigns
  <2>5. ASSUME Keeps(s, here) PROVE Keeps(s, i)
    <3>1. \A k \in i..(here - 1) : s[k] \notin Letters /\ s[k] # Quote /\ AsChar(s[k]) = s[k]
      <4>1. \A c \in Blank : c \notin Letters /\ c # Quote
        BY Classes
      <4>2. QED BY ONLY <1>1, <2>2, <4>1
    <3>2. QED BY <2>3, <2>5, <3>1, KeepsRun
  <2>6. ASSUME here \in 1..Len(s), s[here] \notin Letters, s[here] # Quote,
               NEW b \in Awaited, NEW o \in Seq(Closers), Reads(s, here + 1, b, o)
        PROVE  Keeps(s, here)
    <3>1. here + 1 \in 1..m /\ here + 1 > i
      BY <1>1, <2>3, <2>6
    <3>2. Keeps(s, here + 1)
      BY ONLY <2>1, <2>6, <3>1, Zenon
    <3>3. QED BY <1>1, <2>6, <3>2, KeepsSign
  <2>7. CASE Ends(s, here, a, open)
    <3>1. here = Len(s) + 1
      BY <2>7 DEF Ends
    <3>2. Keeps(s, here)
      BY <3>1, KeepsNothing
    <3>3. QED BY <2>5, <3>2
  <2>8. CASE Shuts(s, here, a, open)
    <3>1. here \in 1..Len(s) /\ s[here] \in Closers /\ Tail(open) \in Seq(Closers) /\ Reads(s, here + 1, AwaitsEnd, Tail(open))
      BY ONLY <2>8, Zenon DEF Shuts
    <3>2. s[here] \notin Letters /\ s[here] # Quote
      <4>1. \A c \in Closers : c \notin Letters /\ c # Quote
        <5>1. Close # Quote /\ CloseList # Quote
          BY Zenon DEF Close, CloseList, Quote
        <5>2. QED BY <5>1, JsonSigns
      <4>2. QED BY <3>1, <4>1
    <3>3. QED BY ONLY <2>4, <2>5, <2>6, <3>1, <3>2
  <2>9. CASE Parts(s, here, a, open)
    <3>1. here \in 1..Len(s) /\ s[here] = Comma /\ Reads(s, here + 1, AwaitsItem, open)
      BY ONLY <2>9, Zenon DEF Parts
    <3>2. s[here] \notin Letters /\ s[here] # Quote
      BY <3>1, JsonSigns, Classes
    <3>3. QED BY ONLY <2>4, <2>5, <2>6, <3>1, <3>2, open \in Seq(Closers)
  <2>10. CASE Names(s, here, a, open)
    <3>1. PICK end \in 1..(Len(s) + 1), colon \in 1..(Len(s) + 1) :
            /\ HasString(s, here, end) /\ colon = Past(s, Blank, end) /\ colon \in end..Len(s) /\ s[colon] = Colon
            /\ Reads(s, colon + 1, AwaitsValue, open)
      BY ONLY <2>10, Zenon DEF Names
    <3>2. end \in (here + 2)..(Len(s) + 1)
      BY <3>1 DEF HasString
    <3>3. colon \in 1..Len(s) /\ colon + 1 \in 1..m /\ colon + 1 > i /\ colon \in end..(Len(s) + 1)
      BY <1>1, <2>3, <3>1, <3>2
    <3>4. Keeps(s, colon + 1)
      BY ONLY <2>1, <2>4, <3>1, <3>3, open \in Seq(Closers), Zenon
    <3>5. Keeps(s, colon)
      <4>1. s[colon] \notin Letters /\ s[colon] # Quote
        BY <3>1, JsonSigns, Classes
      <4>2. QED BY <1>1, <3>3, <3>4, <4>1, KeepsSign
    <3>6. \A k \in end..(colon - 1) : s[k] \notin Letters /\ s[k] # Quote /\ AsChar(s[k]) = s[k]
      <4>1. \A k \in end..(colon - 1) : At(s, k) \in Blank
        BY <3>1, PastIs, Classes
      <4>2. \A k \in end..(colon - 1) : k \in 1..Len(s) /\ At(s, k) = s[k]
        BY <1>1, <3>3, TextPlaces
      <4>3. \A c \in Blank : c \notin Letters /\ c # Quote
        BY Classes
      <4>4. QED BY ONLY <1>1, <4>1, <4>2, <4>3
    <3>7. Keeps(s, end)
      BY <3>3, <3>5, <3>6, KeepsRun
    <3>8. Keeps(s, here)
      BY <3>1, <3>7, KeepsString
    <3>9. QED BY <2>5, <3>8
  <2>11. CASE Quotes(s, here, a, open)
    <3>1. PICK end \in 1..(Len(s) + 1) : HasString(s, here, end) /\ Reads(s, end, AwaitsEnd, open)
      BY ONLY <2>11, Zenon DEF Quotes
    <3>2. end \in 1..m /\ end > i
      BY <2>3, <3>1 DEF HasString
    <3>3. Keeps(s, end)
      BY ONLY <2>1, <2>4, <3>1, <3>2, open \in Seq(Closers), Zenon
    <3>4. Keeps(s, here)
      BY <3>1, <3>3, KeepsString
    <3>5. QED BY <2>5, <3>4
  <2>12. CASE Counts(s, here, a, open)
    <3>1. PICK end \in (here + 1)..(Len(s) + 1) :
            (\A k \in here..(end - 1) : s[k] = One) /\ Reads(s, end, AwaitsEnd, open)
      BY ONLY <2>12, Zenon DEF Counts
    <3>2. end \in 1..m /\ end > i /\ end \in here..(Len(s) + 1)
      BY <2>3, <3>1
    <3>3. Keeps(s, end)
      BY ONLY <2>1, <2>4, <3>1, <3>2, open \in Seq(Closers), Zenon
    <3>4. One \notin Letters /\ One # Quote /\ AsChar(One) = One
      BY JsonSigns, Classes
    <3>5. Keeps(s, here)
      BY <2>3, <3>1, <3>2, <3>3, <3>4, KeepsRun
    <3>6. QED BY <2>5, <3>5
  <2>13. CASE Opens(s, here, a, open)
    <3>1. PICK c \in {Open, OpenList}, d \in Closers :
            /\ here \in 1..Len(s) /\ s[here] = c /\ <<d>> \o open \in Seq(Closers)
            /\ Reads(s, here + 1, AwaitsFirst, <<d>> \o open)
      BY ONLY <2>13, Zenon DEF Opens
    <3>2. s[here] \notin Letters /\ s[here] # Quote
      <4>1. \A x \in {Open, OpenList} : x \notin Letters /\ x # Quote
        <5>1. Open # Quote /\ OpenList # Quote
          BY Zenon DEF Open, OpenList, Quote
        <5>2. QED BY <5>1, JsonSigns
      <4>2. QED BY <3>1, <4>1
    <3>3. QED BY ONLY <2>4, <2>5, <2>6, <3>1, <3>2
  <2>14. QED BY ONLY <2>2, <2>7, <2>8, <2>9, <2>10, <2>11, <2>12, <2>13, Zenon
<1>3. 1..m \subseteq T
  <2>1. \A i \in 1..m : (\A j \in 1..m : j > i => j \in T) => i \in T
    <3> HIDE DEF T, m
    <3>1. QED BY ONLY <1>2
  <2> HIDE DEF T, m
  <2>2. m \in Nat
    BY ONLY <1>1
  <2>3. QED BY ONLY <2>1, <2>2, DownInduction
<1>4. QED BY <1>3

LEMMA ValidKept ==
  ASSUME NEW s \in Body, IsJson(s), Ascii(s)
  PROVE  QuoteBareKeys(s) = s /\ EscapeStringControls(s) = s
<1>1. AwaitsValue \in Awaited /\ <<>> \in Seq(Closers) /\ 1 \in 1..(Len(s) + 1)
  BY JsonSigns, EmptySeq, TextPlaces
<1>2. Reads(s, 1, AwaitsValue, <<>>)
  BY ReadsIsFrom, Zenon DEF Reads
<1>3. Keeps(s, 1)
  BY <1>1, <1>2, JsonKept
<1>4. KeysFrom(s)[<<1, FALSE, FALSE>>] \in Body /\ EscapesFrom(s)[<<1, FALSE>>] \in Body
  BY <1>1, StateTypes
<1>5. KeysFrom(s)[<<1, FALSE, FALSE>>] = s
  <2>1. Behind(s, 1, KeysFrom(s)[<<1, FALSE, FALSE>>])
    BY <1>3, Zenon DEF Keeps, Copies
  <2>2. QED BY <1>4, <2>1, BehindWhole
<1>6. EscapesFrom(s)[<<1, FALSE>>] = s
  <2>1. Behind(s, 1, EscapesFrom(s)[<<1, FALSE>>])
    BY <1>3, Zenon DEF Keeps, Escapes
  <2>2. QED BY <1>4, <2>1, BehindWhole
<1>7. QED BY <1>5, <1>6, KeysIsFrom, EscapesIsFrom

(* Valid arguments are never altered: what strict JSON accepts goes through *)
(* quote_bare_keys and escape_string_controls unchanged                     *)
(* (json_lenient.rs:166).                                                   *)
THEOREM ValidTextUntouched == Spec => []StrictUntouched
<1>1. Types => StrictUntouched
  BY ValidKept DEF Types, StrictUntouched
<1>2. QED BY <1>1, BodyText, PTL

-----------------------------------------------------------------------------
(***************************************************************************)
(* In strings and in brackets.                                             *)
(***************************************************************************)

Out     == "out"
In      == "in"
Escape == "escaped"
EveryMode == {Out, In, Escape}

LEMMA ModeBehindIs ==
  /\ Out # In /\ Out # Escape /\ In # Escape
  /\ ModeBehind(Out, Quote) = In
  /\ \A c : c # Quote => ModeBehind(Out, c) = Out
  /\ ModeBehind(In, Quote) = Out /\ ModeBehind(In, Backslash) = Escape
  /\ \A c : c # Quote /\ c # Backslash => ModeBehind(In, c) = In
  /\ \A c : ModeBehind(Escape, c) = In
<1>1. Out # In /\ Out # Escape /\ In # Escape
  BY Zenon DEF Out, In, Escape
<1>2. \A c : ModeBehind(Out, c) = IF c = Quote THEN In ELSE Out
  BY Zenon DEF ModeBehind, Out, In, Escape
<1>3. \A c : ModeBehind(In, c) = IF c = Quote THEN Out ELSE IF c = Backslash THEN Escape ELSE In
  BY Zenon DEF ModeBehind, Out, In, Escape
<1>4. \A c : ModeBehind(Escape, c) = In
  BY Zenon DEF ModeBehind, Out, In, Escape
<1>5. Backslash # Quote
  BY Classes
<1>6. QED BY ONLY <1>1, <1>2, <1>3, <1>4, <1>5

IsModes(mode, s) ==
  mode = [i \in 1..(Len(s) + 1) |-> IF i = 1 THEN "out" ELSE ModeBehind(mode[i - 1], s[i - 1])]

LEMMA ModesAre ==
  ASSUME NEW s \in Body
  PROVE  /\ Modes(s)[1] = Out
         /\ \A i \in 1..(Len(s) + 1) : Modes(s)[i] \in EveryMode
         /\ \A i \in 1..Len(s) : Modes(s)[i + 1] = ModeBehind(Modes(s)[i], s[i])
<1> DEFINE m == Len(s) + 1
           step == [i \in 1..m |-> [v \in EveryMode |-> ModeBehind(v, s[i - 1])]]
           g == Modes(s)
<1>1. Len(s) \in Nat /\ m \in Nat /\ m >= 1 /\ m = Len(s) + 1
  BY TextPlaces
<1>2. \A v \in EveryMode : \A c : ModeBehind(v, c) \in EveryMode
  <2>1. \A c : ModeBehind(Out, c) \in EveryMode /\ ModeBehind(In, c) \in EveryMode /\ ModeBehind(Escape, c) \in EveryMode
    <3> HIDE DEF Out, In, Escape
    <3>1. QED BY ModeBehindIs, Zenon DEF EveryMode
  <2>2. QED BY ONLY <2>1, Zenon DEF EveryMode
<1>3. step \in [1..m -> [EveryMode -> EveryMode]]
  <2> HIDE DEF EveryMode, m
  <2>1. QED BY <1>2
<1>4. Out \in EveryMode
  BY DEF EveryMode
<1>5. \A i \in 1..m, v \in EveryMode : step[i][v] = ModeBehind(v, s[i - 1])
  <2> HIDE DEF EveryMode, m
  <2>1. QED OBVIOUS
<1> HIDE DEF step, EveryMode, m, Out
<1>6. PICK f \in [1..m -> EveryMode] : \A i \in 1..m : f[i] = IF i = 1 THEN Out ELSE step[i][f[i - 1]]
  <2>1. Forth(m, EveryMode, Out, step)
    BY ONLY <1>1, <1>3, <1>4 DEF Forth
  <2>2. QED BY ONLY <2>1, ForthExists
<1>7. \A i \in 1..m : f[i] = IF i = 1 THEN Out ELSE ModeBehind(f[i - 1], s[i - 1])
  <2>1. ASSUME NEW i \in 1..m, i # 1 PROVE f[i - 1] \in EveryMode
    <3>1. i - 1 \in 1..m
      BY <1>1, <2>1
    <3>2. QED BY ONLY <1>6, <3>1
  <2>2. QED BY ONLY <1>5, <1>6, <2>1, Zenon
<1>8. IsModes(f, s)
  <2>1. f = [i \in 1..m |-> IF i = 1 THEN Out ELSE ModeBehind(f[i - 1], s[i - 1])]
    BY ONLY <1>6, <1>7
  <2>2. QED BY ONLY <2>1, Zenon DEF IsModes, Out, m
<1>9. IsModes(g, s)
  <2>1. \E mode : IsModes(mode, s)
    BY <1>8
  <2>2. g = CHOOSE mode : IsModes(mode, s)
    BY DEF Modes, IsModes
  <2> HIDE DEF g
  <2>3. QED BY ONLY <2>1, <2>2, Zenon
<1> HIDE DEF g
<1>10. \A i \in 1..m : g[i] = IF i = 1 THEN Out ELSE ModeBehind(g[i - 1], s[i - 1])
  BY ONLY <1>9, Zenon DEF IsModes, Out, m
<1>11. 1 \in 1..m /\ \A i \in 1..Len(s) : i \in 1..m /\ i + 1 \in 1..m /\ i + 1 # 1 /\ (i + 1) - 1 = i
  BY <1>1
<1>12. g[1] = Out
  BY ONLY <1>10, <1>11
<1>13. \A i \in 1..Len(s) : g[i + 1] = ModeBehind(g[i], s[i])
  BY ONLY <1>10, <1>11, Zenon
<1>14. \A i \in 1..m : g[i] \in EveryMode
  <2> DEFINE T == {i \in Nat : g[i] \in EveryMode}
  <2>1. 1 \in T
    BY ONLY <1>4, <1>12
  <2>2. ASSUME NEW k \in 1..(m - 1), k \in T PROVE k + 1 \in T
    <3>1. k \in 1..Len(s) /\ k + 1 \in Nat
      BY <1>1
    <3>2. g[k + 1] = ModeBehind(g[k], s[k]) /\ g[k] \in EveryMode
      BY ONLY <1>13, <2>2, <3>1
    <3>3. QED BY ONLY <1>2, <3>1, <3>2
  <2> HIDE DEF T
  <2>3. \A i \in 1..m : i \in T
    BY ONLY <1>1, <2>1, <2>2, StepOn
  <2>4. QED BY <2>3 DEF T
<1>15. QED BY <1>12, <1>13, <1>14 DEF g, m

(* From one place to the next *)
LEMMA ModeNext ==
  ASSUME NEW s \in Body, NEW i \in 1..Len(s)
  PROVE  /\ Modes(s)[i] = Out /\ s[i] # Quote => Modes(s)[i + 1] = Out
         /\ Modes(s)[i] = Out /\ s[i] = Quote => Modes(s)[i + 1] = In
         /\ Modes(s)[i] = In /\ s[i] = Quote => Modes(s)[i + 1] = Out
         /\ Modes(s)[i] = In /\ s[i] = Backslash => Modes(s)[i + 1] = Escape
         /\ Modes(s)[i] = In /\ s[i] # Quote /\ s[i] # Backslash => Modes(s)[i + 1] = In
         /\ Modes(s)[i] = Escape => Modes(s)[i + 1] = In
<1>1. Modes(s)[i + 1] = ModeBehind(Modes(s)[i], s[i])
  BY ModesAre
<1> HIDE DEF Out, In, Escape
<1>2. QED BY ONLY <1>1, ModeBehindIs, Zenon

(* A stretch without quotes *)
LEMMA ModeRun ==
  ASSUME NEW s \in Body, NEW i \in 1..(Len(s) + 1), NEW j \in i..(Len(s) + 1), NEW mode \in {Out, In},
         Modes(s)[i] = mode, \A k \in i..(j - 1) : s[k] # Quote /\ (mode = In => s[k] # Backslash)
  PROVE  \A k \in i..j : Modes(s)[k] = mode
<1> DEFINE T == {k \in Nat : Modes(s)[k] = mode}
<1>1. Len(s) \in Nat /\ i \in Nat /\ j \in Nat /\ i <= j /\ i \in T
  BY TextPlaces
<1>2. ASSUME NEW k \in i..(j - 1), k \in T PROVE k + 1 \in T
  <2>1. k \in 1..Len(s) /\ k + 1 \in Nat
    BY <1>1
  <2>2. Modes(s)[k + 1] = mode
    BY <1>2, <2>1, ModeNext
  <2>3. QED BY <2>1, <2>2
<1> HIDE DEF T
<1>3. \A k \in i..j : k \in T
  BY ONLY <1>1, <1>2, StepOn
<1>4. QED BY <1>3 DEF T

(* A string *)
LEMMA ModeInString ==
  ASSUME NEW s \in Body, NEW end \in 1..(Len(s) + 1)
  PROVE  \A k \in 1..(Len(s) + 1) : EndsFrom(s)[k] = end /\ Modes(s)[k] = In =>
           Modes(s)[end] = Out /\ \A j \in k..(end - 1) : Modes(s)[j] # Out
<1> DEFINE m == Len(s) + 1
           Is(k) == EndsFrom(s)[k] = end /\ Modes(s)[k] = In =>
                      Modes(s)[end] = Out /\ \A j \in k..(end - 1) : Modes(s)[j] # Out
           T == {k \in 1..m : Is(k)}
<1>1. m \in Nat /\ Len(s) \in Nat /\ m = Len(s) + 1 /\ \A k : At(s, k) # Nil => k \in 1..Len(s) /\ s[k] = At(s, k)
  BY TextPlaces
<1>2. ASSUME NEW k \in 1..m, \A j \in 1..m : j > k => j \in T, EndsFrom(s)[k] = end, Modes(s)[k] = In
      PROVE  Modes(s)[end] = Out /\ \A j \in k..(end - 1) : Modes(s)[j] # Out
  <2>1. EndsFrom(s)[k] = IF At(s, k) = Quote THEN k + 1
                         ELSE IF At(s, k) = Backslash /\ At(s, k + 1) \in Escapable THEN EndsFrom(s)[k + 2]
                         ELSE IF At(s, k) \in Plain THEN EndsFrom(s)[k + 1]
                         ELSE 0
    BY EndsAre
  <2>2. Quote # Nil /\ Backslash # Nil /\ Nil \notin Plain /\ Nil \notin Escapable /\ end # 0
        /\ Quote \notin Plain /\ Backslash \notin Plain
    BY SignsAre, Classes
  <2>3. In # Out /\ Escape # Out
    BY ModeBehindIs
  <2> HIDE DEF Out, In, Escape
  <2>4. CASE At(s, k) = Quote
    <3>1. k \in 1..Len(s) /\ s[k] = Quote /\ end = k + 1
      BY <1>1, <1>2, <2>1, <2>2, <2>4
    <3>2. Modes(s)[k + 1] = Out
      BY <1>2, <3>1, ModeNext
    <3>3. \A j \in k..(end - 1) : j = k
      BY <3>1
    <3>4. QED BY ONLY <1>2, <2>3, <3>1, <3>2, <3>3
  <2>5. CASE At(s, k) # Quote /\ At(s, k) = Backslash /\ At(s, k + 1) \in Escapable
    <3>1. k \in 1..Len(s) /\ s[k] = Backslash /\ k + 1 \in 1..Len(s)
      BY <1>1, <2>2, <2>5
    <3>2. EndsFrom(s)[k + 2] = end /\ k + 2 \in 1..m /\ k + 2 > k
      BY <1>1, <1>2, <2>1, <2>5, <3>1
    <3>3. Modes(s)[k + 1] = Escape
      BY <1>2, <3>1, ModeNext
    <3>4. Modes(s)[k + 2] = In
      <4>1. Modes(s)[(k + 1) + 1] = In
        BY <3>1, <3>3, ModeNext
      <4>2. (k + 1) + 1 = k + 2
        BY <3>1
      <4>3. QED BY <4>1, <4>2
    <3>5. Modes(s)[end] = Out /\ \A j \in (k + 2)..(end - 1) : Modes(s)[j] # Out
      BY <1>2, <3>2, <3>4
    <3>6. \A j \in k..(end - 1) : j = k \/ j = k + 1 \/ j \in (k + 2)..(end - 1)
      BY <3>2
    <3>7. QED BY ONLY <1>2, <2>3, <3>3, <3>5, <3>6
  <2>6. CASE ~(At(s, k) = Backslash /\ At(s, k + 1) \in Escapable) /\ At(s, k) \in Plain
    <3>1. k \in 1..Len(s) /\ s[k] \in Plain /\ At(s, k) # Quote
      BY <1>1, <2>2, <2>6
    <3>2. s[k] # Quote /\ s[k] # Backslash
      BY <2>2, <3>1
    <3>3. EndsFrom(s)[k + 1] = end /\ k + 1 \in 1..m /\ k + 1 > k
      BY <1>1, <1>2, <2>1, <2>6, <3>1
    <3>4. Modes(s)[k + 1] = In
      BY <1>2, <3>1, <3>2, ModeNext
    <3>5. Modes(s)[end] = Out /\ \A j \in (k + 1)..(end - 1) : Modes(s)[j] # Out
      BY <1>2, <3>3, <3>4
    <3>6. \A j \in k..(end - 1) : j = k \/ j \in (k + 1)..(end - 1)
      BY <3>3
    <3>7. QED BY ONLY <1>2, <2>3, <3>5, <3>6
  <2>7. QED BY <1>2, <2>1, <2>2, <2>4, <2>5, <2>6
<1>3. 1..m \subseteq T
  <2>1. ASSUME NEW k \in 1..m, \A j \in 1..m : j > k => j \in T PROVE k \in T
    <3> SUFFICES ASSUME EndsFrom(s)[k] = end, Modes(s)[k] = In
                 PROVE  Modes(s)[end] = Out /\ \A j \in k..(end - 1) : Modes(s)[j] # Out
      <4> HIDE DEF Out, In
      <4>1. QED OBVIOUS
    <3> HIDE DEF T
    <3>1. QED BY ONLY <1>2, <2>1, EndsFrom(s)[k] = end, Modes(s)[k] = In, Zenon
  <2> HIDE DEF T, m
  <2>2. m \in Nat
    BY ONLY <1>1
  <2>3. QED BY ONLY <2>1, <2>2, DownInduction
<1>4. \A k \in 1..m : Is(k)
  <2> HIDE DEF Is
  <2>1. QED BY ONLY <1>3 DEF T
<1>5. QED BY <1>4

(* The string at k *)
LEMMA ModeString ==
  ASSUME NEW s \in Body, NEW k, NEW end, HasString(s, k, end), Modes(s)[k] = Out
  PROVE  Modes(s)[end] = Out /\ Modes(s)[k + 1] = In /\ \A j \in (k + 1)..(end - 1) : Modes(s)[j] # Out
<1>1. k \in 1..Len(s) /\ s[k] = Quote /\ end = EndsFrom(s)[k + 1] /\ end \in (k + 2)..(Len(s) + 1)
  BY DEF HasString
<1>2. Len(s) \in Nat /\ k + 1 \in 1..(Len(s) + 1) /\ end \in 1..(Len(s) + 1)
  BY <1>1, TextPlaces
<1> HIDE DEF Out, In
<1>3. Modes(s)[k + 1] = In
  BY <1>1, ModeNext
<1>4. QED BY <1>1, <1>2, <1>3, ModeInString

-----------------------------------------------------------------------------
(***************************************************************************)
(* A text without its characters at the places P.                          *)
(***************************************************************************)

(* What is left of s from each place on *)
Leaves(left, s, P) ==
  /\ \A i \in 1..(Len(s) + 1) : left[i] \in Body
  /\ left[Len(s) + 1] = <<>>
  /\ \A i \in 1..Len(s) : /\ i \in P => left[i] = left[i + 1]
                          /\ i \notin P => left[i] = <<s[i]>> \o left[i + 1]

LEMMA LeavesExist ==
  ASSUME NEW s \in Body, NEW P
  PROVE  Without(s, P) \in Body /\ \E left : Leaves(left, s, P) /\ left[1] = Without(s, P)
<1> DEFINE q == Pick(s, P)
           n == Len(s)
           left == [i \in 1..(n + 1) |-> FlattenSeq(SubSeq(q, i, n))]
<1>1. n \in Nat /\ DOMAIN s = 1..n /\ s \in Seq(Chars)
  BY TextPlaces DEF Body
<1>2. q \in Seq(Body) /\ FlattenSeq(q) \in Body
  BY <1>1, KeptExists DEF Body
<1>3. Len(q) = n /\ \A i \in 1..n : q[i] = IF i \in P THEN <<>> ELSE <<s[i]>>
  BY <1>1 DEF Pick
<1>4. Without(s, P) = FlattenSeq(q)
  BY DEF Without, Pick
<1> HIDE DEF q
<1>5. \A i \in 1..(n + 1) : left[i] = FlattenSeq(SubSeq(q, i, n))
  OBVIOUS
<1> HIDE DEF left
<1>6. ASSUME NEW i \in 1..(n + 1) PROVE SubSeq(q, i, n) \in Seq(Body)
  <2>1. \A k \in 1..n : q[k] \in Body
    BY <1>2, <1>3, ElementOfSeq
  <2>2. \A k \in i..n : q[k] \in Body
    BY <1>1, <2>1
  <2>3. i \in Int /\ n \in Int
    BY <1>1
  <2> HIDE DEF n
  <2>4. QED BY ONLY <2>2, <2>3, SubSeqProperties
<1>7. ASSUME NEW i \in 1..(n + 1) PROVE left[i] \in Body
  <2>1. SubSeq(q, i, n) \in Seq(Body)
    BY <1>6
  <2>2. FlattenSeq(SubSeq(q, i, n)) \in Body
    BY <2>1, FlattenType DEF Body
  <2>3. QED BY <1>5, <2>2
<1>8. left[n + 1] = <<>>
  <2>1. SubSeq(q, n + 1, n) = <<>>
    <3>1. n + 1 \in Int /\ n \in Int /\ n < n + 1
      BY <1>1
    <3> HIDE DEF n
    <3>2. QED BY ONLY <3>1, SubSeqEmpty
  <2>2. left[n + 1] = FlattenSeq(SubSeq(q, n + 1, n))
    BY <1>1, <1>5
  <2>3. QED BY ONLY <2>1, <2>2, FlattenNothing
<1>9. ASSUME NEW i \in 1..n PROVE left[i] = q[i] \o left[i + 1]
  <2>1. i \in 1..(n + 1) /\ i + 1 \in 1..(n + 1) /\ i \in 1..Len(q) /\ n \in i..Len(q)
    BY <1>1, <1>3
  <2>2. SubSeq(q, i, n) = <<q[i]>> \o SubSeq(q, i + 1, n)
    <3> HIDE DEF n
    <3>1. QED BY ONLY <1>2, <2>1, SubSeqRecursiveFirst
  <2>3. SubSeq(q, i + 1, n) \in Seq(Body) /\ q[i] \in Body
    BY <1>2, <1>6, <2>1, ElementOfSeq
  <2>4. FlattenSeq(<<q[i]>> \o SubSeq(q, i + 1, n)) = q[i] \o FlattenSeq(SubSeq(q, i + 1, n))
    BY <2>3, FlattenCons DEF Body
  <2>5. left[i] = FlattenSeq(SubSeq(q, i, n)) /\ left[i + 1] = FlattenSeq(SubSeq(q, i + 1, n))
    BY <1>5, <2>1
  <2>6. QED BY ONLY <2>2, <2>4, <2>5, Zenon
<1>10. ASSUME NEW i \in 1..n, i \in P PROVE left[i] = left[i + 1]
  <2>1. i + 1 \in 1..(n + 1)
    BY <1>1
  <2>2. left[i + 1] \in Seq(Chars) /\ q[i] = <<>>
    BY <1>3, <1>7, <1>10, <2>1 DEF Body
  <2>3. <<>> \o left[i + 1] = left[i + 1]
    BY <2>2, ConcatEmptySeq
  <2>4. QED BY ONLY <1>9, <1>10, <2>2, <2>3, Zenon
<1>11. ASSUME NEW i \in 1..n, i \notin P PROVE left[i] = <<s[i]>> \o left[i + 1]
  BY <1>3, <1>9, <1>11
<1>12. left[1] = FlattenSeq(q)
  <2>1. SubSeq(q, 1, n) = q
    BY <1>2, <1>3, SubSeqFull
  <2>2. 1 \in 1..(n + 1)
    BY <1>1
  <2>3. QED BY <1>5, <2>1, <2>2
<1>13. Leaves(left, s, P)
  BY <1>7, <1>8, <1>10, <1>11 DEF Leaves
<1>14. QED BY ONLY <1>2, <1>4, <1>12, <1>13

LEMMA LeavesOne ==
  ASSUME NEW s \in Body, NEW P, NEW left, Leaves(left, s, P), NEW u \in Body,
         NEW k \in 1..Len(s), k \notin P, NEW m \in Nat, m >= 1, Behind(u, m, left[k])
  PROVE  m \in 1..Len(u) /\ u[m] = s[k] /\ Behind(u, m + 1, left[k + 1])
<1>1. s[k] \in Chars /\ k + 1 \in 1..(Len(s) + 1)
  BY TextPlaces
<1>2. left[k + 1] \in Body /\ left[k] = <<s[k]>> \o left[k + 1]
  BY <1>1 DEF Leaves
<1>3. Behind(u, m, <<s[k]>> \o left[k + 1])
  BY ONLY <1>2, Behind(u, m, left[k]), Zenon
<1>4. QED BY <1>1, <1>2, <1>3, BehindOne

(* A stretch that stays *)
LEMMA LeavesRun ==
  ASSUME NEW s \in Body, NEW P, NEW left, Leaves(left, s, P), NEW u \in Body,
         NEW i \in 1..(Len(s) + 1), NEW j \in i..(Len(s) + 1), \A k \in i..(j - 1) : k \notin P,
         NEW m \in Nat, m >= 1, Behind(u, m, left[i])
  PROVE  /\ Behind(u, m + (j - i), left[j])
         /\ \A k \in i..(j - 1) : m + (k - i) \in 1..Len(u) /\ u[m + (k - i)] = s[k]
<1> DEFINE Done(k) == Behind(u, m + (k - i), left[k])
           T == {k \in Nat : Done(k)}
<1>1. Len(s) \in Nat /\ i \in Nat /\ j \in Nat /\ i <= j /\ i >= 1
  BY TextPlaces
<1>2. i \in T
  <2>1. m + (i - i) = m
    BY <1>1
  <2>2. Behind(u, m + (i - i), left[i])
    BY ONLY <2>1, Behind(u, m, left[i]), Zenon
  <2>3. QED BY <1>1, <2>2
<1>3. ASSUME NEW k \in i..(j - 1), Done(k)
      PROVE  Done(k + 1) /\ m + (k - i) \in 1..Len(u) /\ u[m + (k - i)] = s[k]
  <2> DEFINE p == m + (k - i)
  <2>1. k \in 1..Len(s) /\ p \in Nat /\ p >= 1 /\ p + 1 = m + ((k + 1) - i)
    BY <1>1
  <2>2. Behind(u, p, left[k])
    BY <1>3
  <2> HIDE DEF p
  <2>3. p \in 1..Len(u) /\ u[p] = s[k] /\ Behind(u, p + 1, left[k + 1])
    BY <1>3, <2>1, <2>2, LeavesOne
  <2>4. Behind(u, m + ((k + 1) - i), left[k + 1])
    BY ONLY <2>1, <2>3, Zenon
  <2>5. QED BY <2>3, <2>4 DEF p
<1>4. \A k \in i..(j - 1) : k \in T => k + 1 \in T
  <2>1. \A k \in i..(j - 1) : k + 1 \in Nat
    BY <1>1
  <2> HIDE DEF Done
  <2>2. QED BY <1>3, <2>1
<1>5. \A k \in i..j : k \in T
  <2> HIDE DEF T
  <2>1. QED BY ONLY <1>1, <1>2, <1>4, StepOn
<1>6. \A k \in i..j : Done(k)
  <2> HIDE DEF Done
  <2>1. QED BY <1>5
<1>7. j \in i..j /\ \A k \in i..(j - 1) : k \in i..j
  BY <1>1
<1>8. Done(j) /\ \A k \in i..(j - 1) : m + (k - i) \in 1..Len(u) /\ u[m + (k - i)] = s[k]
  <2> HIDE DEF Done
  <2>1. QED BY ONLY <1>3, <1>6, <1>7
<1>9. QED BY ONLY <1>8, Zenon DEF Done

-----------------------------------------------------------------------------
(***************************************************************************)
(* Keys that lost their quotes.                                            *)
(***************************************************************************)

(* quote_bare_keys makes of what is left in u what s has from k on *)
Restores(s, u, left, k, b, key) ==
  \A m \in Nat : m >= 1 /\ Behind(u, m, left[k]) => Behind(s, k, KeysFrom(u)[<<m, b, key>>])

LEMMA RestoresNothing ==
  ASSUME NEW s \in Body, NEW P, NEW left, Leaves(left, s, P), NEW u \in Body, NEW b \in BOOLEAN, NEW key \in BOOLEAN
  PROVE  Restores(s, u, left, Len(s) + 1, b, key)
<1> SUFFICES ASSUME NEW m \in Nat, m >= 1, Behind(u, m, left[Len(s) + 1])
             PROVE  Behind(s, Len(s) + 1, KeysFrom(u)[<<m, b, key>>])
  BY DEF Restores
<1>1. left[Len(s) + 1] = <<>>
  BY DEF Leaves
<1>2. m = Len(u) + 1
  BY <1>1, BehindNothing
<1>3. KeysFrom(u)[<<m, b, key>>] = <<>>
  BY <1>2, KeysAre
<1>4. QED BY <1>3, BehindNothing

LEMMA RestoresOne ==
  ASSUME NEW s \in Body, NEW P, NEW left, Leaves(left, s, P), NEW u \in Body, NEW b \in BOOLEAN, NEW key \in BOOLEAN,
         NEW k \in 1..Len(s), k \notin P, AsChar(s[k]) = s[k],
         b => s[k] # Backslash, ~b /\ key => s[k] \notin Letters,
         Restores(s, u, left, k + 1, InString(b, s[k]), Expects(b, key, s[k]))
  PROVE  Restores(s, u, left, k, b, key)
<1> SUFFICES ASSUME NEW m \in Nat, m >= 1, Behind(u, m, left[k]) PROVE Behind(s, k, KeysFrom(u)[<<m, b, key>>])
  BY DEF Restores
<1> DEFINE c == s[k]
           b1 == InString(b, c)
           k1 == Expects(b, key, c)
           x == KeysFrom(u)[<<m + 1, b1, k1>>]
<1>1. m \in 1..Len(u) /\ u[m] = c /\ Behind(u, m + 1, left[k + 1]) /\ k \in Nat /\ k >= 1 /\ c \in Chars
  BY LeavesOne, TextPlaces
<1>2. ~(b /\ Escaped(u, m)) /\ ~TakesKey(u, m, b, key)
  BY <1>1 DEF Escaped, TakesKey
<1>3. KeysFrom(u)[<<m, b, key>>] = <<c>> \o x
  <2>1. KeysFrom(u)[<<m, b, key>>] = KeyTurn(u, <<m, b, key>>).push \o KeysFrom(u)[KeyTurn(u, <<m, b, key>>).next]
    BY <1>1, KeysAre
  <2>2. /\ KeyTurn(u, <<m, b, key>>).push = <<AsChar(u[m])>>
        /\ KeyTurn(u, <<m, b, key>>).next = <<m + 1, InString(b, u[m]), Expects(b, key, u[m])>>
    <3>1. s \in Body /\ u \in Body /\ b \in BOOLEAN /\ key \in BOOLEAN
      OBVIOUS
    <3> HIDE DEF c
    <3>2. QED BY ONLY <1>1, <1>2, <3>1, KeyTurnIs
  <2>3. AsChar(u[m]) = c /\ InString(b, u[m]) = b1 /\ Expects(b, key, u[m]) = k1
    <3>1. AsChar(c) = c
      OBVIOUS
    <3> HIDE DEF c
    <3>2. QED BY ONLY <1>1, <3>1, Zenon DEF b1, k1
  <2> HIDE DEF c, b1, k1
  <2>4. QED BY ONLY <2>1, <2>2, <2>3, Zenon DEF x
<1>4. b1 \in BOOLEAN /\ k1 \in BOOLEAN
  BY Zenon DEF InString, Expects, OpensKey
<1>5. x \in Body /\ m + 1 \in Nat /\ m + 1 >= 1
  <2>1. m + 1 \in 1..(Len(u) + 1)
    BY <1>1, TextPlaces
  <2> HIDE DEF b1, k1
  <2>2. x \in Body
    BY <1>4, <2>1, StateTypes
  <2>3. QED BY <2>2
<1>6. Behind(s, k + 1, x)
  <2> HIDE DEF b1, k1
  <2>1. Restores(s, u, left, k + 1, b1, k1)
    BY DEF b1, k1
  <2>2. QED BY ONLY <1>1, <1>5, <2>1, Zenon DEF Restores, x
<1> HIDE DEF x, b1, k1
<1>7. Behind(s, k, <<c>> \o x)
  <2>1. c = s[k]
    OBVIOUS
  <2> HIDE DEF c
  <2>2. QED BY ONLY <1>1, <1>5, <1>6, <2>1, k \in 1..Len(s), s \in Body, BehindOne
<1>8. QED BY ONLY <1>3, <1>7, Zenon

LEMMA RestoresTwo ==
  ASSUME NEW s \in Body, NEW P, NEW left, Leaves(left, s, P), NEW u \in Body, NEW key \in BOOLEAN,
         NEW k \in 1..Len(s), k + 1 \in 1..Len(s), k \notin P, k + 1 \notin P, s[k] = Backslash,
         AsChar(s[k + 1]) = s[k + 1], Restores(s, u, left, k + 2, TRUE, key)
  PROVE  Restores(s, u, left, k, TRUE, key)
<1> SUFFICES ASSUME NEW m \in Nat, m >= 1, Behind(u, m, left[k]) PROVE Behind(s, k, KeysFrom(u)[<<m, TRUE, key>>])
  BY DEF Restores
<1> DEFINE d == s[k + 1]
           x == KeysFrom(u)[<<m + 2, TRUE, key>>]
<1>1. m \in 1..Len(u) /\ u[m] = Backslash /\ Behind(u, m + 1, left[k + 1])
  BY LeavesOne
<1>2. m + 1 \in 1..Len(u) /\ u[m + 1] = d /\ Behind(u, m + 2, left[k + 2])
  <2>1. (m + 1) + 1 = m + 2 /\ (k + 1) + 1 = k + 2 /\ m + 1 \in Nat /\ m + 1 >= 1
    OBVIOUS
  <2>2. m + 1 \in 1..Len(u) /\ u[m + 1] = d /\ Behind(u, (m + 1) + 1, left[(k + 1) + 1])
    <3> DEFINE m1 == m + 1
               k1 == k + 1
    <3>1. m1 \in Nat /\ m1 >= 1 /\ k1 \in 1..Len(s) /\ k1 \notin P /\ Behind(u, m1, left[k1])
      BY <1>1, <2>1
    <3> HIDE DEF m1, k1
    <3>2. m1 \in 1..Len(u) /\ u[m1] = s[k1] /\ Behind(u, m1 + 1, left[k1 + 1])
      BY <3>1, LeavesOne
    <3>3. QED BY <3>2 DEF m1, k1
  <2>3. QED BY ONLY <2>1, <2>2, Zenon
<1>3. Escaped(u, m) /\ AsChar(u[m + 1]) = d
  <2>1. Len(u) \in Nat
    BY TextPlaces
  <2>2. QED BY <1>1, <1>2, <2>1 DEF Escaped
<1>4. KeysFrom(u)[<<m, TRUE, key>>] = <<Backslash, d>> \o x
  <2>1. KeysFrom(u)[<<m, TRUE, key>>] = KeyTurn(u, <<m, TRUE, key>>).push \o KeysFrom(u)[KeyTurn(u, <<m, TRUE, key>>).next]
    BY <1>1, KeysAre
  <2>2. /\ KeyTurn(u, <<m, TRUE, key>>).push = <<Backslash, AsChar(u[m + 1])>>
        /\ KeyTurn(u, <<m, TRUE, key>>).next = <<m + 2, TRUE, key>>
    BY <1>1, <1>3, KeyTurnIs
  <2> HIDE DEF d
  <2>3. QED BY ONLY <1>3, <2>1, <2>2, Zenon DEF x
<1>5. x \in Body /\ m + 2 \in Nat /\ m + 2 >= 1
  <2>1. m + 2 \in 1..(Len(u) + 1)
    BY <1>2, TextPlaces
  <2>2. x \in Body
    BY <2>1, StateTypes
  <2>3. QED BY <2>2
<1>6. Behind(s, k + 2, x)
  BY ONLY <1>2, <1>5, Restores(s, u, left, k + 2, TRUE, key), Zenon DEF Restores, x
<1>7. /\ Backslash \in Chars /\ d \in Chars /\ k \in Nat /\ k >= 1 /\ k < Len(s) /\ s[k] = Backslash /\ s[k + 1] = d
  BY TextPlaces, Classes
<1> HIDE DEF x, d
<1>8. Behind(s, k, <<Backslash, d>> \o x)
  BY ONLY <1>5, <1>6, <1>7, k \in 1..Len(s), s \in Body, BehindTwo
<1>9. QED BY ONLY <1>4, <1>8, Zenon

(* A sign of structure, or a blank *)
RestoresAny(s, u, left, k) == \A key \in BOOLEAN : Restores(s, u, left, k, FALSE, key)

LEMMA RestoresSign ==
  ASSUME NEW s \in Body, NEW P, NEW left, Leaves(left, s, P), NEW u \in Body,
         NEW k \in 1..Len(s), k \notin P, AsChar(s[k]) = s[k], s[k] # Quote, s[k] \notin Letters
  PROVE  /\ RestoresAny(s, u, left, k + 1) => RestoresAny(s, u, left, k)
         /\ \A key \in BOOLEAN : s[k] \in Blank /\ Restores(s, u, left, k + 1, FALSE, key) =>
                                   Restores(s, u, left, k, FALSE, key)
         /\ OpensKey(s[k]) /\ Restores(s, u, left, k + 1, FALSE, TRUE) => RestoresAny(s, u, left, k)
<1>1. InString(FALSE, s[k]) = FALSE
  BY Zenon DEF InString
<1>2. ASSUME NEW key \in BOOLEAN, NEW key1 \in BOOLEAN, Expects(FALSE, key, s[k]) = key1,
             Restores(s, u, left, k + 1, FALSE, key1)
      PROVE  Restores(s, u, left, k, FALSE, key)
  <2>1. Restores(s, u, left, k + 1, InString(FALSE, s[k]), Expects(FALSE, key, s[k]))
    BY ONLY <1>1, <1>2, Zenon
  <2>2. FALSE \in BOOLEAN
    OBVIOUS
  <2>3. QED BY <2>1, <2>2, RestoresOne
<1>3. \A key \in BOOLEAN : Expects(FALSE, key, s[k]) \in BOOLEAN
  BY Zenon DEF Expects, OpensKey
<1>4. \A key \in BOOLEAN : s[k] \in Blank => Expects(FALSE, key, s[k]) = key
  <2>1. \A c \in Blank : ~OpensKey(c)
    BY Zenon DEF Blank, OpensKey
  <2>2. QED BY <2>1 DEF Expects
<1>5. \A key \in BOOLEAN : OpensKey(s[k]) => Expects(FALSE, key, s[k]) = TRUE
  BY DEF Expects
<1>6. ASSUME RestoresAny(s, u, left, k + 1) PROVE RestoresAny(s, u, left, k)
  <2>1. ASSUME NEW key \in BOOLEAN PROVE Restores(s, u, left, k, FALSE, key)
    <3> DEFINE key1 == Expects(FALSE, key, s[k])
    <3>1. key1 \in BOOLEAN
      BY <1>3
    <3>2. Restores(s, u, left, k + 1, FALSE, key1)
      BY ONLY <1>6, <3>1, Zenon DEF RestoresAny
    <3>3. QED BY ONLY <1>2, <3>1, <3>2, key \in BOOLEAN, Zenon
  <2>2. QED BY ONLY <2>1, Zenon DEF RestoresAny
<1>7. ASSUME NEW key \in BOOLEAN, s[k] \in Blank, Restores(s, u, left, k + 1, FALSE, key)
      PROVE  Restores(s, u, left, k, FALSE, key)
  BY ONLY <1>2, <1>4, <1>7, Zenon
<1>8. ASSUME OpensKey(s[k]), Restores(s, u, left, k + 1, FALSE, TRUE) PROVE RestoresAny(s, u, left, k)
  <2>1. TRUE \in BOOLEAN
    OBVIOUS
  <2>2. QED BY ONLY <1>2, <1>5, <1>8, <2>1, Zenon DEF RestoresAny
<1>9. QED BY ONLY <1>6, <1>7, <1>8, Zenon

(* A stretch of them *)
LEMMA RestoresRun ==
  ASSUME NEW s \in Body, NEW P, NEW left, Leaves(left, s, P), NEW u \in Body,
         NEW i \in 1..(Len(s) + 1), NEW j \in i..(Len(s) + 1),
         \A k \in i..(j - 1) : k \notin P /\ AsChar(s[k]) = s[k] /\ s[k] # Quote /\ s[k] \notin Letters
  PROVE  /\ RestoresAny(s, u, left, j) => RestoresAny(s, u, left, i)
         /\ \A key \in BOOLEAN : (\A k \in i..(j - 1) : s[k] \in Blank) /\ Restores(s, u, left, j, FALSE, key) =>
                                   Restores(s, u, left, i, FALSE, key)
<1>1. Len(s) \in Nat /\ i \in Nat /\ j \in Nat /\ i <= j /\ i \in i..j
  BY TextPlaces
<1>2. \A k \in i..(j - 1) : k \in 1..Len(s) /\ k + 1 \in Nat /\ k \in Nat
  BY <1>1
<1>3. ASSUME RestoresAny(s, u, left, j) PROVE RestoresAny(s, u, left, i)
  <2> DEFINE T == {k \in Nat : RestoresAny(s, u, left, k)}
  <2>1. j \in T
    BY <1>1, <1>3
  <2>2. \A k \in i..(j - 1) : k + 1 \in T => k \in T
    <3> SUFFICES ASSUME NEW k \in i..(j - 1), RestoresAny(s, u, left, k + 1) PROVE RestoresAny(s, u, left, k)
      BY <1>2
    <3>1. QED BY <1>2, RestoresSign
  <2> HIDE DEF T
  <2>3. i \in T
    BY ONLY <1>1, <2>1, <2>2, StepBack
  <2>4. QED BY <2>3 DEF T
<1>4. ASSUME NEW key \in BOOLEAN, \A k \in i..(j - 1) : s[k] \in Blank, Restores(s, u, left, j, FALSE, key)
      PROVE  Restores(s, u, left, i, FALSE, key)
  <2> DEFINE T == {k \in Nat : Restores(s, u, left, k, FALSE, key)}
  <2>1. j \in T
    BY <1>1, <1>4
  <2>2. \A k \in i..(j - 1) : k + 1 \in T => k \in T
    <3> SUFFICES ASSUME NEW k \in i..(j - 1), Restores(s, u, left, k + 1, FALSE, key)
                 PROVE  Restores(s, u, left, k, FALSE, key)
      BY <1>2
    <3>1. QED BY <1>2, <1>4, RestoresSign
  <2> HIDE DEF T
  <2>3. i \in T
    BY ONLY <1>1, <2>1, <2>2, StepBack
  <2>4. QED BY <2>3 DEF T
<1>5. QED BY <1>3, <1>4

(* A string that stays *)
LEMMA RestoresInString ==
  ASSUME NEW s \in Body, Ascii(s), NEW P, NEW left, Leaves(left, s, P), NEW u \in Body,
         NEW end \in 1..(Len(s) + 1), Restores(s, u, left, end, FALSE, FALSE)
  PROVE  \A k \in 1..(Len(s) + 1) : EndsFrom(s)[k] = end /\ (\A j \in k..(end - 1) : j \notin P) =>
           Restores(s, u, left, k, TRUE, FALSE)
<1> DEFINE m == Len(s) + 1
           Is(k) == EndsFrom(s)[k] = end /\ (\A j \in k..(end - 1) : j \notin P) => Restores(s, u, left, k, TRUE, FALSE)
           T == {k \in 1..m : Is(k)}
<1>1. m \in Nat /\ Len(s) \in Nat /\ m = Len(s) + 1 /\ \A k : At(s, k) # Nil => k \in 1..Len(s) /\ s[k] = At(s, k)
  BY TextPlaces
<1>2. ASSUME NEW k \in 1..m, \A j \in 1..m : j > k => j \in T, EndsFrom(s)[k] = end, \A j \in k..(end - 1) : j \notin P
      PROVE  Restores(s, u, left, k, TRUE, FALSE)
  <2>1. /\ EndsFrom(s)[k] = IF At(s, k) = Quote THEN k + 1
                            ELSE IF At(s, k) = Backslash /\ At(s, k + 1) \in Escapable THEN EndsFrom(s)[k + 2]
                            ELSE IF At(s, k) \in Plain THEN EndsFrom(s)[k + 1]
                            ELSE 0
        /\ end \in (k + 1)..(Len(s) + 1)
    BY <1>2, EndsAre
  <2>2. Quote # Nil /\ Backslash # Nil /\ Nil \notin Plain /\ Nil \notin Escapable
        /\ Quote \notin Plain /\ Backslash \notin Plain /\ Quote # Backslash
    BY SignsAre, Classes
  <2>3. k \notin P
    BY <1>2, <2>1
  <2>4. ASSUME NEW j \in 1..m, j > k, EndsFrom(s)[j] = end PROVE Restores(s, u, left, j, TRUE, FALSE)
    <3>1. \A i \in j..(end - 1) : i \in k..(end - 1)
      BY <1>1, <2>4
    <3>2. \A i \in j..(end - 1) : i \notin P
      BY ONLY <1>2, <3>1
    <3>3. Is(j)
      <4> HIDE DEF Is
      <4>1. QED BY <1>2, <2>4
    <3>4. QED BY ONLY <2>4, <3>2, <3>3, Zenon
  <2>5. CASE At(s, k) = Quote
    <3>1. k \in 1..Len(s) /\ s[k] = Quote /\ end = k + 1
      BY <1>1, <1>2, <2>1, <2>2, <2>5
    <3>2. InString(TRUE, s[k]) = FALSE /\ Expects(TRUE, FALSE, s[k]) = FALSE /\ AsChar(s[k]) = s[k]
      BY <3>1, AsciiIs, Zenon DEF InString, Expects
    <3>3. Restores(s, u, left, k + 1, InString(TRUE, s[k]), Expects(TRUE, FALSE, s[k]))
      BY ONLY <3>1, <3>2, Restores(s, u, left, end, FALSE, FALSE), Zenon
    <3>4. QED BY <2>2, <2>3, <3>1, <3>2, <3>3, RestoresOne
  <2>6. CASE At(s, k) # Quote /\ At(s, k) = Backslash /\ At(s, k + 1) \in Escapable
    <3>1. k \in 1..Len(s) /\ s[k] = Backslash /\ k + 1 \in 1..Len(s)
      BY <1>1, <2>2, <2>6
    <3>2. EndsFrom(s)[k + 2] = end /\ k + 2 \in 1..m /\ k + 2 > k
      BY <1>1, <1>2, <2>1, <2>6, <3>1
    <3>3. Restores(s, u, left, k + 2, TRUE, FALSE)
      BY <2>4, <3>2
    <3>4. k + 1 \notin P /\ AsChar(s[k + 1]) = s[k + 1]
      <4>1. end \in (k + 2 + 1)..(Len(s) + 1)
        BY <1>1, <2>1, <3>2, EndsAre
      <4>2. k + 1 \in k..(end - 1)
        BY <1>1, <3>1, <4>1
      <4>3. QED BY <1>2, <3>1, <4>2, AsciiIs
    <3>5. QED BY <2>3, <3>1, <3>3, <3>4, RestoresTwo
  <2>7. CASE ~(At(s, k) = Backslash /\ At(s, k + 1) \in Escapable) /\ At(s, k) \in Plain
    <3>1. k \in 1..Len(s) /\ s[k] \in Plain /\ At(s, k) # Quote
      BY <1>1, <2>2, <2>7
    <3>2. s[k] # Quote /\ s[k] # Backslash /\ AsChar(s[k]) = s[k]
      BY <2>2, <3>1, AsciiIs
    <3>3. EndsFrom(s)[k + 1] = end /\ k + 1 \in 1..m /\ k + 1 > k
      BY <1>1, <1>2, <2>1, <2>7, <3>1
    <3>4. Restores(s, u, left, k + 1, TRUE, FALSE)
      BY <2>4, <3>3
    <3>5. InString(TRUE, s[k]) = TRUE /\ Expects(TRUE, FALSE, s[k]) = FALSE
      BY <3>2, Zenon DEF InString, Expects
    <3>6. Restores(s, u, left, k + 1, InString(TRUE, s[k]), Expects(TRUE, FALSE, s[k]))
      BY ONLY <3>4, <3>5, Zenon
    <3>7. QED BY <2>3, <3>1, <3>2, <3>6, RestoresOne
  <2>8. end # 0
    BY <1>1, <2>1
  <2>9. QED BY ONLY <1>2, <2>1, <2>2, <2>5, <2>6, <2>7, <2>8
<1>3. 1..m \subseteq T
  <2>1. ASSUME NEW k \in 1..m, \A j \in 1..m : j > k => j \in T PROVE k \in T
    <3>1. Is(k)
      <4> HIDE DEF T
      <4>1. QED BY ONLY <1>2, <2>1, Zenon
    <3> HIDE DEF Is
    <3>2. QED BY <3>1
  <2> HIDE DEF T, m
  <2>2. m \in Nat
    BY ONLY <1>1
  <2>3. QED BY ONLY <2>1, <2>2, DownInduction
<1>4. \A k \in 1..m : Is(k)
  <2> HIDE DEF Is
  <2>1. QED BY ONLY <1>3 DEF T
<1>5. QED BY <1>4

LEMMA RestoresString ==
  ASSUME NEW s \in Body, Ascii(s), NEW P, NEW left, Leaves(left, s, P), NEW u \in Body,
         NEW k, NEW end, HasString(s, k, end), \A j \in k..(end - 1) : j \notin P,
         Restores(s, u, left, end, FALSE, FALSE)
  PROVE  RestoresAny(s, u, left, k)
<1>1. k \in 1..Len(s) /\ s[k] = Quote /\ end = EndsFrom(s)[k + 1] /\ end \in (k + 2)..(Len(s) + 1)
  BY DEF HasString
<1>2. Len(s) \in Nat /\ k + 1 \in 1..(Len(s) + 1) /\ end \in 1..(Len(s) + 1) /\ k \in k..(end - 1)
  BY <1>1, TextPlaces
<1>3. Restores(s, u, left, k + 1, TRUE, FALSE)
  <2>1. \A j \in (k + 1)..(end - 1) : j \in k..(end - 1)
    BY <1>1
  <2>2. \A j \in (k + 1)..(end - 1) : j \notin P
    BY ONLY <2>1, \A j \in k..(end - 1) : j \notin P
  <2>3. QED BY <1>1, <1>2, <2>2, RestoresInString
<1>4. s[k] \notin Letters /\ s[k] # Backslash /\ AsChar(s[k]) = s[k] /\ k \notin P
  BY <1>1, <1>2, Classes, AsciiIs
<1>5. ASSUME NEW key \in BOOLEAN PROVE Restores(s, u, left, k, FALSE, key)
  <2>1. InString(FALSE, s[k]) = TRUE
    BY <1>1, Zenon DEF InString
  <2>2. Expects(FALSE, key, s[k]) = FALSE
    BY <1>1, SignsAre, Classes DEF Expects
  <2>3. Restores(s, u, left, k + 1, InString(FALSE, s[k]), Expects(FALSE, key, s[k]))
    BY ONLY <1>3, <2>1, <2>2, Zenon
  <2>4. FALSE \in BOOLEAN
    OBVIOUS
  <2>5. QED BY <1>1, <1>4, <2>3, <2>4, RestoresOne
<1>6. QED BY <1>5 DEF RestoresAny

(* A key whose quotes are gone *)
BareAt(s, P, i, end, sep) ==
  /\ i \in 1..Len(s) /\ end \in (i + 2)..Len(s) /\ sep \in (end + 1)..Len(s)
  /\ i \in P /\ end \in P /\ s[i] = Quote /\ s[end] = Quote /\ s[sep] = Colon /\ s[i + 1] \in Letters
  /\ \A k \in (i + 1)..(end - 1) : k \notin P /\ s[k] \in Identifier
  /\ \A k \in (end + 1)..sep : k \notin P
  /\ \A k \in (end + 1)..(sep - 1) : s[k] \in Blank

LEMMA RestoresKey ==
  ASSUME NEW s \in Body, NEW P, NEW left, Leaves(left, s, P), NEW u \in Body,
         NEW i, NEW end, NEW sep, BareAt(s, P, i, end, sep), Restores(s, u, left, sep + 1, FALSE, FALSE)
  PROVE  Restores(s, u, left, i, FALSE, TRUE)
<1> SUFFICES ASSUME NEW m \in Nat, m >= 1, Behind(u, m, left[i]) PROVE Behind(s, i, KeysFrom(u)[<<m, FALSE, TRUE>>])
  BY DEF Restores
<1> DEFINE e == m + (end - (i + 1))
           p == e + (sep - (end + 1))
           w == KeyWord(u, m)
           x == KeysFrom(u)[<<p + 1, FALSE, FALSE>>]
<1>1. /\ i \in 1..Len(s) /\ end \in (i + 2)..Len(s) /\ sep \in (end + 1)..Len(s)
      /\ i \in P /\ end \in P /\ s[i] = Quote /\ s[end] = Quote /\ s[sep] = Colon /\ s[i + 1] \in Letters
      /\ \A k \in (i + 1)..(end - 1) : k \notin P /\ s[k] \in Identifier
      /\ \A k \in (end + 1)..sep : k \notin P
      /\ \A k \in (end + 1)..(sep - 1) : s[k] \in Blank
  BY DEF BareAt
<1>2. Len(s) \in Nat /\ Len(u) \in Nat /\ \A k \in 1..Len(u) : At(u, k) = u[k]
  BY TextPlaces
<1>3. i \in Nat /\ end \in Nat /\ sep \in Nat /\ e \in Nat /\ p \in Nat /\ m < e /\ e <= p /\ 1 <= m
  BY <1>1, <1>2
<1>4. Behind(u, m, left[i + 1])
  <2>1. left[i] = left[i + 1]
    BY <1>1 DEF Leaves
  <2>2. QED BY ONLY <2>1, Behind(u, m, left[i]), Zenon
<1>5. /\ Behind(u, e, left[end])
      /\ \A k \in (i + 1)..(end - 1) : m + (k - (i + 1)) \in 1..Len(u) /\ u[m + (k - (i + 1))] = s[k]
  <2> DEFINE i1 == i + 1
  <2>1. i1 \in 1..(Len(s) + 1) /\ end \in i1..(Len(s) + 1) /\ (\A k \in i1..(end - 1) : k \notin P) /\ Behind(u, m, left[i1])
    BY <1>1, <1>2, <1>4
  <2> HIDE DEF i1
  <2>2. /\ Behind(u, m + (end - i1), left[end])
        /\ \A k \in i1..(end - 1) : m + (k - i1) \in 1..Len(u) /\ u[m + (k - i1)] = s[k]
    BY <2>1, LeavesRun
  <2>3. QED BY ONLY <2>2, Zenon DEF i1, e
<1>6. Behind(u, e, left[end + 1])
  <2>1. end \in 1..Len(s)
    BY <1>1, <1>3
  <2>2. left[end] = left[end + 1]
    BY <1>1, <2>1 DEF Leaves
  <2> HIDE DEF e
  <2>3. QED BY ONLY <1>5, <2>2, Zenon
<1> HIDE DEF e
<1>7. /\ Behind(u, p + 1, left[sep + 1])
      /\ \A k \in (end + 1)..sep : e + (k - (end + 1)) \in 1..Len(u) /\ u[e + (k - (end + 1))] = s[k]
  <2> DEFINE i1 == end + 1
             j1 == sep + 1
  <2>1. i1 \in 1..(Len(s) + 1) /\ j1 \in i1..(Len(s) + 1) /\ j1 - 1 = sep
    BY <1>1, <1>2, <1>3
  <2>2. \A k \in i1..(j1 - 1) : k \notin P
    BY ONLY <1>1, <2>1 DEF i1
  <2>3. Behind(u, e, left[i1]) /\ e \in Nat /\ e >= 1
    BY <1>3, <1>6
  <2>4. e + (j1 - i1) = p + 1
    BY <1>3
  <2> HIDE DEF i1, j1, p
  <2>5. /\ Behind(u, e + (j1 - i1), left[j1])
        /\ \A k \in i1..(j1 - 1) : e + (k - i1) \in 1..Len(u) /\ u[e + (k - i1)] = s[k]
    BY ONLY <2>1, <2>2, <2>3, LeavesRun, s \in Body, u \in Body, Leaves(left, s, P)
  <2>6. QED BY ONLY <2>1, <2>4, <2>5, Zenon DEF i1, j1
<1>8. \A k \in m..(e - 1) : k \in 1..Len(u) /\ u[k] = s[(k - m) + (i + 1)] /\ u[k] \in Identifier
  <2> SUFFICES ASSUME NEW k \in m..(e - 1) PROVE k \in 1..Len(u) /\ u[k] = s[(k - m) + (i + 1)] /\ u[k] \in Identifier
    OBVIOUS
  <2> DEFINE j == (k - m) + (i + 1)
  <2>1. j \in (i + 1)..(end - 1) /\ m + (j - (i + 1)) = k
    BY <1>3 DEF e
  <2> HIDE DEF j
  <2>2. QED BY ONLY <1>1, <1>5, <2>1 DEF j
<1>9. \A k \in e..p : k \in 1..Len(u) /\ u[k] = s[(k - e) + (end + 1)] /\ (k # p => u[k] \in Blank)
  <2> SUFFICES ASSUME NEW k \in e..p PROVE k \in 1..Len(u) /\ u[k] = s[(k - e) + (end + 1)] /\ (k # p => u[k] \in Blank)
    OBVIOUS
  <2> DEFINE j == (k - e) + (end + 1)
  <2>1. j \in (end + 1)..sep /\ e + (j - (end + 1)) = k /\ (k # p => j \in (end + 1)..(sep - 1))
    BY <1>3
  <2> HIDE DEF j
  <2>2. QED BY ONLY <1>1, <1>7, <2>1 DEF j
<1>10. u[p] = Colon /\ p \in 1..Len(u)
  <2>1. p \in e..p /\ (p - e) + (end + 1) = sep
    BY <1>3
  <2> HIDE DEF p
  <2>2. QED BY ONLY <1>1, <1>9, <2>1
<1> HIDE DEF p
<1>11. m \in 1..Len(u) /\ u[m] \in Letters
  <2>1. m \in m..(e - 1) /\ (m - m) + (i + 1) = i + 1
    BY <1>3
  <2>2. QED BY ONLY <1>1, <1>8, <2>1
<1>12. KeyEnd(u, m) = e
  <2>1. At(u, e) \notin Identifier
    <3>1. e \in e..p
      BY <1>3
    <3>2. e \in 1..Len(u) /\ (u[e] \in Blank \/ u[e] = Colon)
      BY ONLY <1>9, <1>10, <3>1
    <3>3. \A c \in Blank \cup {Colon} : c \notin Identifier
      BY Classes
    <3>4. QED BY <1>2, <3>2, <3>3
  <2>2. \A k \in m..(e - 1) : At(u, k) \in Identifier
    BY ONLY <1>2, <1>8
  <2>3. m \in 1..(Len(u) + 1) /\ e \in m..(Len(u) + 1)
    <3>1. e \in e..p
      BY <1>3
    <3>2. e \in 1..Len(u)
      BY ONLY <1>9, <3>1
    <3>3. QED BY <1>2, <1>3, <3>2
  <2>4. Past(u, Identifier, m) = e
    BY <2>1, <2>2, <2>3, PastUnique, Classes
  <2>5. QED BY <2>4 DEF KeyEnd
<1>13. KeySep(u, m) = p
  <2>1. At(u, p) \notin Blank
    BY <1>2, <1>10, Classes
  <2>2. \A k \in e..(p - 1) : At(u, k) \in Blank
    <3>1. \A k \in e..(p - 1) : k \in e..p /\ k # p
      BY <1>3
    <3>2. QED BY ONLY <1>2, <1>9, <3>1
  <2>3. e \in 1..(Len(u) + 1) /\ p \in e..(Len(u) + 1)
    BY <1>2, <1>3, <1>10
  <2>4. Past(u, Blank, e) = p
    BY <2>1, <2>2, <2>3, PastUnique, Classes
  <2>5. QED BY <1>12, <2>4 DEF KeySep
<1>14. KeyAt(u, m)
  BY <1>2, <1>10, <1>13, SignsAre DEF KeyAt
<1>15. KeysFrom(u)[<<m, FALSE, TRUE>>] = w \o x
  <2>1. KeysFrom(u)[<<m, FALSE, TRUE>>] = KeyTurn(u, <<m, FALSE, TRUE>>).push \o KeysFrom(u)[KeyTurn(u, <<m, FALSE, TRUE>>).next]
    BY <1>11, KeysAre
  <2>2. TakesKey(u, m, FALSE, TRUE)
    BY <1>11, <1>14 DEF TakesKey
  <2>3. KeyTurn(u, <<m, FALSE, TRUE>>).push = w /\ KeyTurn(u, <<m, FALSE, TRUE>>).next = <<KeySep(u, m) + 1, FALSE, FALSE>>
    BY <1>11, <2>2, KeyTurnIs
  <2> HIDE DEF w
  <2>4. QED BY ONLY <1>13, <2>1, <2>3, Zenon DEF x
<1>16. /\ w \in Body /\ Len(w) = p - m + 3
       /\ w[1] = Quote /\ w[e - m + 2] = Quote /\ w[p - m + 3] = Colon
       /\ \A k \in m..(e - 1) : w[k - m + 2] = u[k]
       /\ \A k \in e..(p - 1) : w[k - m + 3] = u[k]
  <2> HIDE DEF w
  <2>1. w = KeyWord(u, m) /\ e = KeyEnd(u, m) /\ p = KeySep(u, m)
    BY <1>12, <1>13 DEF w
  <2>2. QED BY <1>11, <1>14, <2>1, KeyWordIs
<1>17. x \in Body /\ Behind(s, sep + 1, x)
  <2>1. p + 1 \in 1..(Len(u) + 1) /\ p + 1 \in Nat /\ p + 1 >= 1
    BY <1>2, <1>10
  <2>2. x \in Body
    BY <2>1, StateTypes
  <2>3. Behind(s, sep + 1, x)
    BY ONLY <1>7, <2>1, Restores(s, u, left, sep + 1, FALSE, FALSE), Zenon DEF Restores, x
  <2>4. QED BY <2>2, <2>3
<1> HIDE DEF w, x
<1>18. i + Len(w) = sep + 1 /\ e - m = end - (i + 1) /\ p - e = sep - (end + 1)
  BY <1>3, <1>16 DEF e, p
<1>19. ASSUME NEW j \in 1..Len(w) PROVE s[i - 1 + j] = w[j]
  <2>1. j \in 1..(p - m + 3)
    BY <1>16
  <2>2. CASE j = 1
    <3>1. i - 1 + j = i
      BY <1>3, <2>2
    <3>2. QED BY <1>1, <1>16, <2>2, <3>1
  <2>3. CASE j \in 2..(e - m + 1)
    <3> DEFINE k == j - 2 + m
    <3>1. k \in m..(e - 1) /\ k - m + 2 = j /\ (k - m) + (i + 1) = i - 1 + j
      BY <1>3, <2>3
    <3> HIDE DEF k
    <3>2. QED BY ONLY <1>8, <1>16, <3>1
  <2>4. CASE j = e - m + 2
    <3>1. i - 1 + j = end
      BY <1>3, <1>18, <2>4
    <3>2. QED BY ONLY <1>1, <1>16, <2>4, <3>1
  <2>5. CASE j \in (e - m + 3)..(p - m + 2)
    <3> DEFINE k == j - 3 + m
    <3>1. k \in e..(p - 1) /\ k - m + 3 = j /\ (k - e) + (end + 1) = i - 1 + j /\ k \in e..p
      BY <1>3, <1>18, <2>5
    <3> HIDE DEF k
    <3>2. QED BY ONLY <1>9, <1>16, <3>1
  <2>6. CASE j = p - m + 3
    <3>1. i - 1 + j = sep
      BY <1>3, <1>18, <2>6
    <3>2. QED BY ONLY <1>1, <1>16, <2>6, <3>1
  <2>7. j = 1 \/ j \in 2..(e - m + 1) \/ j = e - m + 2 \/ j \in (e - m + 3)..(p - m + 2) \/ j = p - m + 3
    BY ONLY <1>3, <2>1
  <2>8. QED BY ONLY <2>2, <2>3, <2>4, <2>5, <2>6, <2>7
<1>20. Behind(s, i, w \o x)
  <2>1. Behind(s, i + Len(w), x)
    BY ONLY <1>17, <1>18, Zenon
  <2>2. i \in Nat /\ i >= 1
    BY <1>1
  <2>3. QED BY <1>16, <1>17, <1>19, <2>1, <2>2, BehindConcat
<1>21. QED BY ONLY <1>15, <1>20, Zenon

(* The keys that may go without their quotes, as BareKeysRecovered has them *)
IdEnd(s, i) == Past(s, Identifier, i + 1)

Bareable(s) == {i \in DOMAIN s : /\ s[i] = Quote /\ Modes(s)[i] = Out
                                 /\ At(s, i + 1) \in Letters /\ At(s, IdEnd(s, i)) = Quote
                                 /\ At(s, Past(s, Blank, IdEnd(s, i) + 1)) = Colon}

BareQuotes(s) == Bareable(s) \cup {IdEnd(s, i) : i \in Bareable(s)}

LEMMA IdentifierPlain ==
  Identifier \subseteq Plain
  BY Zenon DEF Identifier, Letters, Plain, Chars, Quote, Backslash, Blank, Marker

(* Such a key is a string of its own *)
LEMMA BareableIs ==
  ASSUME NEW s \in Body, NEW i \in Bareable(s), NEW end, end = IdEnd(s, i)
  PROVE  /\ i \in 1..Len(s) /\ s[i] = Quote /\ Modes(s)[i] = Out /\ s[i + 1] \in Letters
         /\ end \in (i + 2)..Len(s) /\ s[end] = Quote /\ Modes(s)[end] = In
         /\ \A k \in (i + 1)..(end - 1) : k \in 1..Len(s) /\ s[k] \in Identifier
         /\ EndsFrom(s)[i + 1] = end + 1
         /\ At(s, Past(s, Blank, end + 1)) = Colon
<1>1. /\ Len(s) \in Nat /\ DOMAIN s = 1..Len(s) /\ \A k \in 1..Len(s) : At(s, k) = s[k]
      /\ \A k : At(s, k) # Nil => k \in 1..Len(s)
  BY TextPlaces
<1>2. /\ i \in 1..Len(s) /\ s[i] = Quote /\ Modes(s)[i] = Out /\ At(s, i + 1) \in Letters
      /\ At(s, end) = Quote /\ At(s, Past(s, Blank, end + 1)) = Colon
  BY <1>1 DEF Bareable
<1>3. /\ i + 1 \in 1..Len(s) /\ s[i + 1] \in Letters /\ end \in 1..Len(s) /\ s[end] = Quote
  <2>1. Nil \notin Letters /\ Nil # Quote
    BY Classes
  <2>2. QED BY <1>1, <1>2, <2>1
<1>4. end \in (i + 1)..(Len(s) + 1) /\ \A k \in (i + 1)..(end - 1) : At(s, k) \in Identifier
  <2>1. i + 1 \in 1..(Len(s) + 1)
    BY <1>1, <1>3
  <2>2. QED BY <2>1, PastIs, Classes DEF IdEnd
<1>5. end # i + 1
  BY <1>3, Classes
<1>6. end \in (i + 2)..Len(s)
  BY ONLY <1>1, <1>2, <1>3, <1>4, <1>5
<1>7. \A k \in (i + 1)..(end - 1) : k \in 1..Len(s) /\ s[k] \in Identifier
  BY <1>1, <1>3, <1>4, <1>6
<1>8. Modes(s)[end] = In
  <2> HIDE DEF In, Out
  <2>1. Modes(s)[i + 1] = In
    BY <1>2, ModeNext
  <2>2. \A k \in (i + 1)..(end - 1) : s[k] # Quote /\ s[k] # Backslash
    BY <1>7, Classes
  <2> DEFINE i1 == i + 1
  <2>3. i1 \in 1..(Len(s) + 1) /\ end \in i1..(Len(s) + 1) /\ Modes(s)[i1] = In /\ end \in i1..end
    BY <1>1, <1>3, <1>4, <2>1
  <2>4. \A k \in i1..(end - 1) : s[k] # Quote /\ (In = In => s[k] # Backslash)
    BY <2>2
  <2>5. In \in {Out, In}
    OBVIOUS
  <2> HIDE DEF i1
  <2>6. QED BY <2>3, <2>4, <2>5, ModeRun
<1>9. EndsFrom(s)[i + 1] = end + 1
  <2> DEFINE T == {k \in Nat : EndsFrom(s)[k] = end + 1}
  <2>1. end \in T
    <3>1. end \in 1..(Len(s) + 1) /\ At(s, end) = Quote /\ end \in Nat
      BY <1>1, <1>2, <1>3
    <3>2. EndsFrom(s)[end] = end + 1
      BY <3>1, EndsAre
    <3>3. QED BY <3>1, <3>2
  <2>2. ASSUME NEW k \in (i + 1)..(end - 1), k + 1 \in T PROVE k \in T
    <3>1. k \in 1..(Len(s) + 1) /\ k \in Nat /\ At(s, k) \in Identifier
      BY <1>1, <1>4, <1>7
    <3>2. At(s, k) # Quote /\ At(s, k) # Backslash /\ At(s, k) \in Plain
      BY <3>1, IdentifierPlain, Classes
    <3>3. EndsFrom(s)[k] = EndsFrom(s)[k + 1]
      BY <3>1, <3>2, EndsAre
    <3>4. QED BY <2>2, <3>1, <3>3
  <2>3. i + 1 \in Nat /\ end \in Nat /\ i + 1 <= end /\ i + 1 \in (i + 1)..end
    BY <1>2, <1>3, <1>6
  <2> HIDE DEF T
  <2>4. i + 1 \in T
    BY ONLY <2>1, <2>2, <2>3, StepBack
  <2>5. QED BY <2>4 DEF T
<1>10. QED BY ONLY <1>2, <1>3, <1>6, <1>7, <1>8, <1>9

(* The places that go *)
LEMMA BareQuotesAre ==
  ASSUME NEW s \in Body
  PROVE  \A k \in BareQuotes(s) :
           /\ k \in 1..Len(s) /\ s[k] = Quote
           /\ k \in Bareable(s) \/ \E i \in Bareable(s) : k = IdEnd(s, i) /\ Modes(s)[k] = In
<1> SUFFICES ASSUME NEW k \in BareQuotes(s)
             PROVE  /\ k \in 1..Len(s) /\ s[k] = Quote
                    /\ k \in Bareable(s) \/ \E i \in Bareable(s) : k = IdEnd(s, i) /\ Modes(s)[k] = In
  OBVIOUS
<1>1. CASE k \in Bareable(s)
  BY <1>1, BareableIs
<1>2. CASE \E i \in Bareable(s) : k = IdEnd(s, i)
  <2>1. PICK i \in Bareable(s) : k = IdEnd(s, i)
    BY <1>2
  <2>2. k \in (i + 2)..Len(s) /\ s[k] = Quote /\ Modes(s)[k] = In /\ i \in 1..Len(s)
    BY <2>1, BareableIs
  <2>3. k \in 1..Len(s)
    BY <2>2, TextPlaces
  <2> HIDE DEF In
  <2>4. QED BY <2>1, <2>2, <2>3
<1>3. QED BY <1>1, <1>2 DEF BareQuotes

(* A string outside of which the reader stands stays unless it is such a key *)
LEMMA StringStays ==
  ASSUME NEW s \in Body, NEW k, NEW end, HasString(s, k, end), Modes(s)[k] = Out, k \notin Bareable(s)
  PROVE  \A j \in k..(end - 1) : j \notin BareQuotes(s)
<1>1. k \in 1..Len(s) /\ s[k] = Quote /\ end \in (k + 2)..(Len(s) + 1) /\ Len(s) \in Nat
  BY TextPlaces DEF HasString
<1>2. \A j \in (k + 1)..(end - 1) : Modes(s)[j] # Out
  BY ModeString
<1> SUFFICES ASSUME NEW j \in k..(end - 1), j \in BareQuotes(s) PROVE FALSE
  OBVIOUS
<1>3. j \notin Bareable(s)
  <2>1. j \in Bareable(s) => Modes(s)[j] = Out
    BY BareableIs
  <2>2. j = k \/ j \in (k + 1)..(end - 1)
    BY <1>1
  <2> HIDE DEF Out
  <2>3. QED BY ONLY <1>2, <2>1, <2>2, k \notin Bareable(s)
<1>4. PICK i \in Bareable(s) : j = IdEnd(s, i)
  BY ONLY <1>3, j \in BareQuotes(s), Zenon DEF BareQuotes
<1>5. /\ Modes(s)[i] = Out /\ i \in 1..Len(s) /\ j \in (i + 2)..Len(s)
      /\ \A m \in (i + 1)..(j - 1) : s[m] \in Identifier
  BY <1>4, BareableIs
<1>6. i < k
  <2>1. i # k
    BY ONLY <1>4, k \notin Bareable(s)
  <2>2. i \notin (k + 1)..(end - 1)
    <3> HIDE DEF Out
    <3>1. QED BY ONLY <1>2, <1>5
  <2>3. QED BY <1>1, <1>5, <2>1, <2>2
<1>7. k \in (i + 1)..(j - 1)
  <2>1. Modes(s)[j] # Out
    <3>1. Modes(s)[j] = In
      BY <1>4, BareableIs
    <3> HIDE DEF In, Out
    <3>2. QED BY <3>1, ModeBehindIs
  <2>2. j # k
    <3> HIDE DEF Out
    <3>1. QED BY <2>1
  <2>3. QED BY <1>1, <1>5, <1>6, <2>2
<1>8. s[k] \in Identifier
  BY <1>5, <1>7
<1>9. QED BY <1>1, <1>8, Classes

(* Where a key is awaited, the scanner expects one *)
Awaits(a, open, key) == a \in {AwaitsFirst, AwaitsItem} /\ open # <<>> /\ Head(open) = Close => key

(* A bareable key has its colon behind it *)
LEMMA BareableNames ==
  ASSUME NEW s \in Body, NEW here \in Bareable(s), NEW end, HasString(s, here, end)
  PROVE  end = IdEnd(s, here) + 1 /\ At(s, Past(s, Blank, end)) = Colon
<1>1. EndsFrom(s)[here + 1] = IdEnd(s, here) + 1 /\ At(s, Past(s, Blank, IdEnd(s, here) + 1)) = Colon
  BY BareableIs
<1>2. end = EndsFrom(s)[here + 1]
  BY DEF HasString
<1>3. QED BY ONLY <1>1, <1>2, Zenon

(* What stays, sign by sign *)
LEMMA SignStays ==
  ASSUME NEW s \in Body
  PROVE  \A k : s[k] # Quote => k \notin BareQuotes(s)
  BY BareQuotesAre

(* A value, or what follows one, is no such key *)
LEMMA BareableIsKey ==
  ASSUME NEW s \in Body, NEW here \in Bareable(s), NEW end, HasString(s, here, end),
         NEW open \in Seq(Closers), Reads(s, end, AwaitsEnd, open)
  PROVE  FALSE
<1> DEFINE next == Past(s, Blank, end)
<1>1. end \in 1..(Len(s) + 1)
  BY TextPlaces DEF HasString
<1>2. AwaitsEnd \in Awaited
  BY JsonSigns
<1>3. /\ next \in 1..(Len(s) + 1)
      /\ \/ Ends(s, next, AwaitsEnd, open)
         \/ Shuts(s, next, AwaitsEnd, open)
         \/ Parts(s, next, AwaitsEnd, open)
         \/ Names(s, next, AwaitsEnd, open)
         \/ Quotes(s, next, AwaitsEnd, open)
         \/ Counts(s, next, AwaitsEnd, open)
         \/ Opens(s, next, AwaitsEnd, open)
  BY <1>1, <1>2, JsonReads
<1>4. At(s, next) = Colon
  BY BareableNames
<1> HIDE DEF next
<1>5. next \in 1..Len(s) /\ s[next] = Colon
  BY <1>4, TextPlaces, JsonSigns
<1>6. Colon \notin Closers /\ Colon # Comma
  BY Zenon DEF Colon, Closers, Comma
<1>7. ~Ends(s, next, AwaitsEnd, open)
  BY <1>5, TextPlaces DEF Ends
<1>8. ~Shuts(s, next, AwaitsEnd, open)
  BY ONLY <1>5, <1>6, Zenon DEF Shuts
<1>9. ~Parts(s, next, AwaitsEnd, open)
  BY ONLY <1>5, <1>6, Zenon DEF Parts
<1>10. AwaitsEnd \notin {AwaitsFirst, AwaitsItem}
  BY JsonSigns, Zenon
<1>11. ~Names(s, next, AwaitsEnd, open)
  BY ONLY <1>10, Zenon DEF Names
<1>12. ~Quotes(s, next, AwaitsEnd, open) /\ ~Counts(s, next, AwaitsEnd, open) /\ ~Opens(s, next, AwaitsEnd, open)
  BY Zenon DEF Quotes, Counts, Opens
<1>13. QED BY ONLY <1>3, <1>7, <1>8, <1>9, <1>11, <1>12

RestoresFrom(s, u, left, i, a, open) ==
  \A key \in BOOLEAN : Awaits(a, open, key) => Restores(s, u, left, i, FALSE, key)

LEMMA AwaitsAre ==
  /\ \A a, open : Awaits(a, open, TRUE)
  /\ \A open, key : Awaits(AwaitsEnd, open, key) /\ Awaits(AwaitsValue, open, key)
  /\ \A a, open, key : Head(open) # Close => Awaits(a, open, key)
<1>1. AwaitsEnd \notin {AwaitsFirst, AwaitsItem} /\ AwaitsValue \notin {AwaitsFirst, AwaitsItem}
  BY JsonSigns, Zenon
<1>2. QED BY ONLY <1>1, Zenon DEF Awaits

(* The scanner gives the keys of what JSON reads their quotes back *)
LEMMA JsonRestored ==
  ASSUME NEW s \in Body, Ascii(s), NEW left, Leaves(left, s, BareQuotes(s)), NEW u \in Body
  PROVE  \A i \in 1..(Len(s) + 1), a \in Awaited, open \in Seq(Closers) :
           Reads(s, i, a, open) /\ Modes(s)[i] = Out => RestoresFrom(s, u, left, i, a, open)
<1> DEFINE m == Len(s) + 1
           P == BareQuotes(s)
           mode == Modes(s)
           Back(i) == \A a \in Awaited, open \in Seq(Closers) :
                        Reads(s, i, a, open) /\ mode[i] = Out => RestoresFrom(s, u, left, i, a, open)
           T == {i \in 1..m : Back(i)}
<1> HIDE DEF Out, In
<1>1. Len(s) \in Nat /\ m \in Nat /\ \A k \in 1..Len(s) : s[k] \in Chars /\ AsChar(s[k]) = s[k]
  BY TextPlaces, AsciiIs
<1>2. ASSUME NEW i \in 1..m, \A j \in 1..m : j > i => j \in T PROVE i \in T
  <2> SUFFICES ASSUME NEW a \in Awaited, NEW open \in Seq(Closers), Reads(s, i, a, open), mode[i] = Out
               PROVE  RestoresFrom(s, u, left, i, a, open)
    OBVIOUS
  <2> DEFINE here == Past(s, Blank, i)
  <2>1. ASSUME NEW j \in 1..m, j > i, NEW b \in Awaited, NEW o \in Seq(Closers), Reads(s, j, b, o), mode[j] = Out
        PROVE  RestoresFrom(s, u, left, j, b, o)
    <3>1. Back(j)
      <4> HIDE DEF Back
      <4>1. QED BY <1>2, <2>1
    <3>2. QED BY ONLY <2>1, <3>1, Zenon
  <2> HIDE DEF Back
  <2>2. /\ here \in i..(Len(s) + 1) /\ here \in 1..(Len(s) + 1)
        /\ \A k \in i..(here - 1) : k \in 1..Len(s) /\ s[k] \in Blank
        /\ \/ Ends(s, here, a, open)
           \/ Shuts(s, here, a, open)
           \/ Parts(s, here, a, open)
           \/ Names(s, here, a, open)
           \/ Quotes(s, here, a, open)
           \/ Counts(s, here, a, open)
           \/ Opens(s, here, a, open)
    BY JsonReads
  <2> HIDE DEF here
  <2>3. here \in i..(Len(s) + 1) /\ here \in 1..m /\ i \in 1..(Len(s) + 1) /\ here \in i..here
    BY <2>2
  <2>4. AwaitsValue \in Awaited /\ AwaitsFirst \in Awaited /\ AwaitsItem \in Awaited /\ AwaitsEnd \in Awaited
    BY JsonSigns
  <2>5. \A k \in i..(here - 1) : k \notin P /\ AsChar(s[k]) = s[k] /\ s[k] # Quote /\ s[k] \notin Letters
    <3>1. \A c \in Blank : c \notin Letters /\ c # Quote
      BY Classes
    <3>2. \A k \in i..(here - 1) : AsChar(s[k]) = s[k] /\ s[k] # Quote /\ s[k] \notin Letters
      BY ONLY <1>1, <2>2, <3>1
    <3>3. QED BY <3>2, SignStays
  <2> HIDE DEF P
  <2>6. mode[here] = Out
    <3>1. Out \in {Out, In} /\ Out # In
      BY ModeBehindIs
    <3>2. \A k \in i..(here - 1) : s[k] # Quote /\ (Out = In => s[k] # Backslash)
      BY ONLY <2>5, <3>1
    <3>3. \A k \in i..here : Modes(s)[k] = Out
      BY <2>3, <3>1, <3>2, ModeRun
    <3>4. QED BY ONLY <2>3, <3>3
  <2>7. ASSUME RestoresAny(s, u, left, here) PROVE RestoresFrom(s, u, left, i, a, open)
    <3>1. RestoresAny(s, u, left, i)
      BY <2>3, <2>5, <2>7, RestoresRun DEF P
    <3>2. QED BY ONLY <3>1, Zenon DEF RestoresAny, RestoresFrom
  <2>8. ASSUME here \in 1..Len(s), s[here] \notin Letters, s[here] # Quote
        PROVE  /\ here + 1 \in 1..m /\ here + 1 > i /\ mode[here + 1] = Out
               /\ RestoresAny(s, u, left, here + 1) => RestoresAny(s, u, left, here)
               /\ OpensKey(s[here]) /\ Restores(s, u, left, here + 1, FALSE, TRUE) => RestoresAny(s, u, left, here)
    <3>1. here + 1 \in 1..m /\ here + 1 > i
      BY <1>1, <2>3, <2>8
    <3>2. here \notin P
      BY <2>8, SignStays DEF P
    <3>3. mode[here + 1] = Out
      BY <2>6, <2>8, ModeNext
    <3>4. QED BY <1>1, <2>8, <3>1, <3>2, <3>3, RestoresSign DEF P
  <2>9. ASSUME NEW j, NEW b, NEW o, RestoresFrom(s, u, left, j, b, o), b \in {AwaitsEnd, AwaitsValue} \/ Head(o) # Close
        PROVE  RestoresAny(s, u, left, j)
    <3>1. \A key : Awaits(b, o, key)
      BY <2>9, AwaitsAre, Zenon
    <3>2. QED BY ONLY <2>9, <3>1, Zenon DEF RestoresFrom, RestoresAny
  <2>10. ASSUME NEW j, NEW b, NEW o, RestoresFrom(s, u, left, j, b, o)
         PROVE  Restores(s, u, left, j, FALSE, TRUE)
    <3>1. Awaits(b, o, TRUE) /\ TRUE \in BOOLEAN
      BY AwaitsAre, Zenon
    <3>2. QED BY ONLY <2>10, <3>1, Zenon DEF RestoresFrom
  <2>11. CASE Ends(s, here, a, open)
    <3>1. here = Len(s) + 1
      BY <2>11 DEF Ends
    <3>2. RestoresAny(s, u, left, here)
      BY <3>1, RestoresNothing DEF RestoresAny
    <3>3. QED BY <2>7, <3>2
  <2>12. CASE Shuts(s, here, a, open)
    <3>1. here \in 1..Len(s) /\ s[here] \in Closers /\ Tail(open) \in Seq(Closers) /\ Reads(s, here + 1, AwaitsEnd, Tail(open))
      BY ONLY <2>12, Zenon DEF Shuts
    <3>2. s[here] \notin Letters /\ s[here] # Quote
      <4>1. \A c \in Closers : c \notin Letters /\ c # Quote
        <5>1. Close # Quote /\ CloseList # Quote
          BY Zenon DEF Close, CloseList, Quote
        <5>2. QED BY <5>1, JsonSigns
      <4>2. QED BY <3>1, <4>1
    <3>3. RestoresFrom(s, u, left, here + 1, AwaitsEnd, Tail(open))
      BY ONLY <2>1, <2>4, <2>8, <3>1, <3>2, Zenon
    <3>4. RestoresAny(s, u, left, here + 1)
      BY ONLY <2>9, <3>3, Zenon
    <3>5. QED BY ONLY <2>7, <2>8, <3>1, <3>2, <3>4
  <2>13. CASE Parts(s, here, a, open)
    <3>1. here \in 1..Len(s) /\ s[here] = Comma /\ Reads(s, here + 1, AwaitsItem, open)
      BY ONLY <2>13, Zenon DEF Parts
    <3>2. s[here] \notin Letters /\ s[here] # Quote
      BY <3>1, JsonSigns, Classes
    <3>3. RestoresFrom(s, u, left, here + 1, AwaitsItem, open)
      BY ONLY <2>1, <2>4, <2>8, <3>1, <3>2, open \in Seq(Closers), Zenon
    <3>4. OpensKey(s[here])
      <4>1. OpensKey(Comma)
        BY Zenon DEF OpensKey, Comma
      <4>2. QED BY ONLY <3>1, <4>1, Zenon
    <3>5. Restores(s, u, left, here + 1, FALSE, TRUE)
      BY ONLY <2>10, <3>3, Zenon
    <3>6. QED BY ONLY <2>7, <2>8, <3>1, <3>2, <3>4, <3>5
  <2>14. CASE Names(s, here, a, open)
    <3>1. PICK end \in 1..(Len(s) + 1), colon \in 1..(Len(s) + 1) :
            /\ a \in {AwaitsFirst, AwaitsItem} /\ open # <<>> /\ Head(open) = Close
            /\ HasString(s, here, end) /\ colon = Past(s, Blank, end) /\ colon \in end..Len(s) /\ s[colon] = Colon
            /\ Reads(s, colon + 1, AwaitsValue, open)
      BY ONLY <2>14, Zenon DEF Names
    <3>2. here \in 1..Len(s) /\ s[here] = Quote /\ end \in (here + 2)..(Len(s) + 1) /\ mode[end] = Out
      BY <2>6, <3>1, ModeString DEF HasString
    <3>3. colon \in 1..Len(s) /\ colon + 1 \in 1..m /\ colon + 1 > i /\ colon \in end..(Len(s) + 1) /\ colon \in end..colon
      BY <1>1, <2>3, <3>1, <3>2
    <3>4. \A k \in end..(colon - 1) : k \in 1..Len(s) /\ s[k] \in Blank
      <4>1. \A k \in end..(colon - 1) : At(s, k) \in Blank
        BY <3>1, PastIs, Classes
      <4>2. \A k \in end..(colon - 1) : k \in 1..Len(s) /\ At(s, k) = s[k]
        BY <1>1, <3>3, TextPlaces
      <4>3. QED BY ONLY <4>1, <4>2
    <3>5. \A k \in end..(colon - 1) : k \notin P /\ AsChar(s[k]) = s[k] /\ s[k] # Quote /\ s[k] \notin Letters
      <4>1. \A c \in Blank : c \notin Letters /\ c # Quote
        BY Classes
      <4>2. \A k \in end..(colon - 1) : AsChar(s[k]) = s[k] /\ s[k] # Quote /\ s[k] \notin Letters
        BY ONLY <1>1, <3>4, <4>1
      <4>3. QED BY <4>2, SignStays DEF P
    <3>6. s[colon] \notin Letters /\ s[colon] # Quote /\ colon \notin P
      <4>1. s[colon] \notin Letters /\ s[colon] # Quote
        BY <3>1, JsonSigns, Classes
      <4>2. QED BY <4>1, SignStays DEF P
    <3>7. mode[colon + 1] = Out
      <4>1. Out \in {Out, In} /\ Out # In
        BY ModeBehindIs
      <4>2. \A k \in end..(colon - 1) : s[k] # Quote /\ (Out = In => s[k] # Backslash)
        BY ONLY <3>5, <4>1
      <4>3. \A k \in end..colon : Modes(s)[k] = Out
        BY <3>2, <3>3, <4>1, <4>2, ModeRun
      <4>4. mode[colon] = Out
        BY ONLY <3>3, <4>3
      <4>5. QED BY <3>3, <3>6, <4>4, ModeNext
    <3>8. RestoresAny(s, u, left, colon + 1)
      <4>1. RestoresFrom(s, u, left, colon + 1, AwaitsValue, open)
        BY ONLY <2>1, <2>4, <3>1, <3>3, <3>7, open \in Seq(Closers), Zenon
      <4>2. QED BY ONLY <2>9, <4>1, Zenon
    <3>9. CASE here \notin Bareable(s)
      <4>1. RestoresAny(s, u, left, colon)
        BY <1>1, <3>3, <3>6, <3>8, RestoresSign DEF P
      <4>2. RestoresAny(s, u, left, end)
        BY <3>3, <3>5, <4>1, RestoresRun DEF P
      <4>3. \A j \in here..(end - 1) : j \notin P
        BY <2>6, <3>1, <3>9, StringStays DEF P
      <4>4. Restores(s, u, left, end, FALSE, FALSE)
        BY <4>2 DEF RestoresAny
      <4>5. RestoresAny(s, u, left, here)
        BY <3>1, <4>3, <4>4, RestoresString DEF P
      <4>6. QED BY <2>7, <4>5
    <3>10. CASE here \in Bareable(s)
      <4> DEFINE e == IdEnd(s, here)
      <4>1. /\ e \in (here + 2)..Len(s) /\ s[e] = Quote /\ s[here + 1] \in Letters
            /\ \A k \in (here + 1)..(e - 1) : k \in 1..Len(s) /\ s[k] \in Identifier
        BY <3>10, BareableIs
      <4>2. end = e + 1
        BY <3>1, <3>10, BareableNames
      <4>3. here \in P /\ e \in P
        BY <3>10 DEF P, BareQuotes
      <4>4. \A k \in (here + 1)..(e - 1) : k \notin P /\ s[k] \in Identifier
        <5>1. \A c \in Identifier : c # Quote
          BY Classes
        <5>2. \A k \in (here + 1)..(e - 1) : s[k] # Quote
          BY ONLY <4>1, <5>1
        <5>3. QED BY <4>1, <5>2, SignStays DEF P
      <4> HIDE DEF e
      <4>5. \A k \in (e + 1)..(colon - 1) : s[k] \in Blank /\ k \notin P
        BY ONLY <3>4, <3>5, <4>2
      <4>6. \A k \in (e + 1)..colon : k \notin P
        <5>1. \A k \in (e + 1)..colon : k = colon \/ k \in (e + 1)..(colon - 1)
          BY <3>3, <4>1
        <5>2. QED BY ONLY <3>6, <4>5, <5>1
      <4>7. colon \in (e + 1)..Len(s)
        BY ONLY <3>1, <4>2
      <4>8. BareAt(s, P, here, e, colon)
        BY ONLY <3>1, <3>2, <4>1, <4>3, <4>4, <4>5, <4>6, <4>7, Zenon DEF BareAt
      <4>9. Restores(s, u, left, colon + 1, FALSE, FALSE)
        BY <3>8 DEF RestoresAny
      <4>10. Restores(s, u, left, here, FALSE, TRUE)
        BY <4>8, <4>9, RestoresKey DEF P
      <4>11. Restores(s, u, left, i, FALSE, TRUE)
        <5>1. \A k \in i..(here - 1) : s[k] \in Blank
          BY ONLY <2>2
        <5>2. QED BY <2>3, <2>5, <4>10, <5>1, RestoresRun DEF P
      <4>12. ASSUME NEW key \in BOOLEAN, Awaits(a, open, key) PROVE Restores(s, u, left, i, FALSE, key)
        <5>1. key = TRUE
          BY ONLY <3>1, <4>12, key \in BOOLEAN DEF Awaits
        <5>2. QED BY ONLY <4>11, <5>1, Zenon
      <4>13. QED BY ONLY <4>12, Zenon DEF RestoresFrom
    <3>11. QED BY <3>9, <3>10
  <2>15. CASE Quotes(s, here, a, open)
    <3>1. PICK end \in 1..(Len(s) + 1) : HasString(s, here, end) /\ Reads(s, end, AwaitsEnd, open)
      BY ONLY <2>15, Zenon DEF Quotes
    <3>2. end \in 1..m /\ end > i /\ mode[end] = Out
      BY <2>3, <2>6, <3>1, ModeString DEF HasString
    <3>3. RestoresAny(s, u, left, end)
      <4>1. RestoresFrom(s, u, left, end, AwaitsEnd, open)
        BY ONLY <2>1, <2>4, <3>1, <3>2, open \in Seq(Closers), Zenon
      <4>2. QED BY ONLY <2>9, <4>1, Zenon
    <3>4. \A j \in here..(end - 1) : j \notin P
      <4>1. here \notin Bareable(s)
        BY <3>1, BareableIsKey
      <4>2. QED BY <2>6, <3>1, <4>1, StringStays DEF P
    <3>5. Restores(s, u, left, end, FALSE, FALSE)
      BY <3>3 DEF RestoresAny
    <3>6. RestoresAny(s, u, left, here)
      BY <3>1, <3>4, <3>5, RestoresString DEF P
    <3>7. QED BY <2>7, <3>6
  <2>16. CASE Counts(s, here, a, open)
    <3>1. PICK end \in (here + 1)..(Len(s) + 1) :
            (\A k \in here..(end - 1) : s[k] = One) /\ Reads(s, end, AwaitsEnd, open)
      BY ONLY <2>16, Zenon DEF Counts
    <3>2. end \in 1..m /\ end > i /\ end \in here..(Len(s) + 1) /\ end \in here..end
      BY <2>3, <3>1
    <3>3. One \notin Letters /\ One # Quote /\ AsChar(One) = One
      BY JsonSigns, Classes
    <3>4. \A k \in here..(end - 1) : k \notin P /\ AsChar(s[k]) = s[k] /\ s[k] # Quote /\ s[k] \notin Letters
      <4>1. \A k \in here..(end - 1) : AsChar(s[k]) = s[k] /\ s[k] # Quote /\ s[k] \notin Letters
        BY ONLY <3>1, <3>3
      <4>2. QED BY <4>1, SignStays DEF P
    <3>5. mode[end] = Out
      <4>1. Out \in {Out, In} /\ Out # In
        BY ModeBehindIs
      <4>2. \A k \in here..(end - 1) : s[k] # Quote /\ (Out = In => s[k] # Backslash)
        BY ONLY <3>4, <4>1
      <4>3. \A k \in here..end : Modes(s)[k] = Out
        BY <2>3, <2>6, <3>2, <4>1, <4>2, ModeRun
      <4>4. QED BY ONLY <3>2, <4>3
    <3>6. RestoresAny(s, u, left, end)
      <4>1. RestoresFrom(s, u, left, end, AwaitsEnd, open)
        BY ONLY <2>1, <2>4, <3>1, <3>2, <3>5, open \in Seq(Closers), Zenon
      <4>2. QED BY ONLY <2>9, <4>1, Zenon
    <3>7. RestoresAny(s, u, left, here)
      BY <2>3, <3>2, <3>4, <3>6, RestoresRun DEF P
    <3>8. QED BY <2>7, <3>7
  <2>17. CASE Opens(s, here, a, open)
    <3>1. PICK c \in {Open, OpenList}, d \in Closers :
            /\ here \in 1..Len(s) /\ s[here] = c /\ <<d>> \o open \in Seq(Closers)
            /\ Head(<<d>> \o open) = d /\ (d = Close => c = Open)
            /\ Reads(s, here + 1, AwaitsFirst, <<d>> \o open)
      BY ONLY <2>17, Zenon DEF Opens
    <3>2. s[here] \notin Letters /\ s[here] # Quote
      <4>1. \A x \in {Open, OpenList} : x \notin Letters /\ x # Quote
        <5>1. Open # Quote /\ OpenList # Quote
          BY Zenon DEF Open, OpenList, Quote
        <5>2. QED BY <5>1, JsonSigns
      <4>2. QED BY <3>1, <4>1
    <3>3. RestoresFrom(s, u, left, here + 1, AwaitsFirst, <<d>> \o open)
      BY ONLY <2>1, <2>4, <2>8, <3>1, <3>2, Zenon
    <3>4. CASE d = Close
      <4>1. OpensKey(s[here])
        <5>1. OpensKey(Open)
          BY Zenon DEF OpensKey, Open
        <5>2. s[here] = Open
          BY ONLY <3>1, <3>4
        <5>3. QED BY ONLY <5>1, <5>2, Zenon
      <4>2. Restores(s, u, left, here + 1, FALSE, TRUE)
        BY ONLY <2>10, <3>3, Zenon
      <4>3. QED BY ONLY <2>7, <2>8, <3>1, <3>2, <4>1, <4>2
    <3>5. CASE d # Close
      <4>1. Head(<<d>> \o open) # Close
        BY ONLY <3>1, <3>5, Zenon
      <4>2. RestoresAny(s, u, left, here + 1)
        BY ONLY <2>9, <3>3, <4>1, Zenon
      <4>3. QED BY ONLY <2>7, <2>8, <3>1, <3>2, <4>2
    <3>6. QED BY <3>4, <3>5
  <2>18. QED BY ONLY <2>2, <2>11, <2>12, <2>13, <2>14, <2>15, <2>16, <2>17, Zenon
<1>3. 1..m \subseteq T
  <2>1. \A i \in 1..m : (\A j \in 1..m : j > i => j \in T) => i \in T
    <3> HIDE DEF T, m
    <3>1. QED BY ONLY <1>2
  <2> HIDE DEF T, m
  <2>2. m \in Nat
    BY ONLY <1>1
  <2>3. QED BY ONLY <2>1, <2>2, DownInduction
<1>4. \A i \in 1..m : Back(i)
  <2> HIDE DEF Back
  <2>1. QED BY ONLY <1>3 DEF T
<1>5. QED BY ONLY <1>4, Zenon

LEMMA BareKeysRead ==
  ASSUME NEW s \in Body, IsJson(s), Ascii(s)
  PROVE  LenientParseObject(Without(s, BareQuotes(s))) = Parsed(s)
<1> DEFINE P == BareQuotes(s)
           u == Without(s, P)
<1>1. u \in Body /\ \E left : Leaves(left, s, P) /\ left[1] = u
  BY LeavesExist
<1>2. PICK left : Leaves(left, s, P) /\ left[1] = u
  BY <1>1
<1> HIDE DEF u
<1>3. AwaitsValue \in Awaited /\ <<>> \in Seq(Closers) /\ 1 \in 1..(Len(s) + 1)
  BY JsonSigns, EmptySeq, TextPlaces
<1>4. Reads(s, 1, AwaitsValue, <<>>)
  BY ReadsIsFrom, Zenon DEF Reads
<1>5. RestoresFrom(s, u, left, 1, AwaitsValue, <<>>)
  <2>1. Modes(s)[1] = Out
    BY ModesAre
  <2>2. QED BY <1>1, <1>2, <1>3, <1>4, <2>1, JsonRestored
<1>6. Restores(s, u, left, 1, FALSE, FALSE)
  <2>1. Awaits(AwaitsValue, <<>>, FALSE) /\ FALSE \in BOOLEAN
    BY AwaitsAre, Zenon
  <2>2. QED BY ONLY <1>5, <2>1, Zenon DEF RestoresFrom
<1>7. Behind(s, 1, KeysFrom(u)[<<1, FALSE, FALSE>>])
  <2>1. Behind(u, 1, u)
    BY <1>1, WholeBehind
  <2>2. Behind(u, 1, left[1])
    BY ONLY <1>2, <2>1, Zenon
  <2>3. 1 \in Nat /\ 1 >= 1
    OBVIOUS
  <2>4. QED BY ONLY <1>6, <2>2, <2>3, Zenon DEF Restores
<1>8. QuoteBareKeys(u) = s
  <2>1. 1 \in 1..(Len(u) + 1)
    BY <1>1, TextPlaces
  <2>2. KeysFrom(u)[<<1, FALSE, FALSE>>] \in Body
    BY <1>1, <2>1, StateTypes
  <2>3. KeysFrom(u)[<<1, FALSE, FALSE>>] = s
    BY <1>7, <2>2, BehindWhole
  <2>4. QED BY <2>3, KeysIsFrom
<1>9. LenientParseObject(u) = Parsed(s)
  BY <1>8, Zenon DEF LenientParseObject, Recover
<1>10. QED BY <1>9 DEF u

(* Layer 1 recovers what was meant: whatever bare keys JSON text could do   *)
(* with, it is read as that text when they have lost their quotes           *)
(* (json_lenient.rs:13).                                                    *)
THEOREM BareKeysAlwaysRecovered == Spec => []BareKeysRecovered
<1>1. ASSUME Types PROVE BareKeysRecovered
  <2>1. Without(body, BareQuotes(body)) = Without(body, Bareable(body) \cup {Past(body, Identifier, i + 1) : i \in Bareable(body)})
    BY Zenon DEF BareQuotes, IdEnd
  <2>2. IsJson(body) /\ Ascii(body) => LenientParseObject(Without(body, BareQuotes(body))) = Parsed(body)
    BY <1>1, BareKeysRead DEF Types
  <2>3. QED BY <2>1, <2>2, Zenon DEF BareKeysRecovered, Bareable, IdEnd, Out, Colon
<1>2. QED BY <1>1, BodyText, PTL

-----------------------------------------------------------------------------
(***************************************************************************)
(* Entries and their commas.                                               *)
(***************************************************************************)
LEMMA NestingIs ==
  /\ \A c : Nesting(c) \in Int
  /\ Nesting(Open) = 1 /\ Nesting(OpenList) = 1 /\ Nesting(Close) = 0 - 1 /\ Nesting(CloseList) = 0 - 1
  /\ \A c : c \notin {Open, OpenList, Close, CloseList} => Nesting(c) = 0
  /\ \A c \in Identifier \cup Blank \cup {Quote, Backslash, Comma, Colon} : Nesting(c) = 0
  /\ \A c : EndsKey(c) => Nesting(c) = 0 /\ c # Comma
  /\ \A c : Nesting(AsChar(c)) = Nesting(c)
<1> DEFINE one == 1
           less == -1
           none == 0
<1>1. \A c : Nesting(c) = IF c \in {Open, OpenList} THEN one ELSE IF c \in {Close, CloseList} THEN less ELSE none
  BY Zenon DEF Nesting, Open, OpenList, Close, CloseList
<1>2. Open \notin {Close, CloseList} /\ OpenList \notin {Close, CloseList}
  BY Zenon DEF Open, OpenList, Close, CloseList
<1>3. \A c \in Identifier \cup Blank \cup {Quote, Backslash, Comma, Colon} : c \notin {Open, OpenList, Close, CloseList}
  BY Zenon DEF Open, OpenList, Close, CloseList, Identifier, Letters, Blank, Quote, Backslash, Comma, Colon
<1>4. \A c : EndsKey(c) => c \notin {Open, OpenList, Close, CloseList} /\ c # Comma
  BY Zenon DEF Open, OpenList, Close, CloseList, EndsKey, Comma
<1>5. \A c : AsChar(c) = c \/ (c \notin {Open, OpenList, Close, CloseList} /\ AsChar(c) \notin {Open, OpenList, Close, CloseList})
  BY Zenon DEF Open, OpenList, Close, CloseList, AsChar
<1>6. less = 0 - 1 /\ one = 1 /\ none = 0
  OBVIOUS
<1> HIDE DEF one, less, none
<1>7. QED BY ONLY <1>1, <1>2, <1>3, <1>4, <1>5, <1>6

IsDepths(depth, modes, s) ==
  depth = [i \in 1..(Len(s) + 1) |->
             IF i = 1 THEN 0 ELSE depth[i - 1] + (IF modes[i - 1] = "out" THEN Nesting(s[i - 1]) ELSE 0)]

(* How much deeper it is behind the character at i *)
Deeper(s, i) == IF Modes(s)[i] = Out THEN Nesting(s[i]) ELSE 0

LEMMA DepthsAre ==
  ASSUME NEW s \in Body
  PROVE  /\ Depths(s)[1] = 0
         /\ \A i \in 1..(Len(s) + 1) : Depths(s)[i] \in Int
         /\ \A i \in 1..Len(s) : Depths(s)[i + 1] = Depths(s)[i] + Deeper(s, i)
<1> DEFINE m == Len(s) + 1
           step == [i \in 1..m |-> [v \in Int |-> v + Deeper(s, i - 1)]]
           g == Depths(s)
<1>1. Len(s) \in Nat /\ m \in Nat /\ m >= 1 /\ m = Len(s) + 1
  BY TextPlaces
<1>2. \A i : Deeper(s, i) \in Int
  BY NestingIs DEF Deeper
<1>3. step \in [1..m -> [Int -> Int]] /\ \A i \in 1..m, v \in Int : step[i][v] = v + Deeper(s, i - 1)
  <2> HIDE DEF m
  <2>1. QED BY <1>2
<1> HIDE DEF step, m
<1>4. PICK f \in [1..m -> Int] : \A i \in 1..m : f[i] = IF i = 1 THEN 0 ELSE step[i][f[i - 1]]
  <2>1. Forth(m, Int, 0, step)
    BY ONLY <1>1, <1>3 DEF Forth
  <2>2. QED BY ONLY <2>1, ForthExists
<1>5. \A i \in 1..m : f[i] = IF i = 1 THEN 0 ELSE f[i - 1] + Deeper(s, i - 1)
  <2>1. ASSUME NEW i \in 1..m, i # 1 PROVE f[i - 1] \in Int
    <3>1. i - 1 \in 1..m
      BY <1>1, <2>1
    <3>2. QED BY ONLY <1>4, <3>1
  <2>2. QED BY ONLY <1>3, <1>4, <2>1, Zenon
<1>6. IsDepths(f, Modes(s), s)
  <2>1. f = [i \in 1..m |-> IF i = 1 THEN 0 ELSE f[i - 1] + Deeper(s, i - 1)]
    BY ONLY <1>4, <1>5
  <2>2. QED BY ONLY <2>1, Zenon DEF IsDepths, Deeper, Out, m
<1>7. IsDepths(g, Modes(s), s)
  <2>1. \E depth : IsDepths(depth, Modes(s), s)
    BY <1>6
  <2>2. g = CHOOSE depth : IsDepths(depth, Modes(s), s)
    BY DEF Depths, IsDepths
  <2> HIDE DEF g
  <2>3. QED BY ONLY <2>1, <2>2, Zenon
<1> HIDE DEF g
<1>8. \A i \in 1..m : g[i] = IF i = 1 THEN 0 ELSE g[i - 1] + Deeper(s, i - 1)
  BY ONLY <1>7, Zenon DEF IsDepths, Deeper, Out, m
<1>9. 1 \in 1..m /\ \A i \in 1..Len(s) : i \in 1..m /\ i + 1 \in 1..m /\ i + 1 # 1 /\ (i + 1) - 1 = i
  BY <1>1
<1>10. g[1] = 0
  BY ONLY <1>8, <1>9
<1>11. \A i \in 1..Len(s) : g[i + 1] = g[i] + Deeper(s, i)
  BY ONLY <1>8, <1>9, Zenon
<1>12. \A i \in 1..m : g[i] \in Int
  <2> DEFINE T == {i \in Nat : g[i] \in Int}
  <2>1. 1 \in T
    BY ONLY <1>10
  <2>2. ASSUME NEW k \in 1..(m - 1), k \in T PROVE k + 1 \in T
    <3>1. k \in 1..Len(s) /\ k + 1 \in Nat
      BY <1>1
    <3>2. g[k + 1] = g[k] + Deeper(s, k) /\ g[k] \in Int
      BY ONLY <1>11, <2>2, <3>1
    <3>3. QED BY ONLY <1>2, <3>1, <3>2
  <2> HIDE DEF T
  <2>3. \A i \in 1..m : i \in T
    BY ONLY <1>1, <2>1, <2>2, StepOn
  <2>4. QED BY <2>3 DEF T
<1>13. QED BY <1>10, <1>11, <1>12 DEF g, m

(* From i on: a comma between the entries of the outermost object, and a    *)
(* first colon that is in no string                                         *)
Parted(s, i) == \E x \in i..Len(s) : s[x] = Comma /\ Modes(s)[x] = Out /\ Depths(s)[x] = 1

Clean(s, i) == \A x \in i..Len(s) : s[x] = Colon /\ (\A y \in i..(x - 1) : s[y] # Colon) => Modes(s)[x] = Out

(* Two texts are alike at i and at m, and what is said of the one from i on *)
(* holds of the other from m on                                             *)
Level(s, i, t, m) == Modes(t)[m] = Modes(s)[i] /\ Depths(t)[m] = Depths(s)[i]

Carried(s, i, t, m) == (Parted(s, i) => Parted(t, m)) /\ (Clean(s, i) => Clean(t, m))

LEMMA PartedStep ==
  ASSUME NEW s \in Body, NEW i \in 1..Len(s)
  PROVE  /\ Parted(s, i) <=> (s[i] = Comma /\ Modes(s)[i] = Out /\ Depths(s)[i] = 1) \/ Parted(s, i + 1)
         /\ s[i] = Colon => (Clean(s, i) <=> Modes(s)[i] = Out)
         /\ s[i] # Colon => (Clean(s, i) <=> Clean(s, i + 1))
<1> HIDE DEF Out
<1>1. Len(s) \in Nat /\ i \in Nat
  BY TextPlaces
<1>2. \A x : x \in i..Len(s) <=> x = i \/ x \in (i + 1)..Len(s)
  BY <1>1
<1>3. Parted(s, i) <=> (s[i] = Comma /\ Modes(s)[i] = Out /\ Depths(s)[i] = 1) \/ Parted(s, i + 1)
  BY ONLY <1>2, Zenon DEF Parted
<1>4. \A x \in (i + 1)..Len(s) : \A y : y \in i..(x - 1) <=> y = i \/ y \in (i + 1)..(x - 1)
  BY <1>1
<1>5. \A y : y \notin i..(i - 1)
  BY <1>1
<1>6. s[i] = Colon => (Clean(s, i) <=> Modes(s)[i] = Out)
  <2> SUFFICES ASSUME s[i] = Colon PROVE Clean(s, i) <=> Modes(s)[i] = Out
    OBVIOUS
  <2>1. Clean(s, i) => Modes(s)[i] = Out
    BY ONLY <1>2, <1>5, s[i] = Colon, Zenon DEF Clean
  <2>2. ASSUME Modes(s)[i] = Out, NEW x \in i..Len(s), \A y \in i..(x - 1) : s[y] # Colon PROVE Modes(s)[x] = Out
    BY ONLY <1>2, <1>4, <2>2, s[i] = Colon, Zenon
  <2>3. QED BY ONLY <2>1, <2>2, Zenon DEF Clean
<1>7. s[i] # Colon => (Clean(s, i) <=> Clean(s, i + 1))
  <2> SUFFICES ASSUME s[i] # Colon PROVE Clean(s, i) <=> Clean(s, i + 1)
    OBVIOUS
  <2>1. ASSUME Clean(s, i), NEW x \in (i + 1)..Len(s), s[x] = Colon, \A y \in (i + 1)..(x - 1) : s[y] # Colon
        PROVE  Modes(s)[x] = Out
    <3>1. x \in i..Len(s) /\ \A y \in i..(x - 1) : s[y] # Colon
      BY ONLY <1>2, <1>4, <2>1, s[i] # Colon
    <3>2. QED BY ONLY <2>1, <3>1, Zenon DEF Clean
  <2>2. ASSUME Clean(s, i + 1), NEW x \in i..Len(s), s[x] = Colon, \A y \in i..(x - 1) : s[y] # Colon
        PROVE  Modes(s)[x] = Out
    <3>1. x \in (i + 1)..Len(s) /\ \A y \in (i + 1)..(x - 1) : s[y] # Colon
      BY ONLY <1>2, <1>4, <2>2, s[i] # Colon
    <3>2. QED BY ONLY <2>2, <3>1, Zenon DEF Clean
  <2>3. QED BY ONLY <2>1, <2>2, Zenon DEF Clean
<1>8. QED BY <1>3, <1>6, <1>7

(* One character of s that stands in t, whichever state the reader is in *)
LEMMA OneCarried ==
  ASSUME NEW s \in Body, NEW t \in Body, NEW i \in 1..Len(s), NEW m \in 1..Len(t), t[m] = AsChar(s[i]), Level(s, i, t, m)
  PROVE  /\ Level(s, i + 1, t, m + 1)
         /\ Carried(s, i + 1, t, m + 1) => Carried(s, i, t, m)
<1> HIDE DEF Out
<1> DEFINE c == s[i]
           d == t[m]
<1>1. c \in Chars
  BY TextPlaces
<1>2. (d = Quote <=> c = Quote) /\ (d = Backslash <=> c = Backslash)
  BY <1>1, AsCharIs
<1>3. (d = Comma <=> c = Comma) /\ (d = Colon <=> c = Colon)
  <2>1. \A x : (AsChar(x) = Comma <=> x = Comma) /\ (AsChar(x) = Colon <=> x = Colon)
    BY Zenon DEF AsChar, Comma, Colon
  <2>2. QED BY <2>1
<1>4. Nesting(d) = Nesting(c)
  BY NestingIs
<1>5. Modes(t)[m] = Modes(s)[i] /\ Depths(t)[m] = Depths(s)[i]
  BY DEF Level
<1>6. Modes(t)[m + 1] = ModeBehind(Modes(t)[m], d) /\ Modes(s)[i + 1] = ModeBehind(Modes(s)[i], c)
  BY ModesAre
<1>7. \A v \in EveryMode : ModeBehind(v, d) = ModeBehind(v, c)
  <2> HIDE DEF c, d, In, Escape
  <2>1. ModeBehind(Out, d) = ModeBehind(Out, c)
    BY ONLY <1>2, ModeBehindIs, Zenon
  <2>2. ModeBehind(In, d) = ModeBehind(In, c)
    BY ONLY <1>2, ModeBehindIs, Zenon
  <2>3. ModeBehind(Escape, d) = ModeBehind(Escape, c)
    BY ONLY ModeBehindIs, Zenon
  <2>4. QED BY ONLY <2>1, <2>2, <2>3, Zenon DEF EveryMode
<1>8. Modes(s)[i] \in EveryMode
  <2>1. i \in 1..(Len(s) + 1)
    BY TextPlaces
  <2>2. QED BY <2>1, ModesAre
<1>9. Modes(t)[m + 1] = Modes(s)[i + 1]
  <2> HIDE DEF c, d
  <2>1. QED BY ONLY <1>5, <1>6, <1>7, <1>8, Zenon
<1>10. Depths(t)[m + 1] = Depths(s)[i + 1]
  <2>1. Depths(t)[m + 1] = Depths(t)[m] + Deeper(t, m) /\ Depths(s)[i + 1] = Depths(s)[i] + Deeper(s, i)
    BY DepthsAre
  <2>2. Deeper(t, m) = Deeper(s, i)
    BY ONLY <1>4, <1>5, Zenon DEF Deeper
  <2>3. QED BY ONLY <1>5, <2>1, <2>2, Zenon
<1>11. /\ Parted(s, i) <=> (c = Comma /\ Modes(s)[i] = Out /\ Depths(s)[i] = 1) \/ Parted(s, i + 1)
       /\ c = Colon => (Clean(s, i) <=> Modes(s)[i] = Out)
       /\ c # Colon => (Clean(s, i) <=> Clean(s, i + 1))
  BY PartedStep
<1>12. /\ Parted(t, m) <=> (d = Comma /\ Modes(t)[m] = Out /\ Depths(t)[m] = 1) \/ Parted(t, m + 1)
       /\ d = Colon => (Clean(t, m) <=> Modes(t)[m] = Out)
       /\ d # Colon => (Clean(t, m) <=> Clean(t, m + 1))
  BY PartedStep
<1> HIDE DEF c, d
<1>13. Carried(s, i + 1, t, m + 1) => Carried(s, i, t, m)
  BY ONLY <1>3, <1>5, <1>11, <1>12, Zenon DEF Carried
<1>14. QED BY <1>9, <1>10, <1>13 DEF Level

(* A stretch without brackets *)
LEMMA DepthRun ==
  ASSUME NEW s \in Body, NEW i \in 1..(Len(s) + 1), NEW j \in i..(Len(s) + 1), \A k \in i..(j - 1) : Nesting(s[k]) = 0
  PROVE  \A k \in i..j : Depths(s)[k] = Depths(s)[i]
<1> DEFINE T == {k \in Nat : Depths(s)[k] = Depths(s)[i]}
<1>1. Len(s) \in Nat /\ i \in Nat /\ j \in Nat /\ i <= j /\ i \in T
  BY TextPlaces
<1>2. ASSUME NEW k \in i..(j - 1), k \in T PROVE k + 1 \in T
  <2>1. k \in 1..Len(s) /\ k + 1 \in Nat /\ k \in 1..(Len(s) + 1)
    BY <1>1
  <2>2. Depths(s)[k + 1] = Depths(s)[k] + Deeper(s, k) /\ Depths(s)[k] \in Int
    BY <2>1, DepthsAre
  <2>3. Deeper(s, k) = 0
    BY <1>2 DEF Deeper
  <2>4. Depths(s)[k] = Depths(s)[i]
    BY <1>2
  <2>5. Depths(s)[k + 1] = Depths(s)[i]
    BY ONLY <2>2, <2>3, <2>4
  <2>6. QED BY <2>1, <2>5
<1> HIDE DEF T
<1>3. \A k \in i..j : k \in T
  BY ONLY <1>1, <1>2, StepOn
<1>4. QED BY <1>3 DEF T

(* A key in s and what becomes of it in t *)
KeyIn(s, i, t, m, end, sep) ==
  /\ i \in 1..Len(s) /\ end \in (i + 1)..Len(s) /\ sep \in end..Len(s) /\ m \in 1..Len(t) /\ m + (sep - i) + 2 \in 1..Len(t)
  /\ \A k \in i..sep : s[k] # Quote /\ s[k] # Comma /\ Nesting(s[k]) = 0
  /\ t[m] = Quote /\ t[m + (end - i) + 1] = Quote /\ t[m + (sep - i) + 2] = Colon
  /\ \A k \in (m + 1)..(m + (end - i)) : t[k] \in Identifier
  /\ \A k \in (m + (end - i) + 2)..(m + (sep - i) + 1) : t[k] \in Blank

LEMMA KeyInIs ==
  ASSUME NEW s \in Body, NEW i \in 1..Len(s), s[i] \in Letters, KeyAt(s, i), NEW t \in Body, NEW m \in Nat, m >= 1,
         NEW x \in Body, Behind(t, m, KeyWord(s, i) \o x), NEW end, end = KeyEnd(s, i), NEW sep, sep = KeySep(s, i)
  PROVE  KeyIn(s, i, t, m, end, sep) /\ Behind(t, m + (sep - i) + 3, x)
<1> DEFINE w == KeyWord(s, i)
<1>1. Len(s) \in Nat /\ Len(t) \in Nat /\ i \in Nat /\ i >= 1
  BY TextPlaces
<1>2. /\ end \in (i + 1)..(Len(s) + 1) /\ sep \in end..(Len(s) + 1)
      /\ \A k \in i..(end - 1) : k \in 1..Len(s) /\ s[k] \in Identifier
      /\ \A k \in end..(sep - 1) : k \in 1..Len(s) /\ s[k] \in Blank
      /\ sep <= Len(s) /\ EndsKey(s[sep])
  BY KeyPlaces
<1>3. end \in (i + 1)..Len(s) /\ sep \in end..Len(s) /\ end \in Nat /\ sep \in Nat /\ sep \in 1..Len(s)
  BY <1>1, <1>2
<1>4. /\ w \in Body /\ Len(w) = sep - i + 3
      /\ w[1] = Quote /\ w[end - i + 2] = Quote /\ w[sep - i + 3] = Colon
      /\ \A k \in i..(end - 1) : w[k - i + 2] = s[k]
      /\ \A k \in end..(sep - 1) : w[k - i + 3] = s[k]
  BY KeyWordIs
<1>5. Behind(t, m + Len(w), x) /\ \A j \in 1..Len(w) : t[m - 1 + j] = w[j]
  <2>1. Behind(t, m, w \o x)
    OBVIOUS
  <2> HIDE DEF w
  <2>2. QED BY <1>4, <2>1, BehindConcat
<1> HIDE DEF w
<1>6. Behind(t, m + (sep - i) + 3, x)
  <2>1. m + Len(w) = m + (sep - i) + 3
    BY <1>1, <1>3, <1>4
  <2>2. QED BY ONLY <1>5, <2>1, Zenon
<1>7. m \in 1..Len(t) /\ m + (sep - i) + 2 \in 1..Len(t)
  <2>1. m + (sep - i) + 3 \in 1..(Len(t) + 1)
    BY <1>6 DEF Behind
  <2>2. QED BY ONLY <1>1, <1>3, <2>1, m \in Nat, m >= 1
<1>8. \A j \in 1..(sep - i + 3) : t[m - 1 + j] = w[j]
  BY ONLY <1>4, <1>5, Zenon
<1>9. t[m] = Quote
  <2>1. 1 \in 1..(sep - i + 3) /\ m - 1 + 1 = m
    BY <1>1, <1>3
  <2>2. QED BY ONLY <1>4, <1>8, <2>1
<1>10. t[m + (end - i) + 1] = Quote
  <2>1. end - i + 2 \in 1..(sep - i + 3) /\ m - 1 + (end - i + 2) = m + (end - i) + 1
    BY ONLY <1>1, <1>3, m \in Nat
  <2>2. QED BY ONLY <1>4, <1>8, <2>1, Zenon
<1>11. t[m + (sep - i) + 2] = Colon
  <2>1. sep - i + 3 \in 1..(sep - i + 3) /\ m - 1 + (sep - i + 3) = m + (sep - i) + 2
    BY ONLY <1>1, <1>3, m \in Nat
  <2>2. QED BY ONLY <1>4, <1>8, <2>1, Zenon
<1>12. ASSUME NEW k \in (m + 1)..(m + (end - i)) PROVE t[k] \in Identifier
  <2> DEFINE h == k - m - 1 + i
  <2>1. h \in i..(end - 1) /\ h - i + 2 \in 1..(sep - i + 3) /\ m - 1 + (h - i + 2) = k
    BY ONLY <1>1, <1>3, <1>12, m \in Nat
  <2> HIDE DEF h
  <2>2. t[k] = w[h - i + 2] /\ w[h - i + 2] = s[h] /\ s[h] \in Identifier
    BY ONLY <1>2, <1>4, <1>8, <2>1, Zenon
  <2>3. QED BY <2>2
<1>13. ASSUME NEW k \in (m + (end - i) + 2)..(m + (sep - i) + 1) PROVE t[k] \in Blank
  <2> DEFINE h == k - m - 2 + i
  <2>1. h \in end..(sep - 1) /\ h - i + 3 \in 1..(sep - i + 3) /\ m - 1 + (h - i + 3) = k
    BY ONLY <1>1, <1>3, <1>13, m \in Nat
  <2> HIDE DEF h
  <2>2. t[k] = w[h - i + 3] /\ w[h - i + 3] = s[h] /\ s[h] \in Blank
    BY ONLY <1>2, <1>4, <1>8, <2>1, Zenon
  <2>3. QED BY <2>2
<1>14. ASSUME NEW k \in i..sep PROVE s[k] # Quote /\ s[k] # Comma /\ Nesting(s[k]) = 0
  <2>1. k \in i..(end - 1) \/ k \in end..(sep - 1) \/ k = sep
    BY <1>1, <1>3
  <2>2. \A c \in Identifier \cup Blank : c # Quote /\ c # Comma /\ Nesting(c) = 0
    <3>1. \A c \in Identifier \cup Blank : c # Quote /\ c # Comma
      BY Classes
    <3>2. QED BY <3>1, NestingIs
  <2>3. s[sep] # Quote /\ s[sep] # Comma /\ Nesting(s[sep]) = 0
    <3>1. s[sep] \in Chars
      BY <1>3, TextPlaces
    <3>2. QED BY <1>2, <3>1, SignsAre, NestingIs
  <2>4. QED BY ONLY <1>2, <2>1, <2>2, <2>3
<1>15. QED BY <1>3, <1>6, <1>7, <1>9, <1>10, <1>11, <1>12, <1>13, <1>14 DEF KeyIn

LEMMA KeyCarried ==
  ASSUME NEW s \in Body, NEW t \in Body, NEW i, NEW m, NEW end, NEW sep, KeyIn(s, i, t, m, end, sep),
         Modes(s)[i] = Out, Level(s, i, t, m)
  PROVE  /\ Modes(s)[sep + 1] = Out /\ Level(s, sep + 1, t, m + (sep - i) + 3)
         /\ Carried(s, sep + 1, t, m + (sep - i) + 3) => Carried(s, i, t, m)
<1> HIDE DEF Out, In
<1> DEFINE e == m + (end - i) + 1
           p == m + (sep - i) + 2
<1>1. Len(s) \in Nat /\ Len(t) \in Nat
  BY TextPlaces
<1>2. /\ i \in 1..Len(s) /\ end \in (i + 1)..Len(s) /\ sep \in end..Len(s) /\ m \in 1..Len(t) /\ p \in 1..Len(t)
      /\ \A k \in i..sep : s[k] # Quote /\ s[k] # Comma /\ Nesting(s[k]) = 0
      /\ t[m] = Quote /\ t[e] = Quote /\ t[p] = Colon
      /\ \A k \in (m + 1)..(e - 1) : t[k] \in Identifier
      /\ \A k \in (e + 1)..(p - 1) : t[k] \in Blank
  <2>1. e - 1 = m + (end - i) /\ e + 1 = m + (end - i) + 2 /\ p - 1 = m + (sep - i) + 1
    BY DEF KeyIn
  <2> HIDE DEF e, p
  <2>2. /\ i \in 1..Len(s) /\ end \in (i + 1)..Len(s) /\ sep \in end..Len(s) /\ m \in 1..Len(t) /\ p \in 1..Len(t)
        /\ \A k \in i..sep : s[k] # Quote /\ s[k] # Comma /\ Nesting(s[k]) = 0
        /\ t[m] = Quote /\ t[e] = Quote /\ t[p] = Colon
    BY DEF KeyIn, e, p
  <2>3. \A k \in (m + 1)..(m + (end - i)) : t[k] \in Identifier
    BY DEF KeyIn
  <2>4. \A k \in (m + (end - i) + 2)..(m + (sep - i) + 1) : t[k] \in Blank
    BY DEF KeyIn
  <2>5. QED BY ONLY <2>1, <2>2, <2>3, <2>4
<1>3. e \in (m + 2)..Len(t) /\ p \in (e + 1)..Len(t) /\ m + (sep - i) + 3 = p + 1 /\ e \in Nat /\ p \in Nat /\ m \in Nat
      /\ i \in 1..Len(s) /\ sep \in Nat /\ sep \in i..Len(s)
  BY <1>1, <1>2
<1> HIDE DEF e, p
<1>4. Modes(s)[sep + 1] = Out
  <2>1. Out \in {Out, In} /\ Out # In
    BY ModeBehindIs
  <2> DEFINE j == sep + 1
  <2>2. i \in 1..(Len(s) + 1) /\ j \in i..(Len(s) + 1) /\ j \in i..j /\ j - 1 = sep
    BY <1>1, <1>3
  <2> HIDE DEF j
  <2>3. \A k \in i..(j - 1) : s[k] # Quote /\ (Out = In => s[k] # Backslash)
    BY ONLY <1>2, <2>1, <2>2
  <2>4. \A k \in i..j : Modes(s)[k] = Out
    BY <2>1, <2>2, <2>3, ModeRun
  <2>5. QED BY ONLY <2>2, <2>4 DEF j
<1>5. Depths(s)[sep + 1] = Depths(s)[i]
  <2> DEFINE j == sep + 1
  <2>1. i \in 1..(Len(s) + 1) /\ j \in i..(Len(s) + 1) /\ j \in i..j /\ j - 1 = sep
    BY <1>1, <1>3
  <2> HIDE DEF j
  <2>2. \A k \in i..(j - 1) : Nesting(s[k]) = 0
    BY ONLY <1>2, <2>1
  <2>3. \A k \in i..j : Depths(s)[k] = Depths(s)[i]
    BY <2>1, <2>2, DepthRun
  <2>4. QED BY ONLY <2>1, <2>3 DEF j
<1>6. Modes(t)[m] = Out /\ Depths(t)[m] = Depths(s)[i]
  BY DEF Level
<1>7. \A k \in m..p : k = m \/ k \in (m + 1)..(e - 1) \/ k = e \/ k \in (e + 1)..(p - 1) \/ k = p
  BY <1>3
<1>8. \A k \in m..p : Nesting(t[k]) = 0
  BY ONLY <1>2, <1>7, NestingIs
<1>9. \A k \in m..(p - 1) : t[k] # Colon
  <2>1. Colon # Quote /\ Colon \notin Identifier /\ Colon \notin Blank
    BY Classes
  <2>2. \A k \in m..(p - 1) : k = m \/ k \in (m + 1)..(e - 1) \/ k = e \/ k \in (e + 1)..(p - 1)
    BY <1>3
  <2>3. QED BY ONLY <1>2, <2>1, <2>2
<1>10. Modes(t)[p] = Out /\ Modes(t)[p + 1] = Out
  <2>1. Modes(t)[m + 1] = In
    BY <1>2, <1>6, ModeNext
  <2>2. Modes(t)[e] = In
    <3> DEFINE j == m + 1
    <3>1. j \in 1..(Len(t) + 1) /\ e \in j..(Len(t) + 1) /\ e \in j..e
      BY <1>1, <1>3
    <3>2. \A c \in Identifier : c # Quote /\ c # Backslash
      BY Classes
    <3>3. \A k \in j..(e - 1) : t[k] # Quote /\ (In = In => t[k] # Backslash)
      BY ONLY <1>2, <3>2
    <3>4. In \in {Out, In} /\ Modes(t)[j] = In
      BY <2>1
    <3> HIDE DEF j
    <3>5. \A k \in j..e : Modes(t)[k] = In
      BY <3>1, <3>3, <3>4, ModeRun
    <3>6. QED BY ONLY <3>1, <3>5
  <2>3. Modes(t)[e + 1] = Out /\ e \in 1..Len(t)
    <3>1. e \in 1..Len(t)
      BY <1>1, <1>3
    <3>2. QED BY <1>2, <2>2, <3>1, ModeNext
  <2>4. Modes(t)[p] = Out
    <3> DEFINE j == e + 1
    <3>1. j \in 1..(Len(t) + 1) /\ p \in j..(Len(t) + 1) /\ p \in j..p
      BY <1>1, <1>3
    <3>2. \A c \in Blank : c # Quote
      BY Classes
    <3>3. Out \in {Out, In} /\ Modes(t)[j] = Out /\ Out # In
      BY <2>3, ModeBehindIs
    <3>4. \A k \in j..(p - 1) : t[k] # Quote /\ (Out = In => t[k] # Backslash)
      BY ONLY <1>2, <3>2, <3>3
    <3> HIDE DEF j
    <3>5. \A k \in j..p : Modes(t)[k] = Out
      BY <3>1, <3>3, <3>4, ModeRun
    <3>6. QED BY ONLY <3>1, <3>5
  <2>5. p \in 1..Len(t) /\ t[p] # Quote
    BY <1>2, Classes
  <2>6. QED BY <2>4, <2>5, ModeNext
<1>11. Depths(t)[p + 1] = Depths(s)[i]
  <2> DEFINE j == p + 1
  <2>1. m \in 1..(Len(t) + 1) /\ j \in m..(Len(t) + 1) /\ j \in m..j /\ j - 1 = p
    BY <1>1, <1>2, <1>3
  <2> HIDE DEF j
  <2>2. \A k \in m..(j - 1) : Nesting(t[k]) = 0
    BY ONLY <1>8, <2>1
  <2>3. \A k \in m..j : Depths(t)[k] = Depths(t)[m]
    BY <2>1, <2>2, DepthRun
  <2>4. QED BY ONLY <1>6, <2>1, <2>3 DEF j
<1>12. Level(s, sep + 1, t, p + 1)
  BY ONLY <1>4, <1>5, <1>10, <1>11, Zenon DEF Level
<1>13. Parted(s, i) => Parted(s, sep + 1)
  <2> SUFFICES ASSUME NEW x \in i..Len(s), s[x] = Comma, Modes(s)[x] = Out, Depths(s)[x] = 1 PROVE Parted(s, sep + 1)
    BY DEF Parted
  <2>1. x \notin i..sep
    BY <1>2
  <2>2. x \in (sep + 1)..Len(s)
    BY <1>1, <1>3, <2>1
  <2>3. QED BY <2>2 DEF Parted
<1>14. Parted(t, p + 1) => Parted(t, m)
  <2>1. \A x \in (p + 1)..Len(t) : x \in m..Len(t)
    BY <1>1, <1>3
  <2>2. QED BY ONLY <2>1, Zenon DEF Parted
<1>15. Clean(t, m)
  <2> SUFFICES ASSUME NEW x \in m..Len(t), t[x] = Colon, \A y \in m..(x - 1) : t[y] # Colon PROVE Modes(t)[x] = Out
    BY DEF Clean
  <2>1. x \notin m..(p - 1) /\ p \notin m..(x - 1)
    BY <1>2, <1>9
  <2>2. x = p
    BY <1>1, <1>3, <2>1
  <2>3. QED BY <1>10, <2>2
<1>16. Carried(s, sep + 1, t, p + 1) => Carried(s, i, t, m)
  BY ONLY <1>13, <1>14, <1>15, Zenon DEF Carried
<1>17. QED BY ONLY <1>3, <1>4, <1>12, <1>16, Zenon

(* quote_bare_keys carries both to the text it makes *)
LEMMA KeysCarried ==
  ASSUME NEW s \in Body, NEW t \in Body
  PROVE  \A i \in 1..(Len(s) + 1), b \in BOOLEAN, k \in BOOLEAN, m \in Nat :
           /\ m >= 1 /\ Behind(t, m, KeysFrom(s)[<<i, b, k>>])
           /\ i <= Len(s) => Modes(s)[i] = IF b THEN In ELSE Out
           /\ Level(s, i, t, m)
           => Carried(s, i, t, m)
<1> DEFINE n == Len(s) + 1
           Reader(i, b) == i <= Len(s) => Modes(s)[i] = IF b THEN In ELSE Out
           Is(i) == \A b \in BOOLEAN, k \in BOOLEAN, m \in Nat :
                      m >= 1 /\ Behind(t, m, KeysFrom(s)[<<i, b, k>>]) /\ Reader(i, b) /\ Level(s, i, t, m)
                      => Carried(s, i, t, m)
           T == {i \in 1..n : Is(i)}
<1> HIDE DEF Out, In, Escape
<1>1. Len(s) \in Nat /\ Len(t) \in Nat /\ n \in Nat /\ n = Len(s) + 1 /\ In # Out
  BY TextPlaces, ModeBehindIs
<1>2. ASSUME NEW i \in 1..n, \A j \in 1..n : j > i => j \in T,
             NEW b \in BOOLEAN, NEW k \in BOOLEAN, NEW m \in Nat, m >= 1,
             Behind(t, m, KeysFrom(s)[<<i, b, k>>]), Reader(i, b), Level(s, i, t, m)
      PROVE  Carried(s, i, t, m)
  <2>1. ASSUME NEW j \in 1..n, j > i, NEW b1 \in BOOLEAN, NEW k1 \in BOOLEAN, NEW h \in Nat, h >= 1,
               Behind(t, h, KeysFrom(s)[<<j, b1, k1>>]), Reader(j, b1), Level(s, j, t, h)
        PROVE  Carried(s, j, t, h)
    <3>1. Is(j)
      <4> HIDE DEF Is
      <4>1. QED BY <1>2, <2>1
    <3> HIDE DEF Reader
    <3>2. QED BY ONLY <2>1, <3>1, Zenon
  <2> HIDE DEF Is
  <2>2. CASE i = Len(s) + 1
    <3>1. KeysFrom(s)[<<i, b, k>>] = <<>>
      BY <2>2, KeysAre
    <3>2. Behind(t, m, <<>>)
      BY ONLY <1>2, <3>1, Zenon
    <3>3. m = Len(t) + 1
      BY <3>2, BehindNothing
    <3>4. i..Len(s) = {} /\ m..Len(t) = {}
      BY <1>1, <2>2, <3>3
    <3>5. QED BY ONLY <3>4 DEF Carried, Parted, Clean
  <2>3. CASE i \in 1..Len(s)
    <3> DEFINE turn == KeyTurn(s, <<i, b, k>>)
    <3>1. KeysFrom(s)[<<i, b, k>>] = turn.push \o KeysFrom(s)[turn.next]
      BY <2>3, KeysAre
    <3>2. Modes(s)[i] = IF b THEN In ELSE Out
      BY <1>1, <1>2, <2>3
    <3>3. /\ b /\ Escaped(s, i) => turn.push = <<Backslash, AsChar(s[i + 1])>> /\ turn.next = <<i + 2, TRUE, k>>
          /\ TakesKey(s, i, b, k) => turn.push = KeyWord(s, i) /\ turn.next = <<KeySep(s, i) + 1, FALSE, FALSE>>
          /\ ~(b /\ Escaped(s, i)) /\ ~TakesKey(s, i, b, k) =>
               turn.push = <<AsChar(s[i])>> /\ turn.next = <<i + 1, InString(b, s[i]), Expects(b, k, s[i])>>
      BY <2>3, KeyTurnIs
    <3> HIDE DEF turn
    <3>4. ASSUME NEW j \in 1..n, NEW b1 \in BOOLEAN, NEW k1 \in BOOLEAN PROVE KeysFrom(s)[<<j, b1, k1>>] \in Body
      BY <3>4, StateTypes
    <3>5. CASE b /\ Escaped(s, i)
      <4> DEFINE x == KeysFrom(s)[<<i + 2, TRUE, k>>]
      <4>1. s[i] = Backslash /\ i + 1 \in 1..Len(s) /\ i + 2 \in 1..n /\ i + 2 > i
        BY <1>1, <2>3, <3>5 DEF Escaped
      <4>2. x \in Body /\ AsChar(s[i + 1]) \in Chars /\ Backslash \in Chars /\ AsChar(s[i]) = Backslash
        BY <3>4, <4>1, TextPlaces, AsCharIs, Classes
      <4>3. Behind(t, m, <<Backslash, AsChar(s[i + 1])>> \o x)
        BY ONLY <1>2, <3>1, <3>3, <3>5, Zenon DEF x
      <4> HIDE DEF x
      <4>4. m \in 1..Len(t) /\ m < Len(t) /\ t[m] = Backslash /\ t[m + 1] = AsChar(s[i + 1]) /\ Behind(t, m + 2, x)
        BY <1>2, <4>2, <4>3, BehindTwo
      <4>5. m + 1 \in 1..Len(t) /\ m + 2 \in Nat /\ m + 2 >= 1 /\ (m + 1) + 1 = m + 2 /\ (i + 1) + 1 = i + 2
        BY <1>1, <2>3, <4>4
      <4>6. Level(s, i + 1, t, m + 1) /\ (Carried(s, i + 1, t, m + 1) => Carried(s, i, t, m))
        BY <1>2, <2>3, <4>2, <4>4, OneCarried
      <4>7. Level(s, i + 2, t, m + 2) /\ (Carried(s, i + 2, t, m + 2) => Carried(s, i + 1, t, m + 1))
        <5> DEFINE i1 == i + 1
                   m1 == m + 1
        <5>1. i1 \in 1..Len(s) /\ m1 \in 1..Len(t) /\ t[m1] = AsChar(s[i1]) /\ Level(s, i1, t, m1)
          BY <4>1, <4>4, <4>5, <4>6
        <5> HIDE DEF i1, m1
        <5>2. Level(s, i1 + 1, t, m1 + 1) /\ (Carried(s, i1 + 1, t, m1 + 1) => Carried(s, i1, t, m1))
          BY <5>1, OneCarried
        <5>3. QED BY ONLY <4>5, <5>2, Zenon DEF i1, m1
      <4>8. Reader(i + 2, TRUE)
        <5>1. Modes(s)[i + 1] = Escape
          BY <2>3, <3>2, <3>5, <4>1, ModeNext
        <5>2. Modes(s)[(i + 1) + 1] = In
          BY <4>1, <5>1, ModeNext
        <5>3. QED BY ONLY <4>5, <5>2, Zenon
      <4> HIDE DEF Reader
      <4>9. Carried(s, i + 2, t, m + 2)
        <5>1. TRUE \in BOOLEAN
          OBVIOUS
        <5>2. QED BY ONLY <2>1, <4>1, <4>4, <4>5, <4>7, <4>8, <5>1, k \in BOOLEAN, Zenon DEF x
      <4>10. QED BY ONLY <4>6, <4>7, <4>9
    <3>6. CASE TakesKey(s, i, b, k)
      <4> DEFINE end == KeyEnd(s, i)
                 sep == KeySep(s, i)
                 x == KeysFrom(s)[<<sep + 1, FALSE, FALSE>>]
                 h == m + (sep - i) + 3
      <4>1. s[i] \in Letters /\ KeyAt(s, i) /\ Modes(s)[i] = Out
        BY <3>2, <3>6 DEF TakesKey
      <4>2. sep \in (i + 1)..Len(s)
        <5>1. end \in (i + 1)..(Len(s) + 1) /\ sep \in end..(Len(s) + 1) /\ sep <= Len(s)
          BY <2>3, <4>1, KeyPlaces
        <5>2. QED BY <1>1, <2>3, <5>1
      <4>3. Behind(t, m, KeyWord(s, i) \o x)
        BY ONLY <1>2, <3>1, <3>3, <3>6, Zenon DEF x
      <4>4. sep + 1 \in 1..n /\ sep + 1 > i
        BY <1>1, <2>3, <4>2
      <4>5. x \in Body
        BY <3>4, <4>4
      <4> HIDE DEF x, end, sep
      <4>6. KeyIn(s, i, t, m, end, sep) /\ Behind(t, h, x)
        BY <1>2, <2>3, <4>1, <4>3, <4>5, KeyInIs DEF end, sep
      <4>7. h \in Nat /\ h >= 1
        BY <1>2, <2>3, <4>2
      <4>8. /\ Modes(s)[sep + 1] = Out /\ Level(s, sep + 1, t, h)
            /\ Carried(s, sep + 1, t, h) => Carried(s, i, t, m)
        BY <1>2, <4>1, <4>6, KeyCarried
      <4>9. Reader(sep + 1, FALSE)
        BY <4>8, Zenon
      <4> HIDE DEF Reader, h
      <4>10. Carried(s, sep + 1, t, h)
        <5>1. FALSE \in BOOLEAN
          OBVIOUS
        <5>2. QED BY ONLY <2>1, <4>4, <4>6, <4>7, <4>8, <4>9, <5>1, Zenon DEF x
      <4>11. QED BY ONLY <4>8, <4>10
    <3>7. CASE ~(b /\ Escaped(s, i)) /\ ~TakesKey(s, i, b, k)
      <4> DEFINE b1 == InString(b, s[i])
                 k1 == Expects(b, k, s[i])
                 x == KeysFrom(s)[<<i + 1, b1, k1>>]
      <4>1. b1 \in BOOLEAN /\ k1 \in BOOLEAN
        BY <2>3, StateTypes
      <4>2. i + 1 \in 1..n /\ i + 1 > i /\ AsChar(s[i]) \in Chars
        BY <1>1, <2>3, TextPlaces, AsCharIs
      <4>3. Behind(t, m, <<AsChar(s[i])>> \o x)
        <5> HIDE DEF b1, k1
        <5>1. turn.push = <<AsChar(s[i])>> /\ turn.next = <<i + 1, b1, k1>>
          BY ONLY <3>3, <3>7, Zenon DEF b1, k1
        <5>2. QED BY ONLY <1>2, <3>1, <5>1, Zenon DEF x
      <4>4. Reader(i + 1, b1)
        <5> SUFFICES ASSUME i + 1 <= Len(s) PROVE Modes(s)[i + 1] = IF b1 THEN In ELSE Out
          OBVIOUS
        <5>1. b => s[i] # Backslash
          BY <1>1, <2>3, <3>7 DEF Escaped
        <5>2. CASE b
          <6>1. b1 <=> s[i] # Quote
            BY <5>2 DEF InString
          <6>2. QED BY <2>3, <3>2, <5>1, <5>2, <6>1, ModeNext
        <5>3. CASE ~b
          <6>1. b1 <=> s[i] = Quote
            BY <5>3 DEF InString
          <6>2. QED BY <2>3, <3>2, <5>3, <6>1, ModeNext
        <5>4. QED BY <5>2, <5>3
      <4> HIDE DEF b1, k1
      <4>5. x \in Body
        BY <3>4, <4>1, <4>2
      <4> HIDE DEF x
      <4>6. m \in 1..Len(t) /\ t[m] = AsChar(s[i]) /\ Behind(t, m + 1, x)
        BY <1>2, <4>2, <4>3, <4>5, BehindOne
      <4>7. Level(s, i + 1, t, m + 1) /\ (Carried(s, i + 1, t, m + 1) => Carried(s, i, t, m))
        BY <1>2, <2>3, <4>6, OneCarried
      <4>8. m + 1 \in Nat /\ m + 1 >= 1
        BY <1>2
      <4> HIDE DEF Reader
      <4>9. Carried(s, i + 1, t, m + 1)
        BY ONLY <2>1, <4>1, <4>2, <4>4, <4>6, <4>7, <4>8, Zenon DEF x
      <4>10. QED BY ONLY <4>7, <4>9
    <3>8. QED BY <3>5, <3>6, <3>7
  <2>4. QED BY ONLY <1>1, <1>2, <2>2, <2>3
<1>3. 1..n \subseteq T
  <2>1. \A i \in 1..n : (\A j \in 1..n : j > i => j \in T) => i \in T
    <3> SUFFICES ASSUME NEW i \in 1..n, \A j \in 1..n : j > i => j \in T PROVE Is(i)
      OBVIOUS
    <3> HIDE DEF T, n, Reader
    <3>1. QED BY ONLY <1>2, i \in 1..n, \A j \in 1..n : j > i => j \in T, Zenon
  <2> HIDE DEF T, n
  <2>2. n \in Nat
    BY ONLY <1>1
  <2>3. QED BY ONLY <2>1, <2>2, DownInduction
<1>4. \A i \in 1..n : Is(i)
  <2> HIDE DEF Is
  <2>1. QED BY ONLY <1>3 DEF T
<1>5. QED BY ONLY <1>4, Zenon

-----------------------------------------------------------------------------
(***************************************************************************)
(* Commas at the top: has_top_level_comma.                                 *)
(***************************************************************************)

(* has_top_level_comma at <<i, depth, in_string>> *)
TopStates(s) == (1..(Len(s) + 1)) \X Int \X BOOLEAN

TopTurn(s, i, d, q) ==
  IF q THEN <<i + StringStep(s, i), d, ~EndsString(s, i)>> ELSE <<i + 1, d + Nesting(s[i]), EndsString(s, i)>>

IsTop(top, s) ==
  top = [at \in (1..(Len(s) + 1)) \X Int \X BOOLEAN |->
           IF at[1] > Len(s) THEN FALSE
           ELSE IF at[3] THEN top[<<at[1] + StringStep(s, at[1]), at[2], ~EndsString(s, at[1])>>]
           ELSE IF s[at[1]] = "," /\ at[2] = 0 THEN TRUE
           ELSE top[<<at[1] + 1, at[2] + Nesting(s[at[1]]), EndsString(s, at[1])>>]]

TopFrom(s) == CHOOSE top : IsTop(top, s)

LEMMA TopIsFrom ==
  ASSUME NEW s
  PROVE  HasTopLevelComma(s) = TopFrom(s)[<<1, 0, FALSE>>]
  BY Zenon DEF HasTopLevelComma, TopFrom, IsTop

LEMMA TopChosen ==
  ASSUME NEW s, \E top : IsTop(top, s)
  PROVE  IsTop(TopFrom(s), s)
  BY Zenon DEF TopFrom

LEMMA TopTurnType ==
  ASSUME NEW s \in Body, NEW i \in 1..Len(s), NEW d \in Int, NEW q \in BOOLEAN, NEW next, next = TopTurn(s, i, d, q)
  PROVE  next \in TopStates(s) /\ next[1] > i
<1>1. Len(s) \in Nat
  BY TextPlaces
<1>2. StringStep(s, i) \in {1, 2} /\ (StringStep(s, i) = 2 => i + 2 \in 1..(Len(s) + 1))
  BY <1>1, StringStepIs DEF Escaped
<1>3. i + StringStep(s, i) \in 1..(Len(s) + 1) /\ i + StringStep(s, i) > i /\ i + 1 \in 1..(Len(s) + 1) /\ i + 1 > i
  BY <1>1, <1>2
<1>4. EndsString(s, i) \in BOOLEAN /\ (~EndsString(s, i)) \in BOOLEAN
  BY DEF EndsString
<1>5. d + Nesting(s[i]) \in Int
  <2>1. Nesting(s[i]) \in Int
    BY NestingIs
  <2>2. QED BY ONLY <2>1, d \in Int
<1>6. CASE q
  <2> DEFINE j == i + StringStep(s, i)
  <2>1. next = <<j, d, ~EndsString(s, i)>>
    BY <1>6 DEF TopTurn
  <2> HIDE DEF j
  <2>2. j \in 1..(Len(s) + 1) /\ j > i
    BY <1>3 DEF j
  <2>3. next[1] = j
    BY <2>1
  <2>4. next \in TopStates(s)
    BY ONLY <1>4, <2>1, <2>2, d \in Int, Zenon DEF TopStates
  <2>5. QED BY ONLY <2>2, <2>3, <2>4
<1>7. CASE ~q
  <2> DEFINE e == d + Nesting(s[i])
  <2>1. next = <<i + 1, e, EndsString(s, i)>>
    BY <1>7 DEF TopTurn
  <2>2. e \in Int
    BY <1>5
  <2> HIDE DEF e
  <2>3. next[1] = i + 1
    BY <2>1
  <2>4. next \in TopStates(s)
    BY ONLY <1>3, <1>4, <2>1, <2>2, Zenon DEF TopStates
  <2>5. QED BY ONLY <1>3, <2>3, <2>4
<1>8. QED BY <1>6, <1>7

LEMMA TopAre ==
  ASSUME NEW s \in Body
  PROVE  \A i \in 1..(Len(s) + 1), d \in Int, q \in BOOLEAN :
           /\ i > Len(s) => ~TopFrom(s)[<<i, d, q>>]
           /\ i <= Len(s) /\ ~q /\ s[i] = Comma /\ d = 0 => TopFrom(s)[<<i, d, q>>]
           /\ i <= Len(s) /\ ~(~q /\ s[i] = Comma /\ d = 0) =>
                (TopFrom(s)[<<i, d, q>>] <=> TopFrom(s)[TopTurn(s, i, d, q)])
<1> DEFINE D == TopStates(s)
           Over(at) == at[1] > Len(s)
           Found(at) == ~at[3] /\ s[at[1]] = Comma /\ at[2] = 0
           stop == {at \in D : Over(at) \/ Found(at)}
           base == [at \in D |-> ~Over(at)]
           turn(at) == TopTurn(s, at[1], at[2], at[3])
           next == [at \in D |-> IF at \in stop THEN at ELSE turn(at)]
           N == Len(s) + 1
           rank == [at \in D |-> N - at[1]]
<1>1. Len(s) \in Nat /\ N \in Nat /\ N = Len(s) + 1
  BY TextPlaces
<1>2. \A at \in D : at[1] \in 1..(Len(s) + 1) /\ at[2] \in Int /\ at[3] \in BOOLEAN
  BY DEF TopStates
<1>3. \A at \in D : at \in stop <=> Over(at) \/ Found(at)
  OBVIOUS
<1>4. ASSUME NEW at \in D, at \notin stop
      PROVE  turn(at) \in D /\ turn(at)[1] > at[1]
  <2> HIDE DEF D, Found, stop
  <2>1. at[1] \in 1..Len(s)
    BY ONLY <1>1, <1>2, <1>3, <1>4
  <2>2. \A t : t = TopTurn(s, at[1], at[2], at[3]) => t \in TopStates(s) /\ t[1] > at[1]
    BY ONLY <1>2, <1>4, <2>1, TopTurnType, s \in Body
  <2>3. QED BY ONLY <2>2, Zenon DEF D
<1>5. rank \in [D -> Nat] /\ \A at \in D : rank[at] <= N /\ rank[at] = N - at[1]
  <2> HIDE DEF D
  <2>1. \A at \in D : N - at[1] \in Nat /\ N - at[1] <= N
    BY ONLY <1>1, <1>2
  <2>2. QED BY ONLY <2>1
<1>6. \A at \in D : next[at] = IF at \in stop THEN at ELSE turn(at)
  <2> HIDE DEF D, stop, turn
  <2>1. QED OBVIOUS
<1>7. next \in [D -> D]
  <2>1. \A at \in D : (IF at \in stop THEN at ELSE turn(at)) \in D
    <3> HIDE DEF D, stop, turn
    <3>1. QED BY ONLY <1>4, Zenon
  <2> HIDE DEF D, stop, turn
  <2>2. QED BY ONLY <2>1
<1>8. base \in [D -> BOOLEAN] /\ \A at \in D : base[at] = ~Over(at)
  <2> HIDE DEF D
  <2>1. \A at \in D : (~Over(at)) \in BOOLEAN
    BY ONLY <1>1, <1>2
  <2> HIDE DEF Over
  <2>2. QED BY ONLY <2>1
<1> HIDE DEF rank, next, base
<1>9. ASSUME NEW at \in D, at \notin stop PROVE rank[next[at]] < rank[at]
  <2> HIDE DEF D, stop, Over, Found
  <2> DEFINE j == turn(at)
  <2>1. next[at] = j /\ j \in D /\ j[1] > at[1]
    BY ONLY <1>4, <1>6, <1>9, Zenon
  <2> HIDE DEF j, turn
  <2>2. rank[j] = N - j[1] /\ rank[at] = N - at[1]
    BY ONLY <1>5, <1>9, <2>1, Zenon
  <2>3. j[1] \in 1..(Len(s) + 1) /\ at[1] \in 1..(Len(s) + 1)
    BY ONLY <1>2, <1>9, <2>1, Zenon
  <2>4. QED BY ONLY <1>1, <2>1, <2>2, <2>3
<1>10. PICK f \in [D -> BOOLEAN] : \A at \in D : f[at] = IF at \in stop THEN base[at] ELSE f[next[at]]
  <2> HIDE DEF D, stop, N
  <2>1. \A at \in D : rank[at] <= N
    BY ONLY <1>5, Zenon
  <2>2. Descent(D, BOOLEAN, stop, base, next, rank, N)
    BY ONLY <1>1, <1>5, <1>7, <1>8, <1>9, <2>1, Zenon DEF Descent
  <2>3. QED BY ONLY <2>2, DescentExists
<1>11. ASSUME NEW at \in D
       PROVE  f[at] = IF Over(at) THEN FALSE ELSE IF Found(at) THEN TRUE ELSE f[turn(at)]
  <2> HIDE DEF D, stop, Over, Found, turn
  <2>1. QED BY ONLY <1>3, <1>6, <1>8, <1>10, <1>11, Zenon
<1> DEFINE String(at) == <<at[1] + StringStep(s, at[1]), at[2], ~EndsString(s, at[1])>>
           Outside(at) == <<at[1] + 1, at[2] + Nesting(s[at[1]]), EndsString(s, at[1])>>
           Comes(at) == s[at[1]] = Comma /\ at[2] = 0
<1>12. \A at : turn(at) = (IF at[3] THEN String(at) ELSE Outside(at)) /\ (Found(at) <=> ~at[3] /\ Comes(at))
  BY Zenon DEF TopTurn
<1>13. IsTop(f, s)
  <2>1. f = [at \in D |-> IF Over(at) THEN FALSE ELSE IF at[3] THEN f[String(at)] ELSE IF Comes(at) THEN TRUE ELSE f[Outside(at)]]
    <3> HIDE DEF D, Over, Found, turn, String, Outside, Comes
    <3>1. \A at \in D : f[at] = IF Over(at) THEN FALSE ELSE IF at[3] THEN f[String(at)] ELSE IF Comes(at) THEN TRUE ELSE f[Outside(at)]
      BY ONLY <1>11, <1>12, Zenon
    <3>2. QED BY ONLY <1>10, <3>1
  <2>2. QED BY ONLY <2>1, Zenon DEF IsTop, D, TopStates, Over, String, Outside, Comes, Comma
<1>14. IsTop(TopFrom(s), s)
  BY ONLY <1>13, TopChosen
<1> DEFINE g == TopFrom(s)
<1> HIDE DEF g
<1>15. \A at \in D : g[at] = IF Over(at) THEN FALSE ELSE IF at[3] THEN g[String(at)] ELSE IF Comes(at) THEN TRUE ELSE g[Outside(at)]
  BY ONLY <1>14, Zenon DEF g, IsTop, D, TopStates, Over, String, Outside, Comes, Comma
<1>16. \A at \in D : g[at] = IF Over(at) THEN FALSE ELSE IF Found(at) THEN TRUE ELSE g[turn(at)]
  <2> HIDE DEF D, Over, Found, turn, String, Outside, Comes
  <2>1. QED BY ONLY <1>12, <1>15, Zenon
<1> SUFFICES ASSUME NEW i \in 1..(Len(s) + 1), NEW d \in Int, NEW q \in BOOLEAN
             PROVE  /\ i > Len(s) => ~g[<<i, d, q>>]
                    /\ i <= Len(s) /\ ~q /\ s[i] = Comma /\ d = 0 => g[<<i, d, q>>]
                    /\ i <= Len(s) /\ ~(~q /\ s[i] = Comma /\ d = 0) => (g[<<i, d, q>>] <=> g[TopTurn(s, i, d, q)])
  BY Zenon DEF g
<1>17. g[<<i, d, q>>] = IF i > Len(s) THEN FALSE ELSE IF ~q /\ s[i] = Comma /\ d = 0 THEN TRUE
                        ELSE g[TopTurn(s, i, d, q)]
  <2> DEFINE at == <<i, d, q>>
  <2>1. at \in D /\ at[1] = i /\ at[2] = d /\ at[3] = q
    BY DEF D, TopStates
  <2>2. at = <<i, d, q>>
    OBVIOUS
  <2> HIDE DEF at, D
  <2>3. g[at] = IF i > Len(s) THEN FALSE ELSE IF ~q /\ s[i] = Comma /\ d = 0 THEN TRUE ELSE g[TopTurn(s, i, d, q)]
    BY ONLY <1>16, <2>1, Zenon DEF Over, Found, turn
  <2>4. QED BY ONLY <2>2, <2>3, Zenon
<1>18. i <= Len(s) <=> ~(i > Len(s))
  BY <1>1
<1>19. QED BY ONLY <1>17, <1>18, Zenon

(* A turn of the loop *)
LEMMA TopNext ==
  ASSUME NEW s \in Body, NEW i \in 1..Len(s), NEW d \in Int
  PROVE  /\ s[i] = Quote => (TopFrom(s)[<<i, d, FALSE>>] <=> TopFrom(s)[<<i + 1, d, TRUE>>])
         /\ s[i] # Quote /\ ~(s[i] = Comma /\ d = 0) =>
              (TopFrom(s)[<<i, d, FALSE>>] <=> TopFrom(s)[<<i + 1, d + Nesting(s[i]), FALSE>>])
         /\ s[i] = Comma /\ d = 0 => TopFrom(s)[<<i, d, FALSE>>]
         /\ s[i] = Backslash /\ i < Len(s) => (TopFrom(s)[<<i, d, TRUE>>] <=> TopFrom(s)[<<i + 2, d, TRUE>>])
         /\ s[i] = Quote => (TopFrom(s)[<<i, d, TRUE>>] <=> TopFrom(s)[<<i + 1, d, FALSE>>])
         /\ s[i] # Quote /\ s[i] # Backslash => (TopFrom(s)[<<i, d, TRUE>>] <=> TopFrom(s)[<<i + 1, d, TRUE>>])
<1> DEFINE top == TopFrom(s)
           n == StringStep(s, i)
<1>1. Len(s) \in Nat /\ i \in 1..(Len(s) + 1) /\ i <= Len(s)
  BY TextPlaces
<1>2. /\ s[i] = Comma /\ d = 0 => top[<<i, d, FALSE>>]
      /\ ~(s[i] = Comma /\ d = 0) => (top[<<i, d, FALSE>>] <=> top[TopTurn(s, i, d, FALSE)])
      /\ top[<<i, d, TRUE>>] <=> top[TopTurn(s, i, d, TRUE)]
  BY <1>1, TopAre
<1>3. EndsString(s, i) = (s[i] = Quote)
  BY Zenon DEF EndsString
<1>4. /\ TopTurn(s, i, d, FALSE) = <<i + 1, d + Nesting(s[i]), s[i] = Quote>>
      /\ TopTurn(s, i, d, TRUE) = <<i + n, d, ~(s[i] = Quote)>>
  BY <1>3, Zenon DEF TopTurn
<1>5. /\ s[i] = Backslash /\ i < Len(s) => n = 2
      /\ ~(s[i] = Backslash /\ i < Len(s)) => n = 1
  BY StringStepIs DEF Escaped
<1>6. Quote # Backslash /\ Quote # Comma /\ Nesting(Quote) = 0 /\ d + 0 = d
  BY SignsAre, Classes, NestingIs
<1> HIDE DEF top, n
<1>7. ASSUME s[i] = Quote PROVE top[<<i, d, FALSE>>] <=> top[<<i + 1, d, TRUE>>]
  <2>1. TopTurn(s, i, d, FALSE) = <<i + 1, d, TRUE>>
    BY ONLY <1>4, <1>6, <1>7, Zenon
  <2>2. QED BY ONLY <1>2, <1>6, <1>7, <2>1, Zenon
<1>8. ASSUME s[i] # Quote, ~(s[i] = Comma /\ d = 0)
      PROVE  top[<<i, d, FALSE>>] <=> top[<<i + 1, d + Nesting(s[i]), FALSE>>]
  <2>1. (s[i] = Quote) = FALSE
    BY ONLY <1>8
  <2>2. TopTurn(s, i, d, FALSE) = <<i + 1, d + Nesting(s[i]), FALSE>>
    BY ONLY <1>4, <2>1, Zenon
  <2>3. QED BY ONLY <1>2, <1>8, <2>2, Zenon
<1>9. ASSUME s[i] = Backslash, i < Len(s) PROVE top[<<i, d, TRUE>>] <=> top[<<i + 2, d, TRUE>>]
  <2>1. (~(s[i] = Quote)) = TRUE /\ n = 2
    BY ONLY <1>5, <1>6, <1>9
  <2>2. TopTurn(s, i, d, TRUE) = <<i + 2, d, TRUE>>
    BY ONLY <1>4, <2>1, Zenon
  <2>3. QED BY ONLY <1>2, <2>2, Zenon
<1>10. ASSUME s[i] = Quote PROVE top[<<i, d, TRUE>>] <=> top[<<i + 1, d, FALSE>>]
  <2>1. (~(s[i] = Quote)) = FALSE /\ n = 1
    BY ONLY <1>5, <1>6, <1>10
  <2>2. TopTurn(s, i, d, TRUE) = <<i + 1, d, FALSE>>
    BY ONLY <1>4, <2>1, Zenon
  <2>3. QED BY ONLY <1>2, <2>2, Zenon
<1>11. ASSUME s[i] # Quote, s[i] # Backslash PROVE top[<<i, d, TRUE>>] <=> top[<<i + 1, d, TRUE>>]
  <2>1. (~(s[i] = Quote)) = TRUE /\ n = 1
    BY ONLY <1>5, <1>6, <1>11
  <2>2. TopTurn(s, i, d, TRUE) = <<i + 1, d, TRUE>>
    BY ONLY <1>4, <2>1, Zenon
  <2>3. QED BY ONLY <1>2, <2>2, Zenon
<1>12. QED BY ONLY <1>2, <1>7, <1>8, <1>9, <1>10, <1>11, Zenon DEF top

(* A stretch without brackets, quotes and commas *)
LEMMA TopRun ==
  ASSUME NEW s \in Body, NEW i \in 1..(Len(s) + 1), NEW j \in i..(Len(s) + 1), NEW d \in Int,
         \A k \in i..(j - 1) : s[k] # Quote /\ s[k] # Comma /\ Nesting(s[k]) = 0
  PROVE  TopFrom(s)[<<i, d, FALSE>>] <=> TopFrom(s)[<<j, d, FALSE>>]
<1> DEFINE Top(k) == TopFrom(s)[<<k, d, FALSE>>]
           T == {k \in Nat : Top(i) <=> Top(k)}
<1>1. Len(s) \in Nat /\ i \in Nat /\ j \in Nat /\ i <= j /\ j \in i..j /\ d + 0 = d
  BY TextPlaces
<1>2. i \in T
  BY <1>1
<1>3. ASSUME NEW k \in i..(j - 1), k \in T PROVE k + 1 \in T
  <2>1. k \in 1..Len(s) /\ k + 1 \in Nat
    BY <1>1
  <2>2. s[k] # Quote /\ s[k] # Comma /\ Nesting(s[k]) = 0
    OBVIOUS
  <2>3. TopFrom(s)[<<k, d, FALSE>>] <=> TopFrom(s)[<<k + 1, d + Nesting(s[k]), FALSE>>]
    BY <2>1, <2>2, TopNext
  <2>4. Top(k) <=> Top(k + 1)
    BY ONLY <1>1, <2>2, <2>3, Zenon
  <2> HIDE DEF Top
  <2>5. QED BY <1>3, <2>1, <2>4
<1> HIDE DEF T
<1>4. \A k \in i..j : k \in T
  BY ONLY <1>1, <1>2, <1>3, StepOn
<1>5. j \in T
  BY ONLY <1>1, <1>4
<1>6. QED BY <1>5 DEF T

(* In a string *)
LEMMA TopInString ==
  ASSUME NEW s \in Body, NEW end \in 1..(Len(s) + 1), NEW d \in Int
  PROVE  \A k \in 1..(Len(s) + 1) : EndsFrom(s)[k] = end =>
           (TopFrom(s)[<<k, d, TRUE>>] <=> TopFrom(s)[<<end, d, FALSE>>])
<1> DEFINE m == Len(s) + 1
           Top(k) == TopFrom(s)[<<k, d, TRUE>>]
           Behind0 == TopFrom(s)[<<end, d, FALSE>>]
           Is(k) == EndsFrom(s)[k] = end => (Top(k) <=> Behind0)
           T == {k \in 1..m : Is(k)}
<1>1. m \in Nat /\ Len(s) \in Nat /\ m = Len(s) + 1 /\ \A k : At(s, k) # Nil => k \in 1..Len(s) /\ s[k] = At(s, k)
  BY TextPlaces
<1>2. ASSUME NEW k \in 1..m, \A j \in 1..m : j > k => j \in T, EndsFrom(s)[k] = end
      PROVE  Top(k) <=> Behind0
  <2>1. EndsFrom(s)[k] = IF At(s, k) = Quote THEN k + 1
                         ELSE IF At(s, k) = Backslash /\ At(s, k + 1) \in Escapable THEN EndsFrom(s)[k + 2]
                         ELSE IF At(s, k) \in Plain THEN EndsFrom(s)[k + 1]
                         ELSE 0
    BY EndsAre
  <2>2. Quote # Nil /\ Backslash # Nil /\ Nil \notin Plain /\ Nil \notin Escapable /\ end # 0
        /\ Quote \notin Plain /\ Backslash \notin Plain
    BY SignsAre, Classes
  <2>3. \A j \in 1..m : j > k /\ EndsFrom(s)[j] = end => (Top(j) <=> Behind0)
    <3> HIDE DEF Top, Behind0
    <3>1. QED BY <1>2
  <2>4. CASE At(s, k) = Quote
    <3>1. k \in 1..Len(s) /\ s[k] = Quote /\ end = k + 1
      BY <1>1, <1>2, <2>1, <2>2, <2>4
    <3>2. TopFrom(s)[<<k, d, TRUE>>] <=> TopFrom(s)[<<k + 1, d, FALSE>>]
      BY <3>1, TopNext
    <3>3. QED BY ONLY <3>1, <3>2, Zenon
  <2>5. CASE At(s, k) # Quote /\ At(s, k) = Backslash /\ At(s, k + 1) \in Escapable
    <3>1. k \in 1..Len(s) /\ s[k] = Backslash /\ k + 1 \in 1..Len(s) /\ k < Len(s)
      BY <1>1, <2>2, <2>5
    <3>2. EndsFrom(s)[k + 2] = end /\ k + 2 \in 1..m /\ k + 2 > k
      BY <1>1, <1>2, <2>1, <2>5, <3>1
    <3>3. TopFrom(s)[<<k, d, TRUE>>] <=> TopFrom(s)[<<k + 2, d, TRUE>>]
      BY <3>1, TopNext
    <3>4. QED BY ONLY <2>3, <3>2, <3>3, Zenon
  <2>6. CASE ~(At(s, k) = Backslash /\ At(s, k + 1) \in Escapable) /\ At(s, k) \in Plain
    <3>1. k \in 1..Len(s) /\ s[k] \in Plain /\ At(s, k) # Quote
      BY <1>1, <2>2, <2>6
    <3>2. s[k] # Quote /\ s[k] # Backslash
      BY <2>2, <3>1
    <3>3. EndsFrom(s)[k + 1] = end /\ k + 1 \in 1..m /\ k + 1 > k
      BY <1>1, <1>2, <2>1, <2>6, <3>1
    <3>4. TopFrom(s)[<<k, d, TRUE>>] <=> TopFrom(s)[<<k + 1, d, TRUE>>]
      BY <3>1, <3>2, TopNext
    <3>5. QED BY ONLY <2>3, <3>3, <3>4, Zenon
  <2> HIDE DEF Top, Behind0
  <2>7. QED BY <1>2, <2>1, <2>2, <2>4, <2>5, <2>6
<1>3. 1..m \subseteq T
  <2> HIDE DEF Top, Behind0
  <2>1. ASSUME NEW k \in 1..m, \A j \in 1..m : j > k => j \in T PROVE k \in T
    <3> SUFFICES ASSUME EndsFrom(s)[k] = end
                 PROVE  Top(k) <=> Behind0
      OBVIOUS
    <3> HIDE DEF T
    <3>1. QED BY ONLY <1>2, <2>1, EndsFrom(s)[k] = end, Zenon
  <2> HIDE DEF T, m
  <2>2. m \in Nat
    BY ONLY <1>1
  <2>3. QED BY ONLY <2>1, <2>2, DownInduction
<1>4. \A k \in 1..m : Is(k)
  <2> HIDE DEF Is
  <2>1. QED BY ONLY <1>3 DEF T
<1>5. QED BY ONLY <1>4, Zenon

LEMMA TopString ==
  ASSUME NEW s \in Body, NEW k, NEW end, HasString(s, k, end), NEW d \in Int
  PROVE  TopFrom(s)[<<k, d, FALSE>>] <=> TopFrom(s)[<<end, d, FALSE>>]
<1>1. k \in 1..Len(s) /\ s[k] = Quote /\ end = EndsFrom(s)[k + 1] /\ end \in (k + 2)..(Len(s) + 1)
  BY DEF HasString
<1>2. Len(s) \in Nat /\ k + 1 \in 1..(Len(s) + 1) /\ end \in 1..(Len(s) + 1)
  BY <1>1, TextPlaces
<1>3. TopFrom(s)[<<k, d, FALSE>>] <=> TopFrom(s)[<<k + 1, d, TRUE>>]
  BY <1>1, TopNext
<1>4. TopFrom(s)[<<k + 1, d, TRUE>>] <=> TopFrom(s)[<<end, d, FALSE>>]
  <2> DEFINE h == k + 1
  <2>1. h \in 1..(Len(s) + 1) /\ EndsFrom(s)[h] = end
    BY <1>1, <1>2
  <2> HIDE DEF h
  <2>2. TopFrom(s)[<<h, d, TRUE>>] <=> TopFrom(s)[<<end, d, FALSE>>]
    BY <1>2, <2>1, TopInString
  <2>3. QED BY ONLY <2>2, Zenon DEF h
<1>5. QED BY ONLY <1>3, <1>4, Zenon

(* What JSON accepts has every comma in a string or in brackets *)
LEMMA JsonPartsInside ==
  ASSUME NEW s \in Body
  PROVE  \A i \in 1..(Len(s) + 1), a \in Awaited, open \in Seq(Closers) :
           Reads(s, i, a, open) => ~TopFrom(s)[<<i, Len(open), FALSE>>]
<1> DEFINE m == Len(s) + 1
           Top(i, d) == TopFrom(s)[<<i, d, FALSE>>]
           Is(i) == \A a \in Awaited, open \in Seq(Closers) : Reads(s, i, a, open) => ~Top(i, Len(open))
           T == {i \in 1..m : Is(i)}
<1>1. Len(s) \in Nat /\ m \in Nat /\ m = Len(s) + 1
  BY TextPlaces
<1>2. ASSUME NEW i \in 1..m, \A j \in 1..m : j > i => j \in T,
             NEW a \in Awaited, NEW open \in Seq(Closers), Reads(s, i, a, open)
      PROVE  ~Top(i, Len(open))
  <2> DEFINE here == Past(s, Blank, i)
             d == Len(open)
  <2>1. ASSUME NEW j \in 1..m, j > i, NEW b \in Awaited, NEW o \in Seq(Closers), Reads(s, j, b, o)
        PROVE  ~Top(j, Len(o))
    <3>1. Is(j)
      <4> HIDE DEF Is
      <4>1. QED BY <1>2, <2>1
    <3> HIDE DEF Top
    <3>2. QED BY ONLY <2>1, <3>1, Zenon
  <2> HIDE DEF Is, T
  <2>2. /\ here \in i..(Len(s) + 1) /\ here \in 1..(Len(s) + 1)
        /\ \A k \in i..(here - 1) : k \in 1..Len(s) /\ s[k] \in Blank
        /\ \/ Ends(s, here, a, open)
           \/ Shuts(s, here, a, open)
           \/ Parts(s, here, a, open)
           \/ Names(s, here, a, open)
           \/ Quotes(s, here, a, open)
           \/ Counts(s, here, a, open)
           \/ Opens(s, here, a, open)
    BY <1>2, JsonReads
  <2> HIDE DEF here
  <2>3. d \in Nat /\ d \in Int
    BY LenProperties
  <2>4. \A c \in Blank \cup Identifier : c # Quote /\ c # Comma /\ Nesting(c) = 0
    <3>1. \A c \in Blank \cup Identifier : c # Quote /\ c # Comma
      BY Classes
    <3>2. QED BY <3>1, NestingIs
  <2>5. Top(i, d) <=> Top(here, d)
    <3>1. \A k \in i..(here - 1) : s[k] # Quote /\ s[k] # Comma /\ Nesting(s[k]) = 0
      BY ONLY <2>2, <2>4
    <3>2. QED BY <1>1, <1>2, <2>2, <2>3, <3>1, TopRun
  <2>6. /\ AwaitsValue \in Awaited /\ AwaitsFirst \in Awaited /\ AwaitsItem \in Awaited /\ AwaitsEnd \in Awaited
        /\ Closers = {Close, CloseList}
    BY JsonSigns
  <2>7. /\ \A c \in {Open, OpenList, Close, CloseList, Comma, Colon} : c # Quote
        /\ \A c \in {Open, OpenList, Close, CloseList, Colon} : c # Comma
        /\ \A c \in {Comma, Colon} : Nesting(c) = 0
        /\ \A c \in {Open, OpenList} : Nesting(c) = 1
        /\ \A c \in {Close, CloseList} : Nesting(c) = 0 - 1
    <3>1. \A c \in {Open, OpenList, Close, CloseList, Comma, Colon} : c # Quote
      BY Zenon DEF Open, OpenList, Close, CloseList, Comma, Colon, Quote
    <3>2. \A c \in {Open, OpenList, Close, CloseList, Colon} : c # Comma
      BY Zenon DEF Open, OpenList, Close, CloseList, Comma, Colon
    <3>3. QED BY ONLY <3>1, <3>2, NestingIs
  <2>8. ASSUME here \in 1..Len(s), s[here] # Quote, ~(s[here] = Comma /\ d = 0)
        PROVE  Top(here, d) <=> Top(here + 1, d + Nesting(s[here]))
    BY <2>3, <2>8, TopNext
  <2>9. here \in 1..Len(s) => here + 1 \in 1..m /\ here + 1 > i
    BY <1>1, <1>2, <2>2
  <2> HIDE DEF d
  <2>10. CASE Ends(s, here, a, open)
    <3>1. here = Len(s) + 1
      BY <2>10 DEF Ends
    <3>2. here > Len(s)
      BY <1>1, <3>1
    <3>3. ~Top(here, d)
      BY <2>2, <2>3, <3>2, TopAre
    <3>4. QED BY ONLY <2>5, <3>3, Zenon DEF d
  <2>11. CASE Shuts(s, here, a, open)
    <3>1. /\ open # <<>> /\ here \in 1..Len(s) /\ s[here] = Head(open)
          /\ Head(open) \in Closers /\ Tail(open) \in Seq(Closers) /\ Reads(s, here + 1, AwaitsEnd, Tail(open))
      BY <2>11 DEF Shuts
    <3>2. s[here] # Quote /\ s[here] # Comma /\ Nesting(s[here]) = 0 - 1
      BY ONLY <2>6, <2>7, <3>1
    <3>3. Len(Tail(open)) = d - 1
      BY <3>1, HeadTailProperties DEF d
    <3>4. d + Nesting(s[here]) = Len(Tail(open))
      BY ONLY <2>3, <3>2, <3>3
    <3>5. ~Top(here + 1, Len(Tail(open)))
      <4> HIDE DEF Top
      <4>1. QED BY ONLY <2>1, <2>6, <2>9, <3>1, Zenon
    <3> HIDE DEF Top
    <3>6. QED BY ONLY <2>5, <2>8, <3>1, <3>2, <3>4, <3>5, Zenon DEF d
  <2>12. CASE Parts(s, here, a, open)
    <3>1. open # <<>> /\ here \in 1..Len(s) /\ s[here] = Comma /\ Reads(s, here + 1, AwaitsItem, open)
      BY <2>12 DEF Parts
    <3>2. d # 0
      BY <3>1, EmptySeq DEF d
    <3>3. s[here] # Quote /\ d + Nesting(s[here]) = d
      BY ONLY <2>3, <2>7, <3>1
    <3> HIDE DEF Top
    <3>4. ~Top(here + 1, d)
      BY ONLY <1>2, <2>1, <2>6, <2>9, <3>1, Zenon DEF d
    <3>5. QED BY ONLY <2>5, <2>8, <3>1, <3>2, <3>3, <3>4, Zenon DEF d
  <2>13. CASE Names(s, here, a, open)
    <3>1. PICK end \in 1..(Len(s) + 1), colon \in 1..(Len(s) + 1) :
             /\ HasString(s, here, end)
             /\ colon = Past(s, Blank, end) /\ colon \in end..Len(s) /\ s[colon] = Colon
             /\ Reads(s, colon + 1, AwaitsValue, open)
      BY <2>13, Zenon DEF Names
    <3>2. end > i /\ end \in Nat
      <4>1. end \in (here + 2)..(Len(s) + 1)
        BY <3>1 DEF HasString
      <4>2. QED BY <1>1, <1>2, <2>2, <4>1
    <3>3. Top(here, d) <=> Top(end, d)
      BY <2>3, <3>1, TopString
    <3>4. \A k \in end..(colon - 1) : s[k] \in Blank
      <4>1. \A k \in end..(colon - 1) : At(s, k) \in Blank
        BY <3>1, PastIs, Classes
      <4>2. \A k \in end..(colon - 1) : k \in 1..Len(s)
        BY <1>1, <3>1
      <4>3. QED BY <4>1, <4>2, TextPlaces
    <3>5. Top(end, d) <=> Top(colon, d)
      <4>1. \A k \in end..(colon - 1) : s[k] # Quote /\ s[k] # Comma /\ Nesting(s[k]) = 0
        BY ONLY <2>4, <3>4
      <4>2. colon \in end..(Len(s) + 1)
        BY <1>1, <3>1
      <4>3. QED BY <2>3, <3>1, <4>1, <4>2, TopRun
    <3>6. colon \in 1..Len(s) /\ colon + 1 \in 1..m /\ colon + 1 > i
      BY <1>1, <1>2, <3>1, <3>2
    <3>7. Top(colon, d) <=> Top(colon + 1, d)
      <4>1. s[colon] # Quote /\ s[colon] # Comma /\ d + Nesting(s[colon]) = d
        BY ONLY <2>3, <2>7, <3>1
      <4>2. Top(colon, d) <=> Top(colon + 1, d + Nesting(s[colon]))
        BY <2>3, <3>6, <4>1, TopNext
      <4>3. QED BY ONLY <4>1, <4>2, Zenon
    <3> HIDE DEF Top
    <3>8. ~Top(colon + 1, d)
      BY ONLY <1>2, <2>1, <2>6, <3>1, <3>6, Zenon DEF d
    <3>9. QED BY ONLY <2>5, <3>3, <3>5, <3>7, <3>8, Zenon DEF d
  <2>14. CASE Quotes(s, here, a, open)
    <3>1. PICK end \in 1..(Len(s) + 1) : HasString(s, here, end) /\ Reads(s, end, AwaitsEnd, open)
      BY <2>14, Zenon DEF Quotes
    <3>2. end > i
      <4>1. end \in (here + 2)..(Len(s) + 1)
        BY <3>1 DEF HasString
      <4>2. QED BY <1>1, <1>2, <2>2, <4>1
    <3>3. Top(here, d) <=> Top(end, d)
      BY <2>3, <3>1, TopString
    <3> HIDE DEF Top
    <3>4. ~Top(end, d)
      BY ONLY <1>2, <2>1, <2>6, <3>1, <3>2, Zenon DEF d
    <3>5. QED BY ONLY <2>5, <3>3, <3>4, Zenon DEF d
  <2>15. CASE Counts(s, here, a, open)
    <3>1. PICK end \in (here + 1)..(Len(s) + 1) :
             here \in 1..Len(s) /\ (\A k \in here..(end - 1) : s[k] = One) /\ Reads(s, end, AwaitsEnd, open)
      BY <2>15, Zenon DEF Counts
    <3>2. end \in here..(Len(s) + 1) /\ end \in 1..m /\ end > i
      BY <1>1, <1>2, <2>2, <3>1
    <3>3. Top(here, d) <=> Top(end, d)
      <4>1. One \in Identifier
        BY JsonSigns
      <4>2. \A k \in here..(end - 1) : s[k] # Quote /\ s[k] # Comma /\ Nesting(s[k]) = 0
        BY ONLY <2>4, <3>1, <4>1
      <4>3. QED BY <2>2, <2>3, <3>2, <4>2, TopRun
    <3> HIDE DEF Top
    <3>4. ~Top(end, d)
      BY ONLY <1>2, <2>1, <2>6, <3>1, <3>2, Zenon DEF d
    <3>5. QED BY ONLY <2>5, <3>3, <3>4, Zenon DEF d
  <2>16. CASE Opens(s, here, a, open)
    <3>1. PICK c \in {Open, OpenList}, e \in Closers :
             /\ here \in 1..Len(s) /\ s[here] = c /\ <<e>> \o open \in Seq(Closers)
             /\ Reads(s, here + 1, AwaitsFirst, <<e>> \o open)
      BY <2>16, Zenon DEF Opens
    <3>2. s[here] # Quote /\ s[here] # Comma /\ Nesting(s[here]) = 1
      BY ONLY <2>7, <3>1
    <3>3. Len(<<e>> \o open) = d + 1
      <4>1. <<e>> \in Seq(Closers) /\ Len(<<e>>) = 1
        BY <3>1
      <4>2. Len(<<e>> \o open) = Len(<<e>>) + Len(open)
        BY <4>1, ConcatProperties
      <4>3. QED BY <2>3, <4>1, <4>2 DEF d
    <3>4. d + Nesting(s[here]) = Len(<<e>> \o open)
      BY ONLY <2>3, <3>2, <3>3
    <3> HIDE DEF Top
    <3>5. ~Top(here + 1, Len(<<e>> \o open))
      BY ONLY <2>1, <2>6, <2>9, <3>1, Zenon
    <3>6. QED BY ONLY <2>5, <2>8, <3>1, <3>2, <3>4, <3>5, Zenon DEF d
  <2>17. QED BY ONLY <2>2, <2>10, <2>11, <2>12, <2>13, <2>14, <2>15, <2>16, Zenon
<1>3. 1..m \subseteq T
  <2> HIDE DEF Top
  <2>1. ASSUME NEW i \in 1..m, \A j \in 1..m : j > i => j \in T PROVE i \in T
    <3> SUFFICES Is(i)
      OBVIOUS
    <3> HIDE DEF T, m
    <3>1. QED BY ONLY <1>2, <2>1, Zenon
  <2> HIDE DEF T, m
  <2>2. m \in Nat
    BY ONLY <1>1
  <2>3. QED BY ONLY <2>1, <2>2, DownInduction
<1>4. \A i \in 1..m : Is(i)
  <2> HIDE DEF Is
  <2>1. QED BY ONLY <1>3 DEF T
<1>5. QED BY ONLY <1>4, Zenon

LEMMA JsonUnparted ==
  ASSUME NEW s \in Body, IsJson(s)
  PROVE  ~HasTopLevelComma(s)
<1>1. AwaitsValue \in Awaited /\ <<>> \in Seq(Closers) /\ Len(<<>>) = 0
  BY JsonSigns, EmptySeq
<1>2. 1 \in 1..(Len(s) + 1)
  BY TextPlaces
<1>3. Reads(s, 1, AwaitsValue, <<>>)
  BY ReadsIsFrom DEF Reads
<1>4. ~TopFrom(s)[<<1, Len(<<>>), FALSE>>]
  BY ONLY <1>1, <1>2, <1>3, JsonPartsInside, s \in Body
<1>5. QED BY ONLY <1>1, <1>4, TopIsFrom, Zenon

-----------------------------------------------------------------------------
(***************************************************************************)
(* A comma the loop finds, in a text and in what holds it.                 *)
(***************************************************************************)

(* M and D are the modes and depths along s, or along a text that has s in  *)
(* it                                                                       *)
Along(s, M, D) ==
  /\ \A i \in 1..(Len(s) + 1) : M[i] \in EveryMode /\ D[i] \in Int
  /\ \A i \in 1..Len(s) : M[i + 1] = ModeBehind(M[i], s[i])
                          /\ D[i + 1] = D[i] + (IF M[i] = Out THEN Nesting(s[i]) ELSE 0)

(* The loop finds a comma that stands as deep as the text begins *)
LEMMA FindsComma ==
  ASSUME NEW s \in Body, NEW M, NEW D, Along(s, M, D), M[1] = Out, NEW x \in 1..Len(s),
         s[x] = Comma, M[x] = Out, D[x] = D[1]
  PROVE  HasTopLevelComma(s)
<1> DEFINE m == Len(s) + 1
           In0(i) == TopFrom(s)[<<i, D[i] - D[1], TRUE>>]
           Out0(i) == TopFrom(s)[<<i, D[i] - D[1], FALSE>>]
           Is(i) == i <= x => (M[i] = Out => Out0(i)) /\ (M[i] = In => In0(i))
           T == {i \in 1..m : Is(i)}
<1>1. /\ Len(s) \in Nat /\ m \in Nat /\ m = Len(s) + 1 /\ x \in Nat /\ x <= Len(s)
      /\ \A i \in 1..m : M[i] \in EveryMode /\ D[i] \in Int
      /\ \A i \in 1..Len(s) : M[i + 1] = ModeBehind(M[i], s[i]) /\ D[i + 1] = D[i] + (IF M[i] = Out THEN Nesting(s[i]) ELSE 0)
      /\ 1 \in 1..m /\ D[1] \in Int
  <2>1. /\ Len(s) \in Nat /\ m \in Nat /\ m = Len(s) + 1 /\ x \in Nat /\ x <= Len(s) /\ 1 \in 1..m
    BY TextPlaces
  <2>2. /\ \A i \in 1..m : M[i] \in EveryMode /\ D[i] \in Int
        /\ \A i \in 1..Len(s) : M[i + 1] = ModeBehind(M[i], s[i]) /\ D[i + 1] = D[i] + (IF M[i] = Out THEN Nesting(s[i]) ELSE 0)
    BY Zenon DEF Along
  <2> HIDE DEF m
  <2>3. QED BY ONLY <2>1, <2>2
<1> HIDE DEF Out, In, Escape
<1>2. ASSUME NEW i \in 1..m, \A j \in 1..m : j > i => j \in T, i <= x
      PROVE  (M[i] = Out => Out0(i)) /\ (M[i] = In => In0(i))
  <2>1. ASSUME NEW j \in 1..m, j > i, j <= x PROVE (M[j] = Out => Out0(j)) /\ (M[j] = In => In0(j))
    <3>1. Is(j)
      <4> HIDE DEF Is
      <4>1. QED BY <1>2, <2>1
    <3> HIDE DEF Out0, In0
    <3>2. QED BY ONLY <2>1, <3>1, Zenon
  <2> HIDE DEF Is, T
  <2> DEFINE d == D[i] - D[1]
             e == D[i + 1] - D[1]
  <2>2. i \in 1..Len(s) /\ i + 1 \in 1..m /\ i + 1 > i /\ D[i] \in Int /\ D[i + 1] \in Int /\ d \in Int
    <3>1. i \in 1..Len(s) /\ i + 1 \in 1..m /\ i + 1 > i
      BY <1>1, <1>2
    <3>2. D[i] \in Int /\ D[i + 1] \in Int
      BY ONLY <1>1, <3>1, i \in 1..m
    <3>3. QED BY ONLY <1>1, <3>1, <3>2
  <2>3. /\ M[i + 1] = ModeBehind(M[i], s[i])
        /\ D[i + 1] = D[i] + (IF M[i] = Out THEN Nesting(s[i]) ELSE 0)
    BY ONLY <1>1, <2>2, Zenon
  <2>4. In # Out /\ Escape # Out
    BY ModeBehindIs
  <2>5. ASSUME M[i] = Out PROVE Out0(i)
    <3>1. CASE i = x
      <4>1. s[i] = Comma /\ d = 0
        BY <1>1, <3>1
      <4>2. TopFrom(s)[<<i, d, FALSE>>]
        BY ONLY <2>2, <4>1, TopNext, s \in Body
      <4>3. QED BY ONLY <4>2, Zenon
    <3>2. CASE i # x
      <4>1. i + 1 <= x
        BY <1>1, <1>2, <2>2, <3>2
      <4>2. e = d + Nesting(s[i])
        <5>1. Nesting(s[i]) \in Int
          BY NestingIs
        <5>2. D[i + 1] = D[i] + Nesting(s[i])
          BY ONLY <2>3, <2>5
        <5>3. D[1] \in Int
          BY ONLY <1>1
        <5>4. QED BY ONLY <2>2, <5>1, <5>2, <5>3
      <4>3. CASE s[i] = Quote
        <5>1. M[i + 1] = In
          BY ONLY <2>3, <2>5, <4>3, ModeBehindIs, Zenon
        <5>2. Nesting(s[i]) = 0
          BY <4>3, NestingIs
        <5>3. e = d
          BY ONLY <2>2, <4>2, <5>2
        <5>4. TopFrom(s)[<<i + 1, e, TRUE>>]
          BY ONLY <2>1, <2>2, <4>1, <5>1, Zenon
        <5> HIDE DEF d, e
        <5>5. TopFrom(s)[<<i, d, FALSE>>] <=> TopFrom(s)[<<i + 1, d, TRUE>>]
          BY ONLY <2>2, <4>3, TopNext, s \in Body
        <5>6. TopFrom(s)[<<i, d, FALSE>>]
          BY ONLY <5>3, <5>4, <5>5, Zenon
        <5>7. QED BY ONLY <5>6, Zenon DEF d
      <4>4. CASE s[i] # Quote
        <5>1. M[i + 1] = Out
          BY ONLY <2>3, <2>5, <4>4, ModeBehindIs, Zenon
        <5>2. TopFrom(s)[<<i + 1, e, FALSE>>]
          BY ONLY <2>1, <2>2, <4>1, <5>1, Zenon
        <5> HIDE DEF d, e
        <5>3. /\ ~(s[i] = Comma /\ d = 0) => (TopFrom(s)[<<i, d, FALSE>>] <=> TopFrom(s)[<<i + 1, d + Nesting(s[i]), FALSE>>])
              /\ s[i] = Comma /\ d = 0 => TopFrom(s)[<<i, d, FALSE>>]
          BY ONLY <2>2, <4>4, TopNext, s \in Body
        <5>4. TopFrom(s)[<<i, d, FALSE>>]
          BY ONLY <4>2, <5>2, <5>3, Zenon
        <5>5. QED BY ONLY <5>4, Zenon DEF d
      <4>5. QED BY ONLY <4>3, <4>4
    <3>3. QED BY ONLY <3>1, <3>2
  <2>6. ASSUME M[i] = In PROVE In0(i)
    <3>1. i + 1 <= x
      <4>1. i # x
        BY <2>4, <2>6
      <4>2. QED BY <1>1, <1>2, <2>2, <4>1
    <3>2. e = d
      <4>1. D[i + 1] = D[i] + 0
        BY ONLY <2>3, <2>4, <2>6
      <4>2. QED BY ONLY <2>2, <4>1
    <3>3. CASE s[i] = Quote
      <4>1. M[i + 1] = Out
        BY ONLY <2>3, <2>6, <3>3, ModeBehindIs, Zenon
      <4>2. TopFrom(s)[<<i + 1, e, FALSE>>]
        BY ONLY <2>1, <2>2, <3>1, <4>1, Zenon
      <4> HIDE DEF d, e
      <4>3. TopFrom(s)[<<i, d, TRUE>>] <=> TopFrom(s)[<<i + 1, d, FALSE>>]
        BY ONLY <2>2, <3>3, TopNext, s \in Body
      <4>4. TopFrom(s)[<<i, d, TRUE>>]
        BY ONLY <3>2, <4>2, <4>3, Zenon
      <4>5. QED BY ONLY <4>4, Zenon DEF d
    <3>4. CASE s[i] = Backslash
      <4> DEFINE j == i + 1
                 f == D[i + 2] - D[1]
      <4>1. M[j] = Escape
        BY ONLY <2>3, <2>6, <3>4, ModeBehindIs, Zenon
      <4>2. j # x
        BY <2>4, <4>1
      <4>3. i + 2 <= x /\ j \in 1..Len(s) /\ j + 1 = i + 2 /\ i + 2 \in 1..m /\ i + 2 > i /\ i < Len(s)
        BY <1>1, <1>2, <2>2, <3>1, <4>2
      <4>4. M[j + 1] = ModeBehind(M[j], s[j]) /\ D[j + 1] = D[j] + (IF M[j] = Out THEN Nesting(s[j]) ELSE 0)
        <5> HIDE DEF j
        <5>1. QED BY ONLY <1>1, <4>3, Zenon
      <4>5. M[i + 2] = In
        BY ONLY <4>1, <4>3, <4>4, ModeBehindIs, Zenon
      <4>6. f = d
        <5> HIDE DEF j
        <5>1. D[i + 2] = D[j] + 0
          BY ONLY <2>4, <4>1, <4>3, <4>4
        <5>2. D[j] - D[1] = d /\ D[j] \in Int
          BY <2>2, <3>2 DEF j
        <5>3. QED BY ONLY <1>1, <2>2, <5>1, <5>2
      <4>7. TopFrom(s)[<<i + 2, f, TRUE>>]
        BY ONLY <2>1, <4>3, <4>5, Zenon
      <4> HIDE DEF d, f, j
      <4>8. TopFrom(s)[<<i, d, TRUE>>] <=> TopFrom(s)[<<i + 2, d, TRUE>>]
        BY ONLY <2>2, <3>4, <4>3, TopNext, s \in Body
      <4>9. TopFrom(s)[<<i, d, TRUE>>]
        BY ONLY <4>6, <4>7, <4>8, Zenon
      <4>10. QED BY ONLY <4>9, Zenon DEF d
    <3>5. CASE s[i] # Quote /\ s[i] # Backslash
      <4>1. M[i + 1] = In
        BY ONLY <2>3, <2>6, <3>5, ModeBehindIs, Zenon
      <4>2. TopFrom(s)[<<i + 1, e, TRUE>>]
        BY ONLY <2>1, <2>2, <3>1, <4>1, Zenon
      <4> HIDE DEF d, e
      <4>3. TopFrom(s)[<<i, d, TRUE>>] <=> TopFrom(s)[<<i + 1, d, TRUE>>]
        BY ONLY <2>2, <3>5, TopNext, s \in Body
      <4>4. TopFrom(s)[<<i, d, TRUE>>]
        BY ONLY <3>2, <4>2, <4>3, Zenon
      <4>5. QED BY ONLY <4>4, Zenon DEF d
    <3>6. QED BY ONLY <3>3, <3>4, <3>5
  <2>7. QED BY ONLY <2>5, <2>6
<1>3. 1..m \subseteq T
  <2> HIDE DEF Out0, In0
  <2>1. ASSUME NEW i \in 1..m, \A j \in 1..m : j > i => j \in T PROVE i \in T
    <3> SUFFICES ASSUME i <= x PROVE (M[i] = Out => Out0(i)) /\ (M[i] = In => In0(i))
      OBVIOUS
    <3> HIDE DEF T, m
    <3>1. QED BY ONLY <1>2, <2>1, i <= x, Zenon
  <2> HIDE DEF T, m
  <2>2. m \in Nat
    BY ONLY <1>1
  <2>3. QED BY ONLY <2>1, <2>2, DownInduction
<1>4. Out0(1)
  <2> HIDE DEF Out0, In0
  <2>1. 1 <= x
    OBVIOUS
  <2>2. QED BY <1>1, <1>3, <2>1
<1>5. D[1] - D[1] = 0
  BY ONLY <1>1
<1>6. TopFrom(s)[<<1, 0, FALSE>>]
  BY ONLY <1>4, <1>5, Zenon
<1>7. QED BY ONLY <1>6, TopIsFrom, Zenon

(* A text in a text: s is what stands in t behind the first o characters *)
WithinText(s, t, o) == o \in Nat /\ o + Len(s) <= Len(t) /\ \A k \in 1..Len(s) : s[k] = t[o + k]

LEMMA FindsCommaIn ==
  ASSUME NEW t \in Body, NEW s \in Body, NEW o, WithinText(s, t, o), Modes(t)[o + 1] = Out,
         NEW x \in 1..Len(s), t[o + x] = Comma, Modes(t)[o + x] = Out, Depths(t)[o + x] = Depths(t)[o + 1]
  PROVE  HasTopLevelComma(s) /\ ~IsJson(s)
<1> DEFINE M == [i \in 1..(Len(s) + 1) |-> Modes(t)[o + i]]
           D == [i \in 1..(Len(s) + 1) |-> Depths(t)[o + i]]
<1>1. Len(s) \in Nat /\ Len(t) \in Nat /\ o \in Nat /\ o + Len(s) <= Len(t) /\ \A k \in 1..Len(s) : s[k] = t[o + k]
  BY TextPlaces DEF WithinText
<1> HIDE DEF Out
<1>2. ASSUME NEW i \in 1..(Len(s) + 1) PROVE M[i] = Modes(t)[o + i] /\ D[i] = Depths(t)[o + i] /\ M[i] \in EveryMode /\ D[i] \in Int
  <2> DEFINE j == o + i
  <2>1. j \in 1..(Len(t) + 1)
    BY <1>1
  <2> HIDE DEF j
  <2>2. Modes(t)[j] \in EveryMode /\ Depths(t)[j] \in Int
    BY <2>1, ModesAre, DepthsAre
  <2>3. QED BY <2>2 DEF j
<1>3. ASSUME NEW i \in 1..Len(s)
      PROVE  M[i + 1] = ModeBehind(M[i], s[i]) /\ D[i + 1] = D[i] + (IF M[i] = Out THEN Nesting(s[i]) ELSE 0)
  <2> DEFINE j == o + i
             i1 == i + 1
  <2>1. j \in 1..Len(t) /\ i1 \in 1..(Len(s) + 1) /\ i \in 1..(Len(s) + 1) /\ o + i1 = j + 1 /\ s[i] = t[j]
    BY <1>1
  <2> HIDE DEF j, M, D
  <2>2. Modes(t)[j + 1] = ModeBehind(Modes(t)[j], t[j])
    BY ONLY <2>1, ModesAre, t \in Body
  <2>3. Depths(t)[j + 1] = Depths(t)[j] + (IF Modes(t)[j] = Out THEN Nesting(t[j]) ELSE 0)
    BY ONLY <2>1, DepthsAre, t \in Body DEF Deeper
  <2>4. M[i] = Modes(t)[j] /\ D[i] = Depths(t)[j]
    BY ONLY <1>2, <2>1, Zenon DEF j
  <2> HIDE DEF i1
  <2>5. M[i1] = Modes(t)[j + 1] /\ D[i1] = Depths(t)[j + 1]
    BY ONLY <1>2, <2>1, Zenon
  <2>6. M[i1] = ModeBehind(M[i], s[i]) /\ D[i1] = D[i] + (IF M[i] = Out THEN Nesting(s[i]) ELSE 0)
    BY ONLY <2>1, <2>2, <2>3, <2>4, <2>5, Zenon
  <2>7. QED BY ONLY <2>6, Zenon DEF i1
<1> HIDE DEF M, D
<1>4. Along(s, M, D)
  BY ONLY <1>2, <1>3, Zenon DEF Along
<1>5. 1 \in 1..(Len(s) + 1) /\ x \in 1..(Len(s) + 1) /\ s[x] = Comma
  BY <1>1
<1>6. M[1] = Out /\ M[x] = Out /\ D[x] = D[1]
  BY ONLY <1>2, <1>5, Modes(t)[o + 1] = Out, Modes(t)[o + x] = Out, Depths(t)[o + x] = Depths(t)[o + 1], Zenon
<1>7. HasTopLevelComma(s)
  BY <1>4, <1>5, <1>6, FindsComma
<1>8. QED BY <1>7, JsonUnparted

-----------------------------------------------------------------------------
(***************************************************************************)
(* The rescue of a single entry.                                           *)
(***************************************************************************)

(* Blanks change neither the mode nor the depth *)
LEMMA BlankRun ==
  ASSUME NEW s \in Body, NEW i \in 1..(Len(s) + 1), NEW j \in i..(Len(s) + 1), NEW mode \in {Out, In},
         Modes(s)[i] = mode, \A k \in i..(j - 1) : s[k] \in Blank
  PROVE  Modes(s)[j] = mode /\ Depths(s)[j] = Depths(s)[i]
<1>1. Len(s) \in Nat /\ j \in i..j
  BY TextPlaces
<1>2. \A c \in Blank : c # Quote /\ c # Backslash /\ Nesting(c) = 0
  <2>1. \A c \in Blank : c # Quote /\ c # Backslash
    BY Classes
  <2>2. QED BY <2>1, NestingIs
<1>3. \A k \in i..(j - 1) : Nesting(s[k]) = 0
  BY ONLY <1>2, \A k \in i..(j - 1) : s[k] \in Blank
<1>4. \A k \in i..(j - 1) : s[k] # Quote /\ (mode = In => s[k] # Backslash)
  BY ONLY <1>2, \A k \in i..(j - 1) : s[k] \in Blank
<1> HIDE DEF Out, In
<1>5. \A k \in i..j : Modes(s)[k] = mode
  BY <1>4, ModeRun
<1>6. \A k \in i..j : Depths(s)[k] = Depths(s)[i]
  BY <1>3, DepthRun
<1>7. QED BY ONLY <1>1, <1>5, <1>6

(* What follows the quote that opens a string and holds no other one *)
LEMMA Unclosed ==
  ASSUME NEW s \in Body, NEW i \in 1..(Len(s) + 1), NEW j \in i..(Len(s) + 1),
         Modes(s)[i] = In, \A k \in i..(j - 1) : s[k] # Quote
  PROVE  \A k \in i..j : Modes(s)[k] \in {In, Escape} /\ Depths(s)[k] = Depths(s)[i]
<1> DEFINE T == {k \in Nat : Modes(s)[k] \in {In, Escape} /\ Depths(s)[k] = Depths(s)[i]}
<1> HIDE DEF Out, In, Escape
<1>1. Len(s) \in Nat /\ i \in Nat /\ j \in Nat /\ i <= j /\ i \in T
  BY TextPlaces
<1>2. ASSUME NEW k \in i..(j - 1), k \in T PROVE k + 1 \in T
  <2>1. k \in 1..Len(s) /\ k + 1 \in Nat /\ k \in 1..(Len(s) + 1) /\ s[k] # Quote
    BY <1>1
  <2>2. Modes(s)[k] \in {In, Escape} /\ Depths(s)[k] = Depths(s)[i]
    BY <1>2
  <2>3. Depths(s)[k + 1] = Depths(s)[k] + Deeper(s, k) /\ Depths(s)[k] \in Int
    BY <2>1, DepthsAre
  <2>4. Deeper(s, k) = 0
    BY ONLY <2>2, ModeBehindIs DEF Deeper
  <2>5. Depths(s)[k + 1] = Depths(s)[i]
    BY ONLY <2>2, <2>3, <2>4
  <2>6. Modes(s)[k + 1] \in {In, Escape}
    <3>1. Modes(s)[k] = In /\ s[k] = Backslash => Modes(s)[k + 1] = Escape
      BY <2>1, ModeNext
    <3>2. Modes(s)[k] = In /\ s[k] # Backslash => Modes(s)[k + 1] = In
      BY <2>1, ModeNext
    <3>3. Modes(s)[k] = Escape => Modes(s)[k + 1] = In
      BY <2>1, ModeNext
    <3>4. QED BY ONLY <2>2, <3>1, <3>2, <3>3
  <2>7. QED BY <2>1, <2>5, <2>6
<1> HIDE DEF T
<1>3. \A k \in i..j : k \in T
  BY ONLY <1>1, <1>2, StepOn
<1>4. QED BY <1>3 DEF T

(* A text that is an object of one entry: from the brace at `brace' to the  *)
(* one at `end', a key in the quotes at `open' and `close', and the value   *)
(* behind the first o characters                                            *)
OneEntry(q, brace, open, close, colon, value, o, end) ==
  /\ brace \in 1..Len(q) /\ open \in (brace + 1)..Len(q) /\ close \in (open + 1)..Len(q)
  /\ colon \in (close + 1)..Len(q) /\ o \in colon..Len(q) /\ o + Len(value) < end /\ end \in 1..Len(q)
  /\ q[brace] = Open /\ q[open] = Quote /\ q[close] = Quote /\ q[colon] = Colon /\ q[end] = Close
  /\ \A k \in (open + 1)..(close - 1) : q[k] # Quote
  /\ \A k \in 1..(colon - 1) : q[k] # Colon
  /\ \A k \in 1..Len(q) :
       \/ k < brace \/ (brace < k /\ k < open) \/ (close < k /\ k < colon) \/ (colon < k /\ k <= o)
       \/ (o + Len(value) < k /\ k < end) \/ end < k
       => q[k] \in Blank
  /\ WithinText(value, q, o)

LEMMA EntryParts ==
  ASSUME NEW q \in Body, NEW value \in Body, NEW brace, NEW open, NEW close, NEW colon, NEW o, NEW end,
         OneEntry(q, brace, open, close, colon, value, o, end), Clean(q, 1), Parted(q, 1)
  PROVE  HasTopLevelComma(value)
<1> DEFINE n == Len(q)
<1> HIDE DEF Out, In, Escape
<1>1. n \in Nat /\ Len(value) \in Nat /\ n = Len(q)
  BY TextPlaces
<1>2. /\ brace \in 1..n /\ open \in (brace + 1)..n /\ close \in (open + 1)..n
      /\ colon \in (close + 1)..n /\ o \in colon..n /\ o + Len(value) < end /\ end \in 1..n
  BY DEF OneEntry
<1>3. q[brace] = Open /\ q[open] = Quote /\ q[close] = Quote /\ q[colon] = Colon /\ q[end] = Close
  BY DEF OneEntry
<1>4. (\A k \in (open + 1)..(close - 1) : q[k] # Quote) /\ (\A k \in 1..(colon - 1) : q[k] # Colon)
  BY DEF OneEntry
<1>5. \A k \in 1..n : \/ k < brace \/ (brace < k /\ k < open) \/ (close < k /\ k < colon) \/ (colon < k /\ k <= o)
                      \/ (o + Len(value) < k /\ k < end) \/ end < k
                      => q[k] \in Blank
  BY DEF OneEntry
<1>6. Modes(q)[colon] = Out
  <2>1. colon \in 1..n
    BY <1>1, <1>2
  <2>2. QED BY <1>3, <1>4, <2>1 DEF Clean
<1> DEFINE b1 == brace + 1
           o1 == open + 1
           c1 == close + 1
           l1 == colon + 1
           v1 == o + 1
<1>7. /\ brace \in 1..(n + 1) /\ 1 \in 1..(n + 1) /\ b1 \in 1..(n + 1) /\ open \in b1..(n + 1) /\ o1 \in 1..(n + 1) /\ close \in o1..(n + 1)
      /\ c1 \in 1..(n + 1) /\ colon \in c1..(n + 1) /\ l1 \in 1..(n + 1) /\ v1 \in l1..(n + 1) /\ v1 - 1 = o
      /\ close \in o1..close /\ close \in 1..n /\ open \in 1..n /\ colon \in 1..n /\ v1 \in 1..(n + 1)
  BY <1>1, <1>2
<1>8. /\ \A k \in 1..(brace - 1) : q[k] \in Blank
      /\ \A k \in b1..(open - 1) : q[k] \in Blank
      /\ \A k \in c1..(colon - 1) : q[k] \in Blank
      /\ \A k \in l1..o : q[k] \in Blank
  BY <1>1, <1>2, <1>5
<1>9. Open # Quote /\ Colon # Quote /\ Nesting(Open) = 1 /\ Nesting(Quote) = 0 /\ Nesting(Colon) = 0
  <2>1. Open # Quote
    BY Zenon DEF Open, Quote
  <2>2. QED BY <2>1, NestingIs, Classes
<1>10. \A i \in 1..n : Depths(q)[i + 1] = Depths(q)[i] + Deeper(q, i) /\ Depths(q)[i] \in Int
  <2>1. \A i \in 1..n : i \in 1..(n + 1)
    BY <1>1
  <2>2. QED BY <2>1, DepthsAre
<1> HIDE DEF b1, o1, c1, l1, v1
<1>11. Out \in {Out, In} /\ In \in {Out, In} /\ Out # In /\ Escape # Out /\ In # Escape
  BY ModeBehindIs
<1>12. Modes(q)[brace] = Out /\ Depths(q)[brace] = 0
  <2>1. Modes(q)[1] = Out /\ Depths(q)[1] = 0
    BY ModesAre, DepthsAre
  <2>2. brace \in 1..(n + 1)
    BY <1>7
  <2>3. QED BY <1>7, <1>8, <1>11, <2>1, <2>2, BlankRun
<1>13. Modes(q)[b1] = Out /\ Depths(q)[b1] = 1
  <2>1. Modes(q)[b1] = Out
    BY <1>2, <1>3, <1>9, <1>12, ModeNext DEF b1
  <2>2. Deeper(q, brace) = 1
    BY <1>3, <1>9, <1>12 DEF Deeper
  <2>3. Depths(q)[b1] = 0 + 1
    BY ONLY <1>2, <1>10, <1>12, <2>2, Zenon DEF b1
  <2>4. QED BY ONLY <2>1, <2>3
<1>14. Modes(q)[open] = Out /\ Depths(q)[open] = 1
  BY <1>7, <1>8, <1>11, <1>13, BlankRun
<1>15. Modes(q)[o1] = In /\ Depths(q)[o1] = 1
  <2>1. Modes(q)[o1] = In
    BY <1>3, <1>7, <1>14, ModeNext DEF o1
  <2>2. Deeper(q, open) = 0
    BY <1>3, <1>9 DEF Deeper
  <2>3. Depths(q)[o1] = 1 + 0
    BY ONLY <1>7, <1>10, <1>14, <2>2, Zenon DEF o1
  <2>4. QED BY ONLY <2>1, <2>3
<1>16. \A k \in o1..close : Modes(q)[k] \in {In, Escape} /\ Depths(q)[k] = 1
  <2>1. \A k \in o1..(close - 1) : q[k] # Quote
    BY <1>4 DEF o1
  <2>2. \A k \in o1..close : Modes(q)[k] \in {In, Escape} /\ Depths(q)[k] = Depths(q)[o1]
    BY <1>7, <1>15, <2>1, Unclosed
  <2>3. QED BY ONLY <1>15, <2>2
<1>17. Modes(q)[close] = In
  <2>1. Modes(q)[close] = In \/ Modes(q)[close] = Escape
    BY ONLY <1>7, <1>16
  <2>2. CASE Modes(q)[close] = Escape
    <3>1. Modes(q)[c1] = In
      BY <1>7, <2>2, ModeNext DEF c1
    <3>2. Modes(q)[colon] = In
      BY <1>7, <1>8, <1>11, <3>1, BlankRun
    <3>3. QED BY ONLY <1>6, <1>11, <3>2
  <2>3. QED BY ONLY <2>1, <2>2
<1>18. Modes(q)[c1] = Out /\ Depths(q)[c1] = 1
  <2>1. Modes(q)[c1] = Out
    BY <1>3, <1>7, <1>17, ModeNext DEF c1
  <2>2. Deeper(q, close) = 0
    BY <1>3, <1>9 DEF Deeper
  <2>3. Depths(q)[close] = 1
    BY ONLY <1>7, <1>16
  <2>4. Depths(q)[c1] = 1 + 0
    BY ONLY <1>7, <1>10, <2>2, <2>3, Zenon DEF c1
  <2>5. QED BY ONLY <2>1, <2>4
<1>19. Depths(q)[colon] = 1
  <2>1. Depths(q)[colon] = Depths(q)[c1]
    BY <1>7, <1>8, <1>11, <1>18, BlankRun
  <2>2. QED BY ONLY <1>18, <2>1
<1>20. Modes(q)[l1] = Out /\ Depths(q)[l1] = 1
  <2>1. Modes(q)[l1] = Out
    BY <1>3, <1>6, <1>7, <1>9, ModeNext DEF l1
  <2>2. Deeper(q, colon) = 0
    BY <1>3, <1>9 DEF Deeper
  <2>3. Depths(q)[l1] = 1 + 0
    BY ONLY <1>7, <1>10, <1>19, <2>2, Zenon DEF l1
  <2>4. QED BY ONLY <2>1, <2>3
<1>21. Modes(q)[v1] = Out /\ Depths(q)[v1] = 1
  <2>1. \A k \in l1..(v1 - 1) : q[k] \in Blank
    BY ONLY <1>7, <1>8
  <2>2. Modes(q)[v1] = Out /\ Depths(q)[v1] = Depths(q)[l1]
    BY <1>7, <1>11, <1>20, <2>1, BlankRun
  <2>3. QED BY ONLY <1>20, <2>2
<1>22. PICK x \in 1..n : q[x] = Comma /\ Modes(q)[x] = Out /\ Depths(q)[x] = 1
  BY DEF Parted
<1>23. x # brace /\ x # open /\ x # close /\ x # colon /\ x # end /\ q[x] \notin Blank
  <2>1. Comma # Open /\ Comma # Quote /\ Comma # Colon /\ Comma # Close /\ Comma \notin Blank
    BY Zenon DEF Comma, Open, Quote, Colon, Close, Blank
  <2>2. QED BY ONLY <1>3, <1>22, <2>1
<1>24. x \notin o1..close
  BY ONLY <1>11, <1>16, <1>22
<1>25. ~(open < x /\ x < close)
  BY <1>1, <1>2, <1>22, <1>24 DEF o1
<1>26. x \in v1..(o + Len(value))
  BY <1>1, <1>2, <1>5, <1>22, <1>23, <1>25 DEF v1
<1> DEFINE y == x - o
<1>27. y \in 1..Len(value) /\ o + y = x
  BY <1>1, <1>2, <1>26 DEF v1
<1> HIDE DEF y, n
<1>28. WithinText(value, q, o)
  BY DEF OneEntry
<1>29. Modes(q)[o + 1] = Out /\ q[o + y] = Comma /\ Modes(q)[o + y] = Out /\ Depths(q)[o + y] = Depths(q)[o + 1]
  BY ONLY <1>21, <1>22, <1>27 DEF v1
<1>30. QED BY <1>27, <1>28, <1>29, FindsCommaIn

LEMMA WindowIn ==
  ASSUME NEW q \in Body, NEW s \in Body, NEW h, WithinText(s, q, h), NEW a \in Nat, NEW b \in Nat,
         1 <= a, a <= b + 1, b <= Len(s)
  PROVE  /\ SubSeq(s, a, b) \in Body /\ Len(SubSeq(s, a, b)) = b - a + 1 /\ WithinText(SubSeq(s, a, b), q, h + a - 1)
         /\ \A k \in 1..(b - a + 1) : SubSeq(s, a, b)[k] = s[a + k - 1]
<1> DEFINE w == SubSeq(s, a, b)
           j == h + a - 1
<1>1. /\ Len(s) \in Nat /\ Len(q) \in Nat /\ h \in Nat /\ h + Len(s) <= Len(q) /\ \A k \in 1..Len(s) : s[k] = q[h + k]
      /\ s \in Seq(Chars)
  BY TextPlaces DEF WithinText, Body
<1>2. w \in Seq(Chars) /\ Len(w) = b - a + 1 /\ \A k \in 1..(b - a + 1) : w[k] = s[a + k - 1]
  <2>1. a \in 1..(Len(s) + 1) /\ b \in (a - 1)..Len(s)
    BY <1>1
  <2>2. /\ SubSeq(s, a, b) \in Seq(Chars)
        /\ Len(SubSeq(s, a, b)) = IF a <= b THEN b - a + 1 ELSE 0
        /\ \A i \in 1 .. (b - a + 1) : SubSeq(s, a, b)[i] = s[a + i - 1]
    BY <1>1, <2>1, SubSeqProperties
  <2> HIDE DEF w
  <2>3. (IF a <= b THEN b - a + 1 ELSE 0) = b - a + 1
    OBVIOUS
  <2>4. QED BY ONLY <2>2, <2>3, Zenon DEF w
<1> HIDE DEF w
<1>3. \A k \in 1..Len(w) : a + k - 1 \in 1..Len(s) /\ h + (a + k - 1) = j + k /\ k \in 1..(b - a + 1)
  BY <1>1, <1>2
<1>4. \A k \in 1..Len(w) : w[k] = q[j + k]
  BY ONLY <1>1, <1>2, <1>3, Zenon
<1>5. j \in Nat /\ j + Len(w) <= Len(q)
  BY <1>1, <1>2
<1>6. w \in Body /\ Len(w) = b - a + 1 /\ WithinText(w, q, j) /\ \A k \in 1..(b - a + 1) : w[k] = s[a + k - 1]
  <2> HIDE DEF j
  <2>1. QED BY <1>2, <1>4, <1>5 DEF WithinText, Body
<1>7. QED BY ONLY <1>6, Zenon DEF w, j

(* u is what is left in q behind the first o characters of the window of len *)
(* characters behind the first h, without the blanks around it              *)
TrimmedIn(u, q, h, len, o) ==
  /\ WithinText(u, q, o) /\ h <= o /\ o + Len(u) <= h + len
  /\ \A k \in 1..Len(q) : (h < k /\ k <= o) \/ (o + Len(u) < k /\ k <= h + len) => q[k] \in Blank

LEMMA TrimIs ==
  ASSUME NEW q \in Body, NEW s \in Body, NEW h, WithinText(s, q, h)
  PROVE  Trim(s) \in Body /\ \E o \in Nat : TrimmedIn(Trim(s), q, h, Len(s), o)
<1> DEFINE solid == {i \in DOMAIN s : s[i] \notin Blank}
<1>1. /\ Len(s) \in Nat /\ Len(q) \in Nat /\ h \in Nat /\ h + Len(s) <= Len(q) /\ \A k \in 1..Len(s) : s[k] = q[h + k]
      /\ DOMAIN s = 1..Len(s)
  BY TextPlaces DEF WithinText
<1>2. Trim(s) = IF solid = {} THEN <<>> ELSE SubSeq(s, Min(solid), Max(solid))
  BY DEF Trim
<1>3. solid \in SUBSET (1..Len(s)) /\ solid \subseteq Nat /\ \A i \in 1..Len(s) : i \in solid <=> s[i] \notin Blank
  BY <1>1
<1>4. \A k \in 1..Len(q) : h < k /\ k <= h + Len(s) => k - h \in 1..Len(s) /\ q[k] = s[k - h]
  <2>1. \A k \in 1..Len(q) : h < k /\ k <= h + Len(s) => k - h \in 1..Len(s) /\ h + (k - h) = k
    BY <1>1
  <2>2. QED BY <1>1, <2>1
<1> HIDE DEF solid
<1>5. CASE solid = {}
  <2>1. Trim(s) = <<>> /\ <<>> \in Body /\ Len(<<>>) = 0
    BY <1>2, <1>5, EmptySeq DEF Body
  <2>2. WithinText(<<>>, q, h)
    BY <1>1, <2>1 DEF WithinText
  <2>3. \A k \in 1..Len(q) : h < k /\ k <= h + Len(s) => q[k] \in Blank
    BY <1>3, <1>4, <1>5
  <2>4. TrimmedIn(<<>>, q, h, Len(s), h)
    <3>1. h <= h /\ h + 0 = h /\ h <= h + Len(s) /\ \A k \in 1..Len(q) : ~(h < k /\ k <= h)
      BY <1>1
    <3>2. QED BY ONLY <2>1, <2>2, <2>3, <3>1, Zenon DEF TrimmedIn
  <2>5. QED BY ONLY <1>1, <2>1, <2>4, Zenon
<1>6. CASE solid # {}
  <2> DEFINE a == Min(solid)
             b == Max(solid)
             u == SubSeq(s, a, b)
             o == h + a - 1
  <2>1. b \in solid /\ \A x \in solid : x <= b
    BY <1>1, <1>3, <1>6, MaxOf
  <2>2. a \in solid /\ \A x \in solid : a <= x
    <3>1. \E x \in solid : \A y \in solid : x <= y
      BY <1>3, <1>6, LeastOf
    <3>2. a = CHOOSE x \in solid : \A y \in solid : x <= y
      BY DEF Min
    <3> HIDE DEF a
    <3>3. QED BY ONLY <3>1, <3>2
  <2> HIDE DEF a, b
  <2>3. a \in Nat /\ b \in Nat /\ 1 <= a /\ a <= b /\ a <= b + 1 /\ b <= Len(s)
    BY <1>1, <1>3, <2>1, <2>2
  <2>4. u \in Body /\ Len(u) = b - a + 1 /\ WithinText(u, q, o)
    BY <2>3, WindowIn
  <2>5. Trim(s) = u
    BY <1>2, <1>6 DEF a, b
  <2> HIDE DEF u
  <2>6. o \in Nat /\ h <= o /\ o + Len(u) <= h + Len(s) /\ o + Len(u) = h + b
    BY <1>1, <2>3, <2>4
  <2>7. ASSUME NEW k \in 1..Len(q), (h < k /\ k <= o) \/ (o + Len(u) < k /\ k <= h + Len(s)) PROVE q[k] \in Blank
    <3>1. h < k /\ k <= h + Len(s) /\ (k - h < a \/ b < k - h)
      BY <1>1, <2>3, <2>6, <2>7
    <3>2. k - h \in 1..Len(s) /\ q[k] = s[k - h]
      BY <1>4, <3>1
    <3>3. k - h \notin solid
      BY <1>1, <2>1, <2>2, <2>3, <3>1, <3>2
    <3>4. QED BY ONLY <1>3, <3>2, <3>3
  <2>8. TrimmedIn(u, q, h, Len(s), o)
    BY ONLY <2>4, <2>6, <2>7, Zenon DEF TrimmedIn
  <2>9. QED BY ONLY <2>4, <2>5, <2>6, <2>8, Zenon
<1>7. QED BY <1>5, <1>6

(* What the rescue takes for a single entry *)
OneValue == "single"

LEMMA KindIs ==
  ASSUME NEW k, NEW x, NEW y
  PROVE  [kind |-> k].kind = k /\ [kind |-> k, text |-> x].kind = k /\ [kind |-> k, key |-> x, value |-> y].kind = k
  OBVIOUS

LEMMA KindsAre ==
  /\ Refused.kind # OneValue /\ Panic.kind # OneValue
  /\ \A s : Parsed(s).kind # OneValue
<1>1. Refused.kind = "none" /\ Panic.kind = "panic" /\ \A s : Parsed(s).kind = "json"
  BY KindIs, Zenon DEF Refused, Panic, Parsed
<1>2. "none" # OneValue /\ "panic" # OneValue /\ "json" # OneValue
  BY Zenon DEF OneValue
<1>3. QED BY ONLY <1>1, <1>2, Zenon

LEMMA EntryRescued ==
  ASSUME NEW key, NEW value, RescueEntry(key, value).kind = OneValue
  PROVE  /\ key # <<>> /\ key[1] = Quote /\ Last(key) = Quote /\ Len(key) # 1
         /\ Quote \notin ToSet(SubSeq(key, 2, Len(key) - 1))
         /\ IsJson(value) \/ ~HasTopLevelComma(value)
<1> DEFINE name == SubSeq(key, 2, Len(key) - 1)
           first == key[1]
           last == Last(key)
           quoted == Quote \in ToSet(name)
           one == Len(key) = 1
           single == Single(name, value)
           opens == value[1] = Quote
           json == IsJson(value)
           parts == HasTopLevelComma(value)
           entry == RescueEntry(key, value)
<1>1. entry = IF key = <<>> THEN Refused
              ELSE IF first # Quote \/ last # Quote THEN Refused
              ELSE IF one THEN Panic
              ELSE IF quoted \/ value = <<>> THEN Refused
              ELSE IF json THEN single
              ELSE IF parts \/ opens THEN Refused
              ELSE single
  BY Zenon DEF RescueEntry
<1>2. entry # Refused /\ entry # Panic
  BY KindsAre, Zenon
<1> HIDE DEF name, first, last, quoted, one, single, opens, json, parts, entry
<1>3. key # <<>> /\ first = Quote /\ last = Quote /\ ~one /\ ~quoted /\ (json \/ ~parts)
  BY ONLY <1>1, <1>2, Zenon
<1>4. QED BY ONLY <1>3, Zenon DEF name, first, last, quoted, one, json, parts

Inner(text) == Trim(SubSeq(text, 2, Len(text) - 1))
FirstColon(s) == Past(s, Chars \ {Colon}, 1)
EntryKey(s) == Trim(SubSeq(s, 1, FirstColon(s) - 1))
EntryValue(s) == Trim(SubSeq(s, FirstColon(s) + 1, Len(s)))

LEMMA SingleRescued ==
  ASSUME NEW text, RescueSingle(text).kind = OneValue
  PROVE  /\ ~(Len(text) < 2) /\ text[1] = Open /\ Last(text) = Close
         /\ ~(FirstColon(Inner(text)) > Len(Inner(text)))
         /\ RescueEntry(EntryKey(Inner(text)), EntryValue(Inner(text))).kind = OneValue
<1> DEFINE inner == Inner(text)
           colon == FirstColon(inner)
           single == RescueSingle(text)
           split == RescueSplit(inner, colon)
           entry == RescueEntry(EntryKey(inner), EntryValue(inner))
           short == Len(text) < 2
           first == text[1]
           last == Last(text)
           past == colon > Len(inner)
<1>1. single = IF short \/ first # Open \/ last # Close THEN Refused ELSE split
  BY Zenon DEF RescueSingle, Inner, FirstColon, Colon, Open, Close
<1>2. split = IF past THEN Refused ELSE entry
  BY Zenon DEF RescueSplit, EntryKey, EntryValue, Inner
<1>3. single # Refused
  BY KindsAre, Zenon
<1>4. single.kind = OneValue
  OBVIOUS
<1> HIDE DEF inner, colon, single, split, entry, short, first, last, past
<1>5. ~short /\ first = Open /\ last = Close /\ ~past /\ entry.kind = OneValue
  BY ONLY <1>1, <1>2, <1>3, <1>4, Zenon
<1>6. QED BY ONLY <1>5, Zenon DEF inner, colon, entry, short, first, last, past

(* The text inner, which stands in q behind the first p characters, has a    *)
(* key in quotes, a colon at c and a value                                  *)
Splits(q, inner, p) ==
  \E c \in 1..Len(inner), r, o, len \in Nat, value \in Body :
    /\ q[p + c] = Colon /\ \A k \in (p + 1)..(p + c - 1) : q[k] # Colon
    /\ len >= 2 /\ p <= r /\ r + len < p + c /\ q[r + 1] = Quote /\ q[r + len] = Quote
    /\ \A k \in (r + 2)..(r + len - 1) : q[k] # Quote
    /\ \A k \in 1..Len(q) : (p < k /\ k <= r) \/ (r + len < k /\ k < p + c) => q[k] \in Blank
    /\ TrimmedIn(value, q, p + c, Len(inner) - c, o) /\ ~HasTopLevelComma(value)

LEMMA RescueSplits ==
  ASSUME NEW q \in Body, NEW inner \in Body, NEW p, WithinText(inner, q, p), ~(FirstColon(inner) > Len(inner)),
         RescueEntry(EntryKey(inner), EntryValue(inner)).kind = OneValue
  PROVE  Splits(q, inner, p)
<1> DEFINE c == FirstColon(inner)
           L == Len(inner)
           key0 == SubSeq(inner, 1, c - 1)
           value0 == SubSeq(inner, c + 1, L)
           key == Trim(key0)
           value == Trim(value0)
<1>1. /\ L \in Nat /\ Len(q) \in Nat /\ p \in Nat /\ p + L <= Len(q) /\ \A k \in 1..L : inner[k] = q[p + k]
  BY TextPlaces DEF WithinText
<1>2. /\ c \in 1..L /\ inner[c] = Colon /\ \A k \in 1..(c - 1) : inner[k] # Colon
  <2>1. Nil \notin Chars \ {Colon} /\ 1 \in 1..(L + 1)
    <3>1. Nil \notin Chars
      BY Zenon DEF Nil, Chars, Identifier, Letters, Blank, Marker, Quote, Backslash
    <3>2. QED BY <1>1, <3>1
  <2>2. /\ c \in 1..(L + 1) /\ At(inner, c) \notin Chars \ {Colon}
        /\ \A k \in 1..(c - 1) : At(inner, k) \in Chars \ {Colon}
    BY <2>1, PastIs DEF FirstColon
  <2> HIDE DEF c
  <2>3. c \in 1..L
    <3>1. ~(c > L)
      BY DEF c
    <3>2. QED BY <1>1, <2>2, <3>1
  <2>4. At(inner, c) = inner[c] /\ inner[c] \in Chars /\ \A k \in 1..(c - 1) : At(inner, k) = inner[k]
    <3>1. \A k \in 1..(c - 1) : k \in 1..L
      BY <1>1, <2>3
    <3>2. QED BY <2>3, <3>1, TextPlaces
  <2>5. QED BY <2>2, <2>3, <2>4
<1> HIDE DEF c, L
<1>3. key0 \in Body /\ Len(key0) = c - 1 /\ WithinText(key0, q, p)
  <2> DEFINE b == c - 1
             one == 1
  <2>1. b \in Nat /\ one \in Nat /\ 1 <= one /\ one <= b + 1 /\ b <= Len(inner)
    BY <1>1, <1>2 DEF L
  <2> HIDE DEF b, one
  <2>2. /\ SubSeq(inner, one, b) \in Body /\ Len(SubSeq(inner, one, b)) = b - one + 1
        /\ WithinText(SubSeq(inner, one, b), q, p + one - 1)
    BY <2>1, WindowIn
  <2>3. b - one + 1 = c - 1 /\ p + one - 1 = p
    BY <1>1, <1>2 DEF b, one
  <2>4. key0 = SubSeq(inner, one, b)
    BY Zenon DEF b, one
  <2>5. QED BY ONLY <2>2, <2>3, <2>4, Zenon
<1>4. value0 \in Body /\ Len(value0) = L - c /\ WithinText(value0, q, p + c)
  <2> DEFINE a == c + 1
  <2>1. L \in Nat /\ a \in Nat /\ 1 <= a /\ a <= L + 1 /\ L <= Len(inner)
    BY <1>1, <1>2 DEF L
  <2> HIDE DEF a
  <2>2. /\ SubSeq(inner, a, L) \in Body /\ Len(SubSeq(inner, a, L)) = L - a + 1
        /\ WithinText(SubSeq(inner, a, L), q, p + a - 1)
    BY <2>1, WindowIn
  <2>3. L - a + 1 = L - c /\ p + a - 1 = p + c
    BY <1>1, <1>2 DEF a
  <2>4. value0 = SubSeq(inner, a, L)
    BY Zenon DEF a
  <2>5. QED BY ONLY <2>2, <2>3, <2>4, Zenon
<1>5. key = EntryKey(inner) /\ value = EntryValue(inner)
  BY Zenon DEF EntryKey, EntryValue, c, L
<1> HIDE DEF key0, value0
<1>6. key \in Body /\ \E r \in Nat : TrimmedIn(key, q, p, c - 1, r)
  <2>1. key \in Body /\ \E r \in Nat : TrimmedIn(key, q, p, Len(key0), r)
    BY <1>3, TrimIs
  <2>2. QED BY ONLY <1>3, <2>1, Zenon
<1>7. value \in Body /\ \E o \in Nat : TrimmedIn(value, q, p + c, L - c, o)
  <2> DEFINE h == p + c
  <2>1. WithinText(value0, q, h)
    BY <1>4
  <2> HIDE DEF h
  <2>2. value \in Body /\ \E o \in Nat : TrimmedIn(value, q, h, Len(value0), o)
    BY <1>4, <2>1, TrimIs
  <2>3. QED BY ONLY <1>4, <2>2, Zenon DEF h
<1> HIDE DEF key, value
<1>8. PICK r \in Nat : TrimmedIn(key, q, p, c - 1, r)
  BY ONLY <1>6
<1>9. PICK o \in Nat : TrimmedIn(value, q, p + c, L - c, o)
  BY ONLY <1>7
<1> DEFINE len == Len(key)
<1>10. /\ key # <<>> /\ key[1] = Quote /\ Last(key) = Quote /\ Len(key) # 1
       /\ Quote \notin ToSet(SubSeq(key, 2, Len(key) - 1))
       /\ IsJson(value) \/ ~HasTopLevelComma(value)
  <2>1. RescueEntry(key, value).kind = OneValue
    BY ONLY <1>5, RescueEntry(EntryKey(inner), EntryValue(inner)).kind = OneValue, Zenon
  <2>2. QED BY ONLY <2>1, EntryRescued
<1>11. ~HasTopLevelComma(value)
  <2>1. IsJson(value) => ~HasTopLevelComma(value)
    BY <1>7, JsonUnparted
  <2>2. QED BY ONLY <1>10, <2>1, Zenon
<1>12. /\ r \in Nat /\ WithinText(key, q, r) /\ p <= r /\ r + len <= p + (c - 1)
       /\ \A k \in 1..Len(q) : (p < k /\ k <= r) \/ (r + len < k /\ k <= p + (c - 1)) => q[k] \in Blank
  BY <1>8 DEF TrimmedIn
<1>13. len \in Nat /\ len >= 2 /\ \A k \in 1..len : key[k] = q[r + k]
  <2>1. len \in Nat /\ \A k \in 1..len : key[k] = q[r + k]
    BY <1>6, <1>12, TextPlaces DEF WithinText
  <2>2. len # 0
    <3>1. key \in Seq(Chars)
      BY <1>6 DEF Body
    <3>2. QED BY <1>10, <3>1, EmptySeq
  <2>3. len # 1
    BY <1>10
  <2> HIDE DEF len
  <2>4. QED BY ONLY <2>1, <2>2, <2>3
<1>14. q[r + 1] = Quote /\ q[r + len] = Quote
  <2>1. Last(key) = key[len]
    BY DEF Last
  <2> HIDE DEF len
  <2>2. 1 \in 1..len /\ len \in 1..len
    BY ONLY <1>13
  <2>3. QED BY ONLY <1>10, <1>13, <2>1, <2>2
<1>15. \A k \in (r + 2)..(r + len - 1) : q[k] # Quote
  <2> DEFINE b == len - 1
             two == 2
             name == SubSeq(key, two, b)
  <2>1. b \in Nat /\ two \in Nat /\ 1 <= two /\ two <= b + 1 /\ b <= Len(key)
    <3>1. Len(key) = len
      OBVIOUS
    <3> HIDE DEF len
    <3>2. QED BY <1>13, <3>1
  <2> HIDE DEF b, two, name, len
  <2>2. /\ SubSeq(key, two, b) \in Body /\ Len(SubSeq(key, two, b)) = b - two + 1
        /\ \A k \in 1..(b - two + 1) : SubSeq(key, two, b)[k] = key[two + k - 1]
    <3>1. key \in Body /\ WithinText(key, q, r)
      BY <1>6, <1>12
    <3>2. QED BY ONLY <2>1, <3>1, q \in Body, WindowIn
  <2>3. Quote \notin ToSet(name)
    BY ONLY <1>10, Zenon DEF name, b, two, len
  <2>4. name \in Body /\ Len(name) = b - two + 1 /\ (\A k \in 1..(b - two + 1) : name[k] = key[two + k - 1])
    BY ONLY <2>2, Zenon DEF name
  <2>5. \A k \in 1..Len(name) : name[k] # Quote
    <3>1. DOMAIN name = 1..Len(name)
      BY <2>4, TextPlaces
    <3>2. QED BY <2>3, <3>1 DEF ToSet
  <2> SUFFICES ASSUME NEW k \in (r + 2)..(r + len - 1) PROVE q[k] # Quote
    OBVIOUS
  <2> DEFINE j == k - r
             g == k - r - 1
  <2>6. j \in 1..len /\ r + j = k /\ g \in 1..(b - two + 1) /\ two + g - 1 = j
    BY <1>12, <1>13 DEF b, two
  <2> HIDE DEF j, g
  <2>7. name[g] = key[j] /\ name[g] # Quote
    BY ONLY <2>4, <2>5, <2>6
  <2>8. key[j] = q[k]
    BY ONLY <1>13, <2>6
  <2>9. QED BY ONLY <2>7, <2>8
<1>16. q[p + c] = Colon
  BY <1>1, <1>2
<1>17. \A k \in (p + 1)..(p + c - 1) : q[k] # Colon
  <2> SUFFICES ASSUME NEW k \in (p + 1)..(p + c - 1) PROVE q[k] # Colon
    OBVIOUS
  <2>1. k - p \in 1..(c - 1) /\ k - p \in 1..L /\ p + (k - p) = k
    BY <1>1, <1>2
  <2>2. QED BY <1>1, <1>2, <2>1
<1> HIDE DEF len
<1>18. /\ r + len < p + c
       /\ \A k \in 1..Len(q) : (p < k /\ k <= r) \/ (r + len < k /\ k < p + c) => q[k] \in Blank
  <2>1. r + len < p + c /\ \A k \in 1..Len(q) : k < p + c <=> k <= p + (c - 1)
    BY <1>1, <1>2, <1>12, <1>13
  <2>2. QED BY ONLY <1>12, <2>1
<1>19. c \in 1..Len(inner) /\ L = Len(inner)
  BY <1>2 DEF L
<1>20. TrimmedIn(value, q, p + c, Len(inner) - c, o)
  BY ONLY <1>9, <1>19, Zenon
<1>21. QED BY ONLY <1>7, <1>9, <1>11, <1>12, <1>13, <1>14, <1>15, <1>16, <1>17, <1>18, <1>19, <1>20, Zenon DEF Splits

LEMMA RescuedEntry ==
  ASSUME NEW q \in Body, RescueSingle(Trim(q)).kind = OneValue
  PROVE  \E value \in Body : \E brace, open, close, colon, o, end :
           OneEntry(q, brace, open, close, colon, value, o, end) /\ ~HasTopLevelComma(value)
<1> DEFINE n == Len(q)
           text == Trim(q)
           L == Len(text)
           inner0 == SubSeq(text, 2, L - 1)
           inner == Trim(inner0)
<1>1. n \in Nat /\ WithinText(q, q, 0)
  <2>1. n \in Nat
    BY TextPlaces
  <2>2. 0 \in Nat /\ 0 + n <= n /\ \A k \in 1..n : 0 + k = k
    BY ONLY <2>1
  <2>3. QED BY ONLY <2>1, <2>2, Zenon DEF WithinText
<1>2. text \in Body /\ \E h \in Nat : TrimmedIn(text, q, 0, n, h)
  BY <1>1, TrimIs
<1>3. inner = Inner(text)
  BY Zenon DEF Inner
<1>4. /\ ~(L < 2) /\ text[1] = Open /\ Last(text) = Close
      /\ ~(FirstColon(inner) > Len(inner))
      /\ RescueEntry(EntryKey(inner), EntryValue(inner)).kind = OneValue
  BY ONLY <1>3, RescueSingle(Trim(q)).kind = OneValue, SingleRescued, Zenon
<1> HIDE DEF text, inner
<1>5. PICK h \in Nat : TrimmedIn(text, q, 0, n, h)
  BY ONLY <1>2
<1>6. /\ h \in Nat /\ WithinText(text, q, h) /\ h + L <= n /\ L \in Nat /\ L >= 2
      /\ \A k \in 1..n : k <= h \/ h + L < k => q[k] \in Blank
  <2>1. L \in Nat /\ L >= 2
    BY <1>2, <1>4, TextPlaces
  <2>2. /\ WithinText(text, q, h) /\ h + L <= 0 + n
        /\ \A k \in 1..n : (0 < k /\ k <= h) \/ (h + L < k /\ k <= 0 + n) => q[k] \in Blank
    BY <1>5 DEF TrimmedIn
  <2> HIDE DEF L, n
  <2>3. QED BY ONLY <1>1, <2>1, <2>2, h \in Nat
<1>7. q[h + 1] = Open /\ q[h + L] = Close
  <2>1. Last(text) = text[L] /\ 1 \in 1..L /\ L \in 1..L
    BY <1>6 DEF Last
  <2>2. \A k \in 1..L : text[k] = q[h + k]
    BY <1>6 DEF WithinText
  <2>3. QED BY ONLY <1>4, <2>1, <2>2
<1>8. inner0 \in Body /\ Len(inner0) = L - 2 /\ WithinText(inner0, q, h + 1)
  <2> DEFINE b == L - 1
             two == 2
  <2>1. b \in Nat /\ two \in Nat /\ 1 <= two /\ two <= b + 1 /\ b <= Len(text)
    <3>1. Len(text) = L
      OBVIOUS
    <3> HIDE DEF L
    <3>2. QED BY <1>6, <3>1
  <2> HIDE DEF b, two
  <2>2. /\ SubSeq(text, two, b) \in Body /\ Len(SubSeq(text, two, b)) = b - two + 1
        /\ WithinText(SubSeq(text, two, b), q, h + two - 1)
    BY <1>2, <1>6, <2>1, WindowIn
  <2>3. b - two + 1 = L - 2 /\ h + two - 1 = h + 1
    <3> HIDE DEF L
    <3>1. QED BY <1>6 DEF b, two
  <2>4. inner0 = SubSeq(text, two, b)
    BY Zenon DEF b, two
  <2>5. QED BY ONLY <2>2, <2>3, <2>4, Zenon
<1> HIDE DEF inner0, L
<1>9. inner \in Body /\ \E p \in Nat : TrimmedIn(inner, q, h + 1, L - 2, p)
  <2> DEFINE g == h + 1
  <2>1. WithinText(inner0, q, g)
    BY <1>8
  <2> HIDE DEF g
  <2>2. Trim(inner0) \in Body /\ \E p \in Nat : TrimmedIn(Trim(inner0), q, g, Len(inner0), p)
    BY <1>8, <2>1, TrimIs
  <2>3. inner = Trim(inner0)
    BY Zenon DEF inner
  <2>4. QED BY ONLY <1>8, <2>2, <2>3, Zenon DEF g
<1>10. PICK p \in Nat : TrimmedIn(inner, q, h + 1, L - 2, p)
  BY ONLY <1>9
<1>11. /\ p \in Nat /\ WithinText(inner, q, p) /\ h + 1 <= p /\ p + Len(inner) <= h + 1 + (L - 2)
       /\ \A k \in 1..n : (h + 1 < k /\ k <= p) \/ (p + Len(inner) < k /\ k <= h + 1 + (L - 2)) => q[k] \in Blank
  BY <1>10 DEF TrimmedIn
<1>12. PICK c \in 1..Len(inner), r \in Nat, o \in Nat, len \in Nat, value \in Body :
         /\ q[p + c] = Colon /\ \A k \in (p + 1)..(p + c - 1) : q[k] # Colon
         /\ len >= 2 /\ p <= r /\ r + len < p + c /\ q[r + 1] = Quote /\ q[r + len] = Quote
         /\ \A k \in (r + 2)..(r + len - 1) : q[k] # Quote
         /\ \A k \in 1..Len(q) : (p < k /\ k <= r) \/ (r + len < k /\ k < p + c) => q[k] \in Blank
         /\ TrimmedIn(value, q, p + c, Len(inner) - c, o) /\ ~HasTopLevelComma(value)
  <2>1. Splits(q, inner, p)
    BY <1>4, <1>9, <1>11, RescueSplits
  <2>2. QED BY ONLY <2>1 DEF Splits
<1> DEFINE m == Len(inner)
           v == Len(value)
           brace == h + 1
           open == r + 1
           close == r + len
           colon == p + c
           end == h + L
<1>13. /\ WithinText(value, q, o) /\ p + c <= o /\ o + v <= p + c + (m - c)
       /\ \A k \in 1..n : (p + c < k /\ k <= o) \/ (o + v < k /\ k <= p + c + (m - c)) => q[k] \in Blank
  BY <1>12 DEF TrimmedIn
<1>14. m \in Nat /\ v \in Nat /\ c \in 1..m
  BY <1>9, <1>12, TextPlaces
<1> HIDE DEF m, v, n
<1>15. p + m <= h + L - 1 /\ p >= h + 1 /\ p + c + (m - c) = p + m /\ h + 1 + (L - 2) = h + L - 1 /\ o \in Nat
  BY <1>6, <1>11, <1>12, <1>14 DEF m
<1>16. /\ brace \in 1..n /\ open \in (brace + 1)..n /\ close \in (open + 1)..n
       /\ colon \in (close + 1)..n /\ o \in colon..n /\ o + v < end /\ end \in 1..n
  BY <1>1, <1>6, <1>11, <1>12, <1>13, <1>14, <1>15
<1>17. q[brace] = Open /\ q[open] = Quote /\ q[close] = Quote /\ q[colon] = Colon /\ q[end] = Close
  BY <1>7, <1>12
<1>18. \A k \in (open + 1)..(close - 1) : q[k] # Quote
  BY <1>12
<1>19. ASSUME NEW k \in 1..n,
         \/ k < brace \/ (brace < k /\ k < open) \/ (close < k /\ k < colon) \/ (colon < k /\ k <= o)
         \/ (o + v < k /\ k < end) \/ end < k
       PROVE q[k] \in Blank
  <2>1. CASE k < brace \/ end < k
    <3>1. k <= h \/ h + L < k
      BY <1>6, <2>1
    <3>2. QED BY <1>6, <3>1
  <2>2. CASE brace < k /\ k < open
    <3>1. (h + 1 < k /\ k <= p) \/ (p < k /\ k <= r)
      BY <1>11, <1>12, <2>2
    <3>2. QED BY <1>11, <1>12, <3>1 DEF n
  <2>3. CASE close < k /\ k < colon
    BY <1>12, <2>3 DEF n
  <2>4. CASE colon < k /\ k <= o
    BY <1>13, <2>4
  <2>5. CASE o + v < k /\ k < end
    <3>1. (o + v < k /\ k <= p + c + (m - c)) \/ (p + m < k /\ k <= h + 1 + (L - 2))
      BY <1>6, <1>11, <1>14, <1>15, <2>5
    <3>2. QED BY <1>11, <1>13, <3>1 DEF m
  <2>6. QED BY ONLY <1>19, <2>1, <2>2, <2>3, <2>4, <2>5
<1>20. ASSUME NEW k \in 1..(colon - 1) PROVE q[k] # Colon
  <2>1. Colon # Open /\ Colon \notin Blank
    BY Zenon DEF Colon, Open, Blank
  <2>2. k \in 1..n /\ (k < brace \/ k = brace \/ (brace < k /\ k <= p) \/ k \in (p + 1)..(colon - 1))
    BY <1>1, <1>11, <1>12, <1>16
  <2>3. CASE k < brace
    BY <1>19, <2>1, <2>2, <2>3
  <2>4. CASE k = brace
    BY <1>7, <2>1, <2>4
  <2>5. CASE brace < k /\ k <= p
    <3>1. q[k] \in Blank
      BY <1>11, <2>2, <2>5
    <3>2. QED BY <2>1, <3>1
  <2>6. CASE k \in (p + 1)..(colon - 1)
    BY <1>12, <2>6
  <2>7. QED BY ONLY <2>2, <2>3, <2>4, <2>5, <2>6
<1> HIDE DEF brace, open, close, colon, end
<1>21. OneEntry(q, brace, open, close, colon, value, o, end)
  BY ONLY <1>13, <1>16, <1>17, <1>18, <1>19, <1>20, Zenon DEF OneEntry, n, v
<1>22. QED BY ONLY <1>12, <1>21, Zenon

(* A body with a comma between its own entries is not rescued *)
LEMMA PartedRefused ==
  ASSUME NEW s \in Body, Clean(s, 1), Parted(s, 1)
  PROVE  LenientParseObject(s).kind # OneValue
<1> DEFINE q == QuoteBareKeys(s)
           e == EscapeStringControls(q)
           u == UnEscapeStructuralQuotes(e)
<1>1. q \in Body /\ q = KeysFrom(s)[<<1, FALSE, FALSE>>]
  <2>1. q = KeysFrom(s)[<<1, FALSE, FALSE>>]
    BY KeysIsFrom
  <2>2. 1 \in 1..(Len(s) + 1) /\ FALSE \in BOOLEAN
    BY TextPlaces
  <2>3. KeysFrom(s)[<<1, FALSE, FALSE>>] \in Body
    BY ONLY <2>2, StateTypes, s \in Body
  <2>4. QED BY ONLY <2>1, <2>3, Zenon
<1> HIDE DEF q
<1>2. Carried(s, 1, q, 1)
  <2>1. Behind(q, 1, KeysFrom(s)[<<1, FALSE, FALSE>>])
    <3>1. Behind(q, 1, q)
      BY <1>1, WholeBehind
    <3>2. QED BY ONLY <1>1, <3>1, Zenon
  <2>2. Modes(s)[1] = Out /\ Level(s, 1, q, 1)
    BY <1>1, ModesAre, DepthsAre DEF Level
  <2>3. 1 \in 1..(Len(s) + 1) /\ FALSE \in BOOLEAN /\ 1 \in Nat /\ 1 >= 1
    BY TextPlaces
  <2> HIDE DEF Out, In
  <2>4. Modes(s)[1] = IF FALSE THEN In ELSE Out
    BY ONLY <2>2
  <2>5. QED BY ONLY <1>1, <2>1, <2>2, <2>3, <2>4, KeysCarried, s \in Body
<1>3. Clean(q, 1) /\ Parted(q, 1)
  BY <1>2 DEF Carried
<1>4. RescueSingle(Trim(q)).kind # OneValue
  <2> SUFFICES ASSUME RescueSingle(Trim(q)).kind = OneValue PROVE FALSE
    OBVIOUS
  <2>1. PICK value \in Body :
          \E brace, open, close, colon, o, end :
            OneEntry(q, brace, open, close, colon, value, o, end) /\ ~HasTopLevelComma(value)
    BY <1>1, RescuedEntry
  <2>2. PICK brace, open, close, colon, o, end :
          OneEntry(q, brace, open, close, colon, value, o, end) /\ ~HasTopLevelComma(value)
    BY <2>1
  <2>3. HasTopLevelComma(value)
    BY <1>1, <1>3, <2>2, EntryParts
  <2>4. QED BY <2>2, <2>3
<1>5. LenientParseObject(s) = Recover(q, e, u)
  BY Zenon DEF LenientParseObject, q
<1> HIDE DEF e, u
<1>6. Recover(q, e, u) = IF IsJson(q) THEN Parsed(q) ELSE IF IsJson(e) THEN Parsed(e) ELSE IF IsJson(u) THEN Parsed(u)
                         ELSE RescueSingle(Trim(q))
  BY Zenon DEF Recover
<1>7. Recover(q, e, u) \in {Parsed(q), Parsed(e), Parsed(u), RescueSingle(Trim(q))}
  BY ONLY <1>6, Zenon
<1>8. QED BY ONLY <1>4, <1>5, <1>7, KindsAre, Zenon

(* A later entry is never taken for part of a value: where the first colon  *)
(* is not in a string, a body with a comma between its own entries is not   *)
(* rescued as a single value, whatever was written (json_lenient.rs:23,     *)
(* 117)                                                                     *)
THEOREM SiblingsNeverSwallowed == Spec => []NoSiblingSwallowed
<1>1. ASSUME NEW s \in Body, Modes(s)[Past(s, Chars \ {Colon}, 1)] = Out,
             \E i \in DOMAIN s : s[i] = Comma /\ Modes(s)[i] = Out /\ Depths(s)[i] = 1
      PROVE  LenientParseObject(s).kind # OneValue
  <2> HIDE DEF Out
  <2> DEFINE c == FirstColon(s)
  <2>1. Len(s) \in Nat /\ DOMAIN s = 1..Len(s) /\ \A k \in 1..Len(s) : At(s, k) = s[k]
    BY TextPlaces
  <2>2. Nil \notin Chars \ {Colon} /\ 1 \in 1..(Len(s) + 1)
    <3>1. Nil \notin Chars
      BY Zenon DEF Nil, Chars, Identifier, Letters, Blank, Marker, Quote, Backslash
    <3>2. QED BY <2>1, <3>1
  <2>3. /\ c \in 1..(Len(s) + 1) /\ At(s, c) \notin Chars \ {Colon}
        /\ \A k \in 1..(c - 1) : At(s, k) \in Chars \ {Colon}
    BY <2>2, PastIs DEF FirstColon
  <2>4. Modes(s)[c] = Out
    BY <1>1 DEF FirstColon
  <2> HIDE DEF c
  <2>5. Clean(s, 1)
    <3> SUFFICES ASSUME NEW x \in 1..Len(s), s[x] = Colon, \A y \in 1..(x - 1) : s[y] # Colon PROVE Modes(s)[x] = Out
      BY DEF Clean
    <3>1. x \notin 1..(c - 1)
      BY <2>1, <2>3
    <3>2. c \notin 1..(x - 1)
      <4> SUFFICES ASSUME c \in 1..(x - 1) PROVE FALSE
        OBVIOUS
      <4>1. c \in 1..Len(s) /\ s[c] # Colon
        BY <2>1
      <4>2. s[c] \in Chars /\ At(s, c) = s[c]
        BY <4>1, TextPlaces
      <4>3. QED BY <2>3, <4>1, <4>2
    <3>3. x = c
      BY <2>1, <2>3, <3>1, <3>2
    <3>4. QED BY <2>4, <3>3
  <2>6. Parted(s, 1)
    BY <1>1, <2>1 DEF Parted
  <2>7. QED BY <2>5, <2>6, PartedRefused
<1>2. Types => NoSiblingSwallowed
  <2>1. NoSiblingSwallowed <=>
          ((Modes(body)[Past(body, Chars \ {Colon}, 1)] = Out
            /\ \E i \in DOMAIN body : body[i] = Comma /\ Modes(body)[i] = Out /\ Depths(body)[i] = 1)
           => LenientParseObject(body).kind # OneValue)
    BY Zenon DEF NoSiblingSwallowed, Out, Colon, Comma, OneValue
  <2>2. body \in Body =>
          ((Modes(body)[Past(body, Chars \ {Colon}, 1)] = Out
            /\ \E i \in DOMAIN body : body[i] = Comma /\ Modes(body)[i] = Out /\ Depths(body)[i] = 1)
           => LenientParseObject(body).kind # OneValue)
    BY ONLY <1>1
  <2>3. QED BY ONLY <2>1, <2>2, Zenon DEF Types
<1>3. QED BY <1>2, BodyText, PTL

=============================================================================
