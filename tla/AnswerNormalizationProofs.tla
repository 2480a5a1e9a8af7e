---------------------- MODULE AnswerNormalizationProofs ----------------------
(***************************************************************************)
(* Proofs about AnswerNormalization, for every offer and every answer of   *)
(* media sections.  The text of the answer keeps its frame through the     *)
(* three passes: no line is put behind the empty string that ends it, none *)
(* of the passes loses it.  The loop of                                    *)
(* normalizeAlexaRejectedVideoPayloads, which adds lines to the text it    *)
(* runs over, meets every video section once.                              *)
(*                                                                         *)
(* The second half shows what is returned.  The text is at every stage the *)
(* preamble and one section for each that was offered, and what becomes of *)
(* a section depends on it and on its counterpart in the offer alone: the  *)
(* passes, which work on the lines of the whole text and look for the end  *)
(* of a section while they move it, never put a line into another one      *)
(* (SectionsStaySeparate).  From this follow the three invariants about    *)
(* accepted media, rejected video and the mids of rejected media.          *)
(***************************************************************************)
EXTENDS AnswerNormalization, SequenceFacts, FunctionTheorems,
        FiniteSetTheorems, TLAPS

-----------------------------------------------------------------------------
(* The lines of a text *)

IsVideoLine(line) == IsMedia(line) /\ line.name = "video"

\* The m=video lines from line p on.
VideosFrom(ls, p) == {j \in DOMAIN ls : j >= p /\ IsVideoLine(ls[j])}

LEMMA VideosFinite ==
    ASSUME NEW L, NEW ls \in Seq(L), NEW p
    PROVE  IsFiniteSet(VideosFrom(ls, p))
<1>1. Len(ls) \in Nat /\ DOMAIN ls = 1..Len(ls)
  OBVIOUS
<1>2. IsFiniteSet(1..Len(ls))
  BY <1>1, FS_Interval
<1>3. VideosFrom(ls, p) \subseteq 1..Len(ls)
  BY <1>1 DEF VideosFrom
<1>4. QED
  BY <1>2, <1>3, FS_Subset

LEMMA MediaNotBlank ==
    ASSUME NEW line, IsMedia(line)
    PROVE  line # Blank
<1>1. Blank.kind = ""
  BY DEF Blank, Line
<1>2. "m" # ""
  OBVIOUS
<1>3. QED
  BY <1>1, <1>2 DEF IsMedia

\* A line that is no m= line, put in at p or later, makes no video section
\* from p on more or less.
LEMMA InsertKeepsVideos ==
    ASSUME NEW L, NEW ls \in Seq(L), NEW at \in 1..(Len(ls) + 1), NEW e \in L,
           ~IsMedia(e), NEW p \in 1..at
    PROVE  Cardinality(VideosFrom(InsertAt(ls, at, e), p)) =
             Cardinality(VideosFrom(ls, p))
<1> DEFINE new == InsertAt(ls, at, e)
           shift == [j \in VideosFrom(ls, p) |-> IF j < at THEN j ELSE j + 1]
<1>1. /\ Len(ls) \in Nat /\ at \in Nat /\ 1 <= at /\ at <= Len(ls) + 1
      /\ p \in Nat /\ 1 <= p /\ p <= at /\ DOMAIN ls = 1..Len(ls)
  OBVIOUS
<1>2. /\ new \in Seq(L) /\ Len(new) = Len(ls) + 1 /\ new[at] = e
      /\ \A i \in 1..(at - 1) : new[i] = ls[i]
      /\ \A i \in at..Len(ls) : new[i + 1] = ls[i]
  BY Inserted
<1> HIDE DEF new
<1>3. DOMAIN new = 1..(Len(ls) + 1)
  BY <1>2
<1>4. ASSUME NEW j \in VideosFrom(ls, p)
      PROVE  /\ j \in Nat
             /\ (IF j < at THEN j ELSE j + 1) \in VideosFrom(new, p)
  <2>1. j \in 1..Len(ls) /\ j >= p /\ IsVideoLine(ls[j])
    BY <1>1 DEF VideosFrom
  <2>2. CASE j < at
    <3>1. j \in 1..(at - 1) /\ j \in 1..(Len(ls) + 1)
      BY <1>1, <2>1, <2>2
    <3>2. new[j] = ls[j]
      BY <1>2, <3>1
    <3>3. QED
      BY <1>3, <2>1, <2>2, <3>1, <3>2 DEF VideosFrom
  <2>3. CASE ~(j < at)
    <3>1. j \in at..Len(ls) /\ j + 1 \in 1..(Len(ls) + 1) /\ j + 1 >= p
      BY <1>1, <2>1, <2>3
    <3>2. new[j + 1] = ls[j]
      BY <1>2, <3>1
    <3>3. QED
      BY <1>3, <2>1, <2>3, <3>1, <3>2 DEF VideosFrom
  <2>4. QED
    BY <2>2, <2>3
<1>5. ASSUME NEW k \in VideosFrom(new, p)
      PROVE  \E j \in VideosFrom(ls, p) : (IF j < at THEN j ELSE j + 1) = k
  <2>1. k \in 1..(Len(ls) + 1) /\ k >= p /\ IsVideoLine(new[k])
    BY <1>3 DEF VideosFrom
  <2>2. k # at
    BY <1>2, <2>1 DEF IsVideoLine
  <2>3. CASE k < at
    <3>1. k \in 1..(at - 1) /\ k \in 1..Len(ls)
      BY <1>1, <2>1, <2>3
    <3>2. new[k] = ls[k]
      BY <1>2, <3>1
    <3>3. k \in VideosFrom(ls, p)
      BY <1>1, <2>1, <3>1, <3>2 DEF VideosFrom
    <3>4. QED
      BY <2>3, <3>3
  <2>4. CASE k > at
    <3>1. /\ k - 1 \in at..Len(ls) /\ k - 1 \in 1..Len(ls) /\ k - 1 >= p
          /\ (k - 1) + 1 = k /\ ~(k - 1 < at)
      BY <1>1, <2>1, <2>4
    <3>2. new[(k - 1) + 1] = ls[k - 1]
      BY <1>2, <3>1
    <3>3. k - 1 \in VideosFrom(ls, p)
      BY <1>1, <2>1, <3>1, <3>2 DEF VideosFrom
    <3>4. QED
      BY <3>1, <3>3
  <2>5. QED
    BY <1>1, <2>1, <2>2, <2>3, <2>4
<1>6. shift \in Bijection(VideosFrom(ls, p), VideosFrom(new, p))
  <2>1. shift \in [VideosFrom(ls, p) -> VideosFrom(new, p)]
    BY <1>4
  <2>2. \A i, j \in VideosFrom(ls, p) : shift[i] = shift[j] => i = j
    BY <1>1, <1>4
  <2>3. \A k \in VideosFrom(new, p) : \E j \in VideosFrom(ls, p) : shift[j] = k
    BY <1>5
  <2> HIDE DEF shift
  <2>4. QED
    BY <2>1, <2>2, <2>3, Fun_IsBij
<1>7. ExistsBijection(VideosFrom(ls, p), VideosFrom(new, p))
  BY <1>6 DEF ExistsBijection
<1>8. QED
  BY <1>7, VideosFinite, FS_Bijection DEF new

-----------------------------------------------------------------------------
(* The places in a section *)

\* The text ends with its one empty string.
Framed(ls) ==
    ls # <<>> /\ \A j \in DOMAIN ls : ls[j] = Blank <=> j = Len(ls)

\* Only lines that open no section are between the m= line and the end.
LEMMA SectionEndBounds ==
    ASSUME NEW L, NEW ls \in Seq(L), NEW i \in 1..Len(ls)
    PROVE  /\ SectionEnd(ls, i) \in (i + 1)..(Len(ls) + 1)
           /\ \A j \in (i + 1)..(SectionEnd(ls, i) - 1) : ~IsMedia(ls[j])
<1> DEFINE starts == {j \in (i + 1)..Len(ls) : IsMedia(ls[j])}
           S == starts \union {Len(ls) + 1}
           e == Min(S)
<1>1. Len(ls) \in Nat /\ i \in Nat /\ 1 <= i /\ i <= Len(ls)
  OBVIOUS
<1>2. S \subseteq (i + 1)..(Len(ls) + 1) /\ S \subseteq Nat /\ S # {}
  BY <1>1
<1>3. SectionEnd(ls, i) = e
  BY DEF SectionEnd
<1> HIDE DEF S, e
<1>4. e \in S /\ \A y \in S : e <= y
  BY <1>2, MinIsLeast DEF e
<1>5. e \in (i + 1)..(Len(ls) + 1)
  BY <1>2, <1>4
<1>6. ASSUME NEW j \in (i + 1)..(e - 1) PROVE ~IsMedia(ls[j])
  <2>1. j \in (i + 1)..Len(ls) /\ ~(e <= j)
    BY <1>1, <1>5
  <2>2. j \notin S
    BY <1>4, <2>1
  <2>3. QED
    BY <2>1, <2>2 DEF S
<1>7. QED
  BY <1>3, <1>5, <1>6

\* A line for the end of a section goes into the section, behind its m= line,
\* and never behind the empty string that ends the text.
LEMMA InsertPlaceBounds ==
    ASSUME NEW L, NEW ls \in Seq(L), NEW i \in 1..Len(ls), IsMedia(ls[i]),
           NEW at \in (i + 1)..(Len(ls) + 1)
    PROVE  /\ InsertPlace(ls, at) \in (i + 1)..at
           /\ Framed(ls) => InsertPlace(ls, at) <= Len(ls)
<1>1. Len(ls) \in Nat /\ i \in Nat /\ at \in Nat /\ i < at /\ at <= Len(ls) + 1
  OBVIOUS
<1>2. ls[i] # Blank
  BY MediaNotBlank
<1>3. ls[Len(ls)] = Blank => Len(ls) # i
  BY <1>2
<1>4. Framed(ls) => ls[Len(ls)] = Blank
  BY DEF Framed
<1>5. QED
  BY <1>1, <1>3, <1>4 DEF InsertPlace

\* What is put in before the empty string leaves it the last.
LEMMA InsertKeepsFrame ==
    ASSUME NEW L, NEW ls \in Seq(L), NEW at \in 1..(Len(ls) + 1), NEW e \in L
    PROVE  Framed(ls) /\ at <= Len(ls) /\ e # Blank =>
             Framed(InsertAt(ls, at, e))
<1> DEFINE new == InsertAt(ls, at, e)
<1>1. Len(ls) \in Nat /\ at \in Nat /\ 1 <= at /\ DOMAIN ls = 1..Len(ls)
  OBVIOUS
<1>2. /\ new \in Seq(L) /\ Len(new) = Len(ls) + 1 /\ new[at] = e
      /\ \A i \in 1..(at - 1) : new[i] = ls[i]
      /\ \A i \in at..Len(ls) : new[i + 1] = ls[i]
  BY Inserted
<1> HIDE DEF new
<1> SUFFICES ASSUME Framed(ls), at <= Len(ls), e # Blank
             PROVE  Framed(new)
  BY DEF new
<1>3. new # <<>> /\ DOMAIN new = 1..(Len(ls) + 1)
  BY <1>1, <1>2
<1>4. ASSUME NEW j \in 1..(Len(ls) + 1)
      PROVE  new[j] = Blank <=> j = Len(ls) + 1
  <2>1. CASE j < at
    <3>1. /\ j \in Nat /\ 1 <= j /\ j < at /\ at <= Len(ls)
          /\ at \in Nat /\ Len(ls) \in Nat
      BY <1>1, <2>1
    <3>2. j \in 1..(at - 1) /\ j \in 1..Len(ls)
      BY <3>1
    <3>3. j # Len(ls) /\ j # Len(ls) + 1
      BY <3>1
    <3>4. QED
      BY <1>1, <1>2, <3>2, <3>3 DEF Framed
  <2>2. CASE j = at
    BY <1>1, <1>2, <2>2
  <2>3. CASE j > at
    <3>1. /\ j - 1 \in at..Len(ls) /\ j - 1 \in 1..Len(ls) /\ (j - 1) + 1 = j
          /\ j - 1 = Len(ls) <=> j = Len(ls) + 1
      BY <1>1, <2>3
    <3>2. new[j] = ls[j - 1]
      BY <1>2, <3>1
    <3>3. QED
      BY <1>1, <3>1, <3>2 DEF Framed
  <2>4. QED
    BY <1>1, <2>1, <2>2, <2>3
<1>5. QED
  BY <1>2, <1>3, <1>4 DEF Framed

-----------------------------------------------------------------------------
(* What is offered *)

\* The rtpmap line is a line of the section's body, or none.
LEMMA OfferedPayloadNoMedia ==
    ASSUME NEW section, IsSection(section)
    PROVE  ~IsMedia(OfferedPayload(section).rtpmap)
<1> DEFINE formats == Formats(section[1])
           selected == IF "102" \in Range(formats) THEN "102" ELSE Head(formats)
           places == {i \in 2..Len(section) : MapsPayload(section[i], selected)}
           found == IF places = {} THEN Blank ELSE section[Min(places)]
<1>1. OfferedPayload(section) =
        IF formats = <<>> THEN NoPayload
        ELSE [payload |-> selected, rtpmap |-> found]
  BY DEF OfferedPayload, FirstLine
<1> HIDE DEF formats, selected
<1>2. ~IsMedia(found)
  <2>1. CASE places = {}
    BY <2>1, MediaNotBlank
  <2>2. CASE places # {}
    <3>1. Len(section) \in Nat
      BY DEF IsSection
    <3>2. places \subseteq Nat
      BY <3>1
    <3>3. Min(places) \in places
      BY <2>2, <3>2, MinIsLeast
    <3>4. MapsPayload(section[Min(places)], selected)
      BY <3>3
    <3> HIDE DEF places
    <3>5. QED
      BY <2>2, <3>4 DEF MapsPayload, IsAttr, IsMedia
  <2>3. QED
    BY <2>1, <2>2
<1> HIDE DEF found
<1>3. NoPayload.rtpmap = Blank
  BY DEF NoPayload
<1>4. QED
  BY <1>1, <1>2, <1>3, MediaNotBlank

-----------------------------------------------------------------------------
(* One video section *)

\* A line for the section at i comes behind its m= line and changes nothing in
\* the sections after it.  If it is for the end of the section, the line behind
\* the m= line is no m= line afterwards.
LEMMA InsertInSection ==
    ASSUME NEW L, NEW ls \in Seq(L), NEW i \in 1..Len(ls), IsMedia(ls[i]),
           NEW at \in (i + 1)..(Len(ls) + 1), NEW e \in L, ~IsMedia(e)
    PROVE  LET new == InsertAt(ls, InsertPlace(ls, at), e)
           IN  /\ new \in Seq(L) /\ i \in 1..Len(new) /\ new[i] = ls[i]
               /\ Cardinality(VideosFrom(new, i + 1)) =
                    Cardinality(VideosFrom(ls, i + 1))
               /\ Framed(ls) /\ e # Blank => Framed(new)
               /\ (\A j \in (i + 1)..(at - 1) : ~IsMedia(ls[j])) =>
                    ~IsMedia(new[i + 1])
<1> DEFINE place == InsertPlace(ls, at)
           new == InsertAt(ls, place, e)
<1>1. place \in (i + 1)..at /\ (Framed(ls) => place <= Len(ls))
  BY InsertPlaceBounds
<1> HIDE DEF place
<1>2. /\ Len(ls) \in Nat /\ i \in Nat /\ 1 <= i /\ i <= Len(ls)
      /\ at \in Nat /\ at <= Len(ls) + 1
      /\ place \in Nat /\ i + 1 <= place /\ place <= at
  BY <1>1
<1>3. /\ place \in 1..(Len(ls) + 1) /\ i \in 1..(place - 1)
      /\ i + 1 \in 1..place
  BY <1>2
<1>4. /\ new \in Seq(L) /\ Len(new) = Len(ls) + 1 /\ new[place] = e
      /\ \A j \in 1..(place - 1) : new[j] = ls[j]
  BY <1>3, Inserted
<1>5. Cardinality(VideosFrom(new, i + 1)) = Cardinality(VideosFrom(ls, i + 1))
  BY <1>3, InsertKeepsVideos
<1>6. Framed(ls) /\ e # Blank => Framed(new)
  BY <1>1, <1>3, InsertKeepsFrame
<1> HIDE DEF new
<1>7. i \in 1..Len(new) /\ new[i] = ls[i]
  BY <1>2, <1>3, <1>4
<1>8. ASSUME \A j \in (i + 1)..(at - 1) : ~IsMedia(ls[j])
      PROVE  ~IsMedia(new[i + 1])
  <2>1. CASE place = i + 1
    BY <1>4, <2>1
  <2>2. CASE place # i + 1
    <3>1. i + 1 \in 1..(place - 1) /\ i + 1 \in (i + 1)..(at - 1)
      BY <1>2, <2>2
    <3>2. QED
      BY <1>4, <1>8, <3>1
  <2>3. QED
    BY <2>1, <2>2
<1>9. QED
  BY <1>4, <1>5, <1>6, <1>7, <1>8 DEF new, place

\* normalizeAlexaRejectedVideoMLine changes only the line at i.
LEMMA EchoedLines ==
    ASSUME NEW L, NEW ls \in Seq(L), NEW i \in 1..Len(ls), IsMedia(ls[i]),
           NEW m \in L, IsMedia(m)
    PROVE  LET new == ReplaceAt(ls, i, m)
           IN  /\ new \in Seq(L) /\ i \in 1..Len(new) /\ new[i] = m
               /\ VideosFrom(new, i + 1) = VideosFrom(ls, i + 1)
               /\ Framed(ls) => Framed(new)
<1> DEFINE new == ReplaceAt(ls, i, m)
<1>1. /\ new \in Seq(L) /\ Len(new) = Len(ls)
      /\ \A j \in 1..Len(ls) : new[j] = IF j = i THEN m ELSE ls[j]
  BY DEF ReplaceAt
<1> HIDE DEF new
<1>2. DOMAIN new = 1..Len(ls) /\ DOMAIN ls = 1..Len(ls) /\ Len(ls) \in Nat
  BY <1>1
<1>3. VideosFrom(new, i + 1) = VideosFrom(ls, i + 1)
  BY <1>1, <1>2 DEF VideosFrom
<1>4. ls[i] # Blank /\ m # Blank
  BY MediaNotBlank
<1>5. ASSUME Framed(ls) PROVE Framed(new)
  <2>1. \A j \in 1..Len(ls) : ls[j] = Blank <=> j = Len(ls)
    BY <1>2, <1>5 DEF Framed
  <2>2. \A j \in 1..Len(ls) : new[j] = Blank <=> j = Len(ls)
    BY <1>1, <1>4, <2>1
  <2>3. new # <<>>
    BY <1>1, <1>2
  <2>4. QED
    BY <1>1, <1>2, <2>2, <2>3 DEF Framed
<1>6. i \in 1..Len(new) /\ new[i] = m
  BY <1>1
<1>7. QED
  BY <1>1, <1>3, <1>5, <1>6 DEF new

LEMMA InactiveIsLine == ~IsMedia(Inactive) /\ Inactive # Blank
<1>1. Inactive.kind = "a" /\ Blank.kind = ""
  BY DEF Inactive, Attr, Blank, Line
<1>2. "a" # "m" /\ "a" # ""
  OBVIOUS
<1>3. QED
  BY <1>1, <1>2 DEF IsMedia

LEMMA DirectionIsLine ==
    ASSUME NEW line \in Directions
    PROVE  ~IsMedia(line) /\ line # Blank
<1>1. line.kind = "a" /\ Blank.kind = ""
  BY DEF Directions, Attr, Blank, Line
<1>2. "a" # "m" /\ "a" # ""
  OBVIOUS
<1>3. QED
  BY <1>1, <1>2 DEF IsMedia

\* Turning directions off moves no line.
LEMMA DirectionsOffLines ==
    ASSUME NEW L, NEW ls \in Seq(L), NEW i \in 1..Len(ls), Inactive \in L
    PROVE  LET new == DirectionsOff(ls, i)
           IN  /\ new \in Seq(L) /\ Len(new) = Len(ls)
               /\ \A j \in 1..Len(ls) : IsMedia(new[j]) <=> IsMedia(ls[j])
               /\ VideosFrom(new, i + 1) = VideosFrom(ls, i + 1)
               /\ Framed(ls) => Framed(new)
<1> DEFINE off(j) == j \in InSection(ls, i) /\ ls[j] \in Directions
           new == DirectionsOff(ls, i)
<1>1. DOMAIN ls = 1..Len(ls) /\ Len(ls) \in Nat
  OBVIOUS
<1>2. new = [j \in DOMAIN ls |-> IF off(j) THEN Inactive ELSE ls[j]]
  BY DEF DirectionsOff
<1>3. \A j \in 1..Len(ls) : off(j) => ~IsMedia(ls[j]) /\ ls[j] # Blank
  BY DirectionIsLine
<1> HIDE DEF off, new
<1>4. new \in [1..Len(ls) -> L]
  BY <1>1, <1>2
<1>5. new \in Seq(L) /\ Len(new) = Len(ls) /\ DOMAIN new = 1..Len(ls)
  BY <1>1, <1>4
<1>6. \A j \in 1..Len(ls) :
        /\ IsMedia(new[j]) <=> IsMedia(ls[j])
        /\ IsVideoLine(new[j]) <=> IsVideoLine(ls[j])
        /\ new[j] = Blank <=> ls[j] = Blank
  BY <1>1, <1>2, <1>3, InactiveIsLine DEF IsVideoLine
<1>7. VideosFrom(new, i + 1) = VideosFrom(ls, i + 1)
  BY <1>1, <1>5, <1>6 DEF VideosFrom
<1>8. ASSUME Framed(ls) PROVE Framed(new)
  <2>1. ls # <<>> /\ \A j \in 1..Len(ls) : ls[j] = Blank <=> j = Len(ls)
    BY <1>1, <1>8 DEF Framed
  <2>2. \A j \in 1..Len(ls) : new[j] = Blank <=> j = Len(ls)
    BY <1>6, <2>1
  <2>3. Len(ls) # 0
    BY <1>1
  <2>4. new # <<>>
    BY <1>5, <2>3
  <2>5. QED
    BY <1>5, <2>2, <2>4 DEF Framed
<1>9. QED
  BY <1>5, <1>6, <1>7, <1>8 DEF new

\* The offered rtpmap line goes into the section, if at all.
LEMMA WithRtpmapLines ==
    ASSUME NEW L, NEW ls \in Seq(L), NEW i \in 1..Len(ls), IsMedia(ls[i]),
           NEW offered, offered.rtpmap \in L, ~IsMedia(offered.rtpmap)
    PROVE  LET new == WithRtpmap(ls, i, offered)
           IN  /\ new \in Seq(L) /\ i \in 1..Len(new) /\ new[i] = ls[i]
               /\ Cardinality(VideosFrom(new, i + 1)) =
                    Cardinality(VideosFrom(ls, i + 1))
               /\ Framed(ls) => Framed(new)
<1> DEFINE end == SectionEnd(ls, i)
           attrs == {j \in (i + 1)..(end - 1) : ls[j].kind = "a"}
           at == Min(attrs \union {end})
           new == WithRtpmap(ls, i, offered)
<1>1. \/ new = ls
      \/ /\ offered.rtpmap # Blank
         /\ new = InsertAt(ls, InsertPlace(ls, at), offered.rtpmap)
  BY DEF WithRtpmap, HasLine
<1>2. end \in (i + 1)..(Len(ls) + 1)
  BY SectionEndBounds
<1> HIDE DEF end, new
<1>3. at \in (i + 1)..(Len(ls) + 1)
  <2>1. Len(ls) \in Nat /\ i \in Nat
    OBVIOUS
  <2>2. /\ attrs \union {end} \subseteq (i + 1)..(Len(ls) + 1)
        /\ attrs \union {end} \subseteq Nat /\ attrs \union {end} # {}
    BY <1>2, <2>1
  <2> HIDE DEF attrs
  <2>3. at \in attrs \union {end}
    BY <2>2, MinIsLeast
  <2>4. QED
    BY <2>2, <2>3
<1> HIDE DEF at
<1>4. CASE new = ls
  BY <1>4 DEF new
<1>5. CASE /\ offered.rtpmap # Blank
           /\ new = InsertAt(ls, InsertPlace(ls, at), offered.rtpmap)
  BY <1>3, <1>5, InsertInSection DEF new
<1>6. QED
  BY <1>1, <1>4, <1>5

\* One iteration: it goes on behind the section's m= line, in front of as many
\* video sections as there were behind it.
LEMMA VideoTurn ==
    ASSUME NEW L, NEW ls \in Seq(L), NEW i \in 1..Len(ls), IsVideoLine(ls[i]),
           NEW offered, ~IsMedia(offered.rtpmap)
    PROVE  LET next == VideoSection(ls, i, offered)
           IN  /\ \E T : next[1] \in Seq(T)
               /\ i \in 1..Len(next[1]) /\ IsMedia(next[1][i])
               /\ next[2] \in {i + 1, i + 2}
               /\ Cardinality(VideosFrom(next[1], next[2])) =
                    Cardinality(VideosFrom(ls, i + 1))
               /\ Framed(ls) => Framed(next[1])
<1> DEFINE m == Media("video", "0", <<offered.payload>>)
           T == L \union {m, offered.rtpmap, Inactive}
           echoed == ReplaceAt(ls, i, m)
           mapped == WithRtpmap(echoed, i, offered)
           at == SectionEnd(mapped, i)
           off == DirectionsOff(mapped, i)
           added == InsertAt(mapped, InsertPlace(mapped, at), Inactive)
           next == VideoSection(ls, i, offered)
<1>1. \/ next = <<ls, i + 1>>
      \/ next = <<off, i + 1>>
      \/ next = <<added, i + 2>>
  BY DEF VideoSection, AfterInsert
<1>2. m \in T /\ offered.rtpmap \in T /\ Inactive \in T
  OBVIOUS
<1>3. IsMedia(m) /\ IsMedia(ls[i])
  BY DEF IsMedia, Media, Line, IsVideoLine
<1> HIDE DEF m
<1>4. ls \in Seq(T)
  BY SeqMonotonic
<1> HIDE DEF T
<1>5. /\ echoed \in Seq(T) /\ i \in 1..Len(echoed) /\ echoed[i] = m
      /\ VideosFrom(echoed, i + 1) = VideosFrom(ls, i + 1)
      /\ Framed(ls) => Framed(echoed)
  BY <1>2, <1>3, <1>4, EchoedLines
<1> HIDE DEF echoed
<1>6. /\ mapped \in Seq(T) /\ i \in 1..Len(mapped) /\ mapped[i] = m
      /\ Cardinality(VideosFrom(mapped, i + 1)) =
           Cardinality(VideosFrom(ls, i + 1))
      /\ Framed(ls) => Framed(mapped)
  BY <1>2, <1>3, <1>5, WithRtpmapLines
<1> HIDE DEF mapped
<1>7. /\ at \in (i + 1)..(Len(mapped) + 1)
      /\ \A j \in (i + 1)..(at - 1) : ~IsMedia(mapped[j])
  BY <1>6, SectionEndBounds
<1> HIDE DEF at
<1>8. /\ off \in Seq(T) /\ VideosFrom(off, i + 1) = VideosFrom(mapped, i + 1)
      /\ Framed(ls) => Framed(off)
      /\ i \in 1..Len(off) /\ IsMedia(off[i])
  <2>1. /\ off \in Seq(T) /\ Len(off) = Len(mapped)
        /\ \A j \in 1..Len(mapped) : IsMedia(off[j]) <=> IsMedia(mapped[j])
        /\ VideosFrom(off, i + 1) = VideosFrom(mapped, i + 1)
        /\ Framed(mapped) => Framed(off)
    BY <1>2, <1>6, DirectionsOffLines
  <2> HIDE DEF off
  <2>2. QED
    BY <1>3, <1>6, <2>1
<1>9. /\ added \in Seq(T) /\ ~IsMedia(added[i + 1])
      /\ i \in 1..Len(added) /\ IsMedia(added[i])
      /\ Cardinality(VideosFrom(added, i + 1)) =
           Cardinality(VideosFrom(mapped, i + 1))
      /\ Framed(ls) => Framed(added)
  <2>1. IsMedia(mapped[i])
    BY <1>3, <1>6
  <2>2. ~IsMedia(Inactive) /\ Inactive # Blank
    BY InactiveIsLine
  <2>3. /\ added \in Seq(T) /\ i \in 1..Len(added) /\ added[i] = mapped[i]
        /\ Cardinality(VideosFrom(added, i + 1)) =
             Cardinality(VideosFrom(mapped, i + 1))
        /\ Framed(mapped) /\ Inactive # Blank => Framed(added)
        /\ (\A j \in (i + 1)..(at - 1) : ~IsMedia(mapped[j])) =>
             ~IsMedia(added[i + 1])
    BY <1>2, <1>6, <1>7, <2>1, <2>2, InsertInSection
  <2> HIDE DEF added
  <2>4. QED
    BY <1>6, <1>7, <2>1, <2>2, <2>3
<1> HIDE DEF off, added
<1>10. VideosFrom(added, i + 2) = VideosFrom(added, i + 1)
  <2>1. DOMAIN added = 1..Len(added) /\ Len(added) \in Nat /\ i \in Nat
    BY <1>9
  <2>2. \A j \in 1..Len(added) :
          j >= i + 1 /\ IsVideoLine(added[j]) => j >= i + 2
    BY <1>9, <2>1 DEF IsVideoLine
  <2>3. \A j \in 1..Len(added) : j >= i + 2 => j >= i + 1
    BY <2>1
  <2>4. QED
    BY <2>1, <2>2, <2>3 DEF VideosFrom
<1> HIDE DEF next
<1>11. CASE next = <<ls, i + 1>>
  <2>1. next[1] = ls /\ next[2] = i + 1
    BY <1>11
  <2>2. QED
    BY <1>3, <1>4, <2>1 DEF next
<1>12. CASE next = <<off, i + 1>>
  <2>1. next[1] = off /\ next[2] = i + 1
    BY <1>12
  <2>2. QED
    BY <1>6, <1>8, <2>1 DEF next
<1>13. CASE next = <<added, i + 2>>
  <2>1. next[1] = added /\ next[2] = i + 2
    BY <1>13
  <2>2. QED
    BY <1>6, <1>9, <1>10, <2>1 DEF next
<1>14. QED
  BY <1>1, <1>11, <1>12, <1>13

-----------------------------------------------------------------------------
(* The sections of a text *)

\* Lines in front of a text that ends with its one empty string.
LEMMA JoinedFramed ==
    ASSUME NEW L, NEW p \in Seq(L), NEW q \in Seq(L),
           \A j \in 1..Len(p) : p[j] # Blank, Framed(q)
    PROVE  p \o q \in Seq(L) /\ Framed(p \o q)
<1> DEFINE text == p \o q
<1>1. /\ text \in Seq(L) /\ Len(text) = Len(p) + Len(q)
      /\ \A i \in 1..Len(p) : text[i] = p[i]
      /\ \A i \in 1..Len(q) : text[Len(p) + i] = q[i]
  BY Joined
<1>2. Len(p) \in Nat /\ Len(q) \in Nat /\ Len(q) # 0
  BY DEF Framed
<1>3. \A j \in 1..Len(q) : q[j] = Blank <=> j = Len(q)
  BY DEF Framed
<1> HIDE DEF text
<1>4. text # <<>> /\ DOMAIN text = 1..(Len(p) + Len(q))
  BY <1>1, <1>2
<1>5. ASSUME NEW j \in 1..(Len(p) + Len(q))
      PROVE  text[j] = Blank <=> j = Len(p) + Len(q)
  <2>1. CASE j <= Len(p)
    <3>1. j \in 1..Len(p) /\ j # Len(p) + Len(q)
      BY <1>2, <2>1
    <3>2. QED
      BY <1>1, <3>1
  <2>2. CASE ~(j <= Len(p))
    <3>1. /\ j - Len(p) \in 1..Len(q) /\ Len(p) + (j - Len(p)) = j
          /\ j - Len(p) = Len(q) <=> j = Len(p) + Len(q)
      BY <1>2, <2>2
    <3>2. text[j] = q[j - Len(p)]
      BY <1>1, <3>1
    <3>3. QED
      BY <1>3, <3>1, <3>2
  <2>3. QED
    BY <2>1, <2>2
<1>6. Framed(text)
  BY <1>1, <1>4, <1>5 DEF Framed
<1>7. QED
  BY <1>1, <1>6 DEF text

\* Sections of the lines in L: each has one at least.
NonEmpty(L) == {section \in Seq(L) : section # <<>>}

\* A line more: once there is a section, there is one for good.
LEMMA WithLineSections ==
    ASSUME NEW L, NEW line \in L, NEW sections \in Seq(NonEmpty(L))
    PROVE  /\ WithLine(sections, line) \in Seq(NonEmpty(L))
           /\ IsMedia(line) \/ sections # <<>> =>
                WithLine(sections, line) # <<>>
<1> DEFINE new == WithLine(sections, line)
<1>1. <<line>> \in NonEmpty(L)
  BY DEF NonEmpty
<1>2. CASE IsMedia(line)
  <2>1. new = Append(sections, <<line>>)
    BY <1>2 DEF WithLine
  <2> HIDE DEF new
  <2>2. new \in Seq(NonEmpty(L)) /\ new # <<>>
    BY <1>1, <2>1
  <2>3. QED
    BY <2>2 DEF new
<1>3. CASE ~IsMedia(line) /\ sections = <<>>
  BY <1>3 DEF WithLine
<1>4. CASE ~IsMedia(line) /\ sections # <<>>
  <2> DEFINE longer == Append(Last(sections), line)
  <2>1. Len(sections) \in 1..Len(sections) /\ Last(sections) \in NonEmpty(L)
    BY <1>4 DEF Last
  <2>2. longer \in NonEmpty(L)
    BY <2>1 DEF NonEmpty
  <2>3. Front(sections) \in Seq(NonEmpty(L))
    BY DEF Front
  <2>4. new = Append(Front(sections), longer)
    BY <1>4 DEF WithLine
  <2> HIDE DEF new, longer
  <2>5. new \in Seq(NonEmpty(L)) /\ new # <<>>
    BY <2>2, <2>3, <2>4
  <2>6. QED
    BY <2>5 DEF new
<1>5. QED
  BY <1>2, <1>3, <1>4

\* The sections after each line of ls.
Sectioning(ls, upTo) ==
    upTo = [n \in 0..Len(ls) |->
              IF n = 0 THEN <<>> ELSE WithLine(upTo[n - 1], ls[n])]

\* Sections is the last value of such a function, which is well defined.
LEMMA SectionsAreBuilt ==
    ASSUME NEW L, NEW ls \in Seq(L)
    PROVE  \E upTo : Sectioning(ls, upTo) /\ Sections(ls) = upTo[Len(ls)]
<1> DEFINE S == Seq(NonEmpty(L))
           step == [n \in 1..Len(ls) |->
                      [sections \in S |-> WithLine(sections, ls[n])]]
<1>1. Len(ls) \in Nat /\ <<>> \in S
  OBVIOUS
<1>2. step \in [1..Len(ls) -> [S -> S]]
  <2>1. ASSUME NEW n \in 1..Len(ls), NEW sections \in S
        PROVE  WithLine(sections, ls[n]) \in S
    <3>1. ls[n] \in L
      OBVIOUS
    <3>2. QED
      BY <3>1, WithLineSections
  <2> HIDE DEF S
  <2>2. QED
    BY <2>1
<1> HIDE DEF step, S
<1>3. Iterable(Len(ls), S, <<>>, step)
  BY <1>1, <1>2, Iteration
<1>4. PICK f \in [0..Len(ls) -> S] :
        f[0] = <<>> /\ \A n \in 1..Len(ls) : f[n] = step[n][f[n - 1]]
  BY <1>3 DEF Iterable
<1>5. ASSUME NEW n \in 1..Len(ls) PROVE f[n] = WithLine(f[n - 1], ls[n])
  <2>1. n - 1 \in 0..Len(ls)
    BY <1>1
  <2>2. f[n - 1] \in S
    BY <1>4, <2>1
  <2>3. QED
    BY <1>4, <2>2 DEF step
<1>6. Sectioning(ls, f)
  BY <1>1, <1>4, <1>5 DEF Sectioning
<1> DEFINE built == CHOOSE upTo : Sectioning(ls, upTo)
<1>7. Sectioning(ls, built)
  BY <1>6
<1>8. Sections(ls) = built[Len(ls)]
  BY DEF Sections, Sectioning
<1>9. QED
  BY <1>7, <1>8

\* The sections of a text with an m= line: of lines that are not empty, but
\* for the empty string that ends the last.
LEMMA FramedSections ==
    ASSUME NEW L, NEW ls \in Seq(L), Framed(ls),
           \E i \in 1..Len(ls) : IsMedia(ls[i])
    PROVE  \E sections \in Seq(NonEmpty(L \ {Blank})) :
             sections # <<>> /\ Sections(ls) = WithLine(sections, Blank)
<1> DEFINE T == L \ {Blank}
           N == Len(ls) - 1
<1>1. /\ Len(ls) \in Nat /\ Len(ls) # 0 /\ N \in Nat /\ N \in 0..N
      /\ Len(ls) = N + 1 /\ Len(ls) \in 1..Len(ls)
  BY DEF Framed
<1>2. ls[Len(ls)] = Blank /\ \A n \in 1..N : ls[n] \in T
  <2>1. \A n \in 1..Len(ls) : ls[n] \in L /\ (ls[n] = Blank <=> n = Len(ls))
    BY DEF Framed
  <2> HIDE DEF N
  <2>2. ASSUME NEW n \in 1..N PROVE ls[n] \in T
    <3>1. n \in 1..Len(ls) /\ n # Len(ls)
      BY <1>1
    <3>2. QED
      BY <2>1, <3>1
  <2>3. QED
    BY <1>1, <2>1, <2>2
<1>3. PICK upTo : Sectioning(ls, upTo) /\ Sections(ls) = upTo[Len(ls)]
  BY SectionsAreBuilt
<1>4. /\ upTo[0] = <<>>
      /\ \A n \in 1..Len(ls) : upTo[n] = WithLine(upTo[n - 1], ls[n])
  BY <1>1, <1>3 DEF Sectioning
<1> HIDE DEF T, N
<1> DEFINE Opened(n) == \E i \in 1..n : IsMedia(ls[i])
           Good == {n \in 0..N : /\ upTo[n] \in Seq(NonEmpty(T))
                                 /\ Opened(n) => upTo[n] # <<>>}
<1>5. 0 \in Good
  <2>1. ~Opened(0) /\ 0 \in 0..N
    BY <1>1
  <2>2. upTo[0] \in Seq(NonEmpty(T))
    BY <1>4
  <2> HIDE DEF Opened
  <2>3. QED
    BY <2>1, <2>2
<1>6. ASSUME NEW n \in 1..N, n - 1 \in Good PROVE n \in Good
  <2>1. n \in 0..N /\ n \in Nat /\ n \in 1..Len(ls) /\ ls[n] \in T
    BY <1>1, <1>2
  <2>2. upTo[n - 1] \in Seq(NonEmpty(T)) /\ (Opened(n - 1) => upTo[n - 1] # <<>>)
    BY <1>6
  <2>3. upTo[n] = WithLine(upTo[n - 1], ls[n])
    BY <1>4, <2>1
  <2>4. Opened(n) => Opened(n - 1) \/ IsMedia(ls[n])
    BY <2>1
  <2> HIDE DEF Opened
  <2>5. /\ upTo[n] \in Seq(NonEmpty(T))
        /\ IsMedia(ls[n]) \/ upTo[n - 1] # <<>> => upTo[n] # <<>>
    BY <2>1, <2>2, <2>3, WithLineSections
  <2>6. QED
    BY <2>1, <2>2, <2>4, <2>5
<1>7. N \in Good
  <2> HIDE DEF Good
  <2>1. \A n \in 0..N : n \in Good
    BY <1>1, <1>5, <1>6, Induction
  <2>2. QED
    BY <1>1, <2>1
<1>8. Opened(N)
  <2>1. PICK i \in 1..Len(ls) : IsMedia(ls[i])
    OBVIOUS
  <2>2. i # Len(ls)
    BY <1>2, <2>1, MediaNotBlank
  <2>3. i \in 1..N
    BY <1>1, <2>2
  <2>4. QED
    BY <2>1, <2>3
<1>9. upTo[Len(ls)] = WithLine(upTo[N], Blank)
  BY <1>1, <1>2, <1>4 DEF N
<1> HIDE DEF Opened
<1>10. QED
  BY <1>3, <1>7, <1>8, <1>9 DEF T

-----------------------------------------------------------------------------
(* The passes after the loop *)

\* A mid goes into its section, before the empty string if it has one.
LEMMA WithMidLines ==
    ASSUME NEW L, NEW section \in Seq(L), NEW offered,
           Attr("mid", <<offered.mid>>) \in L
    PROVE  /\ WithMid(section, offered) \in Seq(L)
           /\ Framed(section) /\ Len(section) > 1 =>
                Framed(WithMid(section, offered))
<1> DEFINE mid == Attr("mid", <<offered.mid>>)
           attrs == {j \in 2..Len(section) : section[j].kind = "a"}
           last == IF Len(section) > 1 /\ section[Len(section)] = Blank
                     THEN Len(section) ELSE Len(section) + 1
           at == IF attrs = {} THEN last ELSE Min(attrs)
           new == WithMid(section, offered)
<1>1. new = section \/ new = InsertAt(section, at, mid)
  BY DEF WithMid
<1>2. Len(section) \in Nat
  OBVIOUS
<1>3. mid # Blank
  <2>1. mid.kind = "a" /\ Blank.kind = ""
    BY DEF Attr, Blank, Line
  <2>2. "a" # ""
    OBVIOUS
  <2>3. QED
    BY <2>1, <2>2
<1>4. Framed(section) => section[Len(section)] = Blank
  BY <1>2 DEF Framed
<1>5. /\ last \in 1..(Len(section) + 1)
      /\ Framed(section) /\ Len(section) > 1 => last <= Len(section)
  BY <1>2, <1>4
<1>6. attrs # {} => Min(attrs) \in 1..(Len(section) + 1) /\ Min(attrs) <= Len(section)
  <2> SUFFICES ASSUME attrs # {}
               PROVE  Min(attrs) \in 1..(Len(section) + 1) /\ Min(attrs) <= Len(section)
    OBVIOUS
  <2>1. attrs \subseteq 2..Len(section) /\ attrs \subseteq Nat
    BY <1>2
  <2> HIDE DEF attrs
  <2> DEFINE least == Min(attrs)
  <2>2. least \in attrs
    BY <2>1, MinIsLeast
  <2> HIDE DEF least
  <2>3. least \in 2..Len(section)
    BY <2>1, <2>2
  <2>4. least \in 1..(Len(section) + 1) /\ least <= Len(section)
    BY <1>2, <2>3
  <2>5. QED
    BY <2>4 DEF least
<1> HIDE DEF mid, attrs, last, new
<1>7. /\ at \in 1..(Len(section) + 1)
      /\ Framed(section) /\ Len(section) > 1 => at <= Len(section)
  BY <1>5, <1>6
<1> HIDE DEF at
<1>8. mid \in L
  BY DEF mid
<1>9. InsertAt(section, at, mid) \in Seq(L)
  BY <1>7, <1>8, Inserted
<1>10. Framed(section) /\ Len(section) > 1 => Framed(InsertAt(section, at, mid))
  BY <1>3, <1>7, <1>8, InsertKeepsFrame
<1>11. QED
  BY <1>1, <1>9, <1>10 DEF new

\* The last of the sections ends with the empty string.
LEMMA LastSection ==
    ASSUME NEW T, \A line \in T : line # Blank,
           NEW section \in NonEmpty(T)
    PROVE  /\ Append(section, Blank) \in Seq(T \union {Blank})
           /\ Framed(Append(section, Blank)) /\ Len(Append(section, Blank)) > 1
<1> DEFINE W == T \union {Blank}
           new == Append(section, Blank)
<1>1. section \in Seq(T) /\ section # <<>>
  BY DEF NonEmpty
<1>2. Len(section) \in Nat /\ Len(section) # 0
  BY <1>1
<1>3. section \in Seq(W) /\ Blank \in W
  BY <1>1, SeqMonotonic
<1>4. \A j \in 1..Len(section) : section[j] # Blank
  BY <1>1
<1> HIDE DEF W
<1>5. /\ new \in Seq(W) /\ Len(new) = Len(section) + 1
      /\ \A j \in 1..Len(section) : new[j] = section[j]
      /\ new[Len(section) + 1] = Blank
  BY <1>2, <1>3
<1> HIDE DEF new
<1>6. new # <<>> /\ DOMAIN new = 1..(Len(section) + 1) /\ Len(new) > 1
  BY <1>2, <1>5
<1>7. ASSUME NEW j \in 1..(Len(section) + 1)
      PROVE  new[j] = Blank <=> j = Len(section) + 1
  <2>1. CASE j = Len(section) + 1
    BY <1>5, <2>1
  <2>2. CASE j # Len(section) + 1
    <3>1. j \in 1..Len(section)
      BY <1>2, <2>2
    <3>2. QED
      BY <1>4, <1>5, <2>2, <3>1
  <2>3. QED
    BY <2>1, <2>2
<1>8. Framed(new)
  BY <1>5, <1>6, <1>7 DEF Framed
<1>9. QED
  BY <1>5, <1>6, <1>8 DEF new, W

\* The lines before the first section.
LEMMA BeforeSectionsLines ==
    ASSUME NEW L, NEW ls \in Seq(L), Framed(ls),
           \E i \in 1..Len(ls) : IsMedia(ls[i])
    PROVE  BeforeSections(ls) \in Seq(L \ {Blank})
<1> DEFINE starts == SectionStarts(ls)
           T == L \ {Blank}
           m == Min(starts)
<1>1. Len(ls) \in Nat /\ DOMAIN ls = 1..Len(ls)
  OBVIOUS
<1>2. starts \subseteq 1..Len(ls) /\ starts \subseteq Nat /\ starts # {}
  BY <1>1 DEF SectionStarts
<1> HIDE DEF starts
<1>3. m \in 1..Len(ls)
  BY <1>2, MinIsLeast
<1>4. BeforeSections(ls) = SubSeq(ls, 1, m - 1)
  BY DEF BeforeSections, starts
<1> HIDE DEF m
<1>5. \A j \in 1..Len(ls) : ls[j] \in L /\ (ls[j] = Blank <=> j = Len(ls))
  BY DEF Framed
<1>6. m \in Nat /\ 1 <= m /\ m <= Len(ls)
  BY <1>1, <1>3
<1>7. ASSUME NEW j \in 1..(m - 1) PROVE ls[j] \in T
  <2>1. j \in Int /\ 1 <= j /\ j <= m - 1
    BY <1>6
  <2>2. j \in 1..Len(ls) /\ j # Len(ls)
    <3> DEFINE n == Len(ls)
    <3>1. n \in Nat /\ m \in Nat /\ m <= n
      BY <1>1, <1>6
    <3> HIDE DEF n
    <3>2. j \in 1..n /\ j # n
      BY <2>1, <3>1
    <3>3. QED
      BY <3>2 DEF n
  <2>3. QED
    BY <1>5, <2>2
<1> HIDE DEF T
<1>8. SubSeq(ls, 1, m - 1) \in Seq(T)
  BY <1>1, <1>6, <1>7
<1>9. QED
  BY <1>4, <1>8 DEF T

\* normalizeAlexaRejectedMediaMIDs leaves the empty string the last.
LEMMA MidsFramed ==
    ASSUME NEW L, lines \in Seq(L), Framed(lines),
           \E i \in 1..Len(lines) : IsMedia(lines[i])
    PROVE  LET text == BeforeSections(lines) \o
                         FlattenSeq(WithMids(Sections(lines)))
           IN  (\E T : text \in Seq(T)) /\ Framed(text)
<1> DEFINE T == L \ {Blank}
           Mid(k) == Attr("mid", <<OfferedMid(offer[k]).mid>>)
           U == (T \union {Mid(k) : k \in DOMAIN offer}) \ {Blank}
           W == U \union {Blank}
           all == Sections(lines)
           new == WithMids(all)
           before == BeforeSections(lines)
<1>1. T \subseteq U /\ U \subseteq W /\ \A line \in U : line # Blank
  OBVIOUS
<1>2. \A k \in DOMAIN offer : Mid(k) \in U /\ Mid(k) \in W
  <2> SUFFICES ASSUME NEW k \in DOMAIN offer PROVE Mid(k) # Blank
    OBVIOUS
  <2>1. Mid(k).kind = "a" /\ Blank.kind = ""
    BY DEF Attr, Blank, Line
  <2>2. "a" # ""
    OBVIOUS
  <2>3. QED
    BY <2>1, <2>2
<1>3. before \in Seq(U)
  <2>1. before \in Seq(T)
    BY BeforeSectionsLines
  <2> HIDE DEF T, U, before
  <2>2. QED
    BY <1>1, <2>1, SeqMonotonic
<1>4. PICK sections \in Seq(NonEmpty(T)) :
        sections # <<>> /\ all = WithLine(sections, Blank)
  BY FramedSections
<1> DEFINE N == Len(sections)
<1>5. N \in Nat /\ N # 0 /\ N \in 1..N
  BY <1>4
<1>6. \A k \in 1..N : sections[k] \in NonEmpty(T)
  BY <1>4
<1>7. /\ Len(all) = N /\ DOMAIN all = 1..N
      /\ \A k \in 1..N : all[k] = IF k = N THEN Append(sections[N], Blank)
                                           ELSE sections[k]
  <2> DEFINE end == Append(sections[N], Blank)
             front == Front(sections)
  <2>1. ~IsMedia(Blank)
    BY MediaNotBlank
  <2>2. all = Append(front, end)
    BY <1>4, <2>1 DEF WithLine, Last
  <2>3. /\ front \in Seq(NonEmpty(T)) /\ Len(front) = N - 1
        /\ \A k \in 1..(N - 1) : front[k] = sections[k]
    <3> DEFINE E == NonEmpty(T)
    <3>1. sections \in Seq(E) /\ \A k \in 1..N : sections[k] \in E
      BY <1>6
    <3> HIDE DEF E
    <3>2. N - 1 \in Nat /\ N - 1 <= N /\ N = Len(sections)
      BY <1>5
    <3>3. front = SubSeq(sections, 1, N - 1)
      BY DEF Front
    <3> HIDE DEF front, N
    <3>4. \A k \in 1..(N - 1) : sections[k] \in E
      BY <3>1, <3>2
    <3>5. front \in Seq(E)
      BY <3>2, <3>3, <3>4
    <3>6. Len(front) = N - 1
      BY <3>1, <3>2, <3>3
    <3>7. \A k \in 1..(N - 1) : front[k] = sections[k]
      BY <3>1, <3>2, <3>3
    <3>8. QED
      BY <3>5, <3>6, <3>7 DEF E
  <2> HIDE DEF front, end, all, N
  <2>4. /\ Len(all) = N /\ DOMAIN all = 1..N /\ all[N] = end
        /\ \A k \in 1..(N - 1) : all[k] = front[k]
    BY <1>5, <2>2, <2>3
  <2>5. ASSUME NEW k \in 1..N
        PROVE  all[k] = IF k = N THEN end ELSE sections[k]
    <3>1. k # N => k \in 1..(N - 1)
      BY <1>5
    <3>2. QED
      BY <2>3, <2>4, <3>1
  <2>6. QED
    BY <2>4, <2>5 DEF end
<1> HIDE DEF U, W, all, N, before, Mid, T
<1>8. /\ DOMAIN new = 1..N
      /\ \A k \in 1..N : new[k] = IF k \in DOMAIN offer
                                    THEN WithMid(all[k], OfferedMid(offer[k]))
                                    ELSE all[k]
  BY <1>7 DEF WithMids
<1>9. new = [k \in 1..N |-> new[k]]
  BY <1>7 DEF WithMids
<1> HIDE DEF new
<1>10. ASSUME NEW k \in 1..(N - 1) PROVE new[k] \in Seq(U)
  <2>1. k \in 1..N /\ k # N
    BY <1>5
  <2>2. all[k] \in Seq(U)
    <3>1. all[k] \in Seq(T)
      BY <1>6, <1>7, <2>1 DEF NonEmpty
    <3>2. QED
      BY <1>1, <3>1, SeqMonotonic
  <2>3. CASE k \in DOMAIN offer
    <3>1. Attr("mid", <<OfferedMid(offer[k]).mid>>) \in U
      BY <1>2, <2>3 DEF Mid
    <3>2. WithMid(all[k], OfferedMid(offer[k])) \in Seq(U)
      BY <2>2, <3>1, WithMidLines
    <3>3. QED
      BY <1>8, <2>1, <2>3, <3>2
  <2>4. CASE k \notin DOMAIN offer
    BY <1>8, <2>1, <2>2, <2>4
  <2>5. QED
    BY <2>3, <2>4
<1>11. new[N] \in Seq(W) /\ Framed(new[N])
  <2>1. sections[N] \in NonEmpty(U)
    <3>1. sections[N] \in Seq(T) /\ sections[N] # <<>>
      BY <1>5, <1>6 DEF NonEmpty
    <3>2. QED
      BY <1>1, <3>1, SeqMonotonic DEF NonEmpty
  <2>2. all[N] = Append(sections[N], Blank)
    BY <1>5, <1>7
  <2>3. all[N] \in Seq(W) /\ Framed(all[N]) /\ Len(all[N]) > 1
    BY <1>1, <2>1, <2>2, LastSection DEF W
  <2>4. CASE N \in DOMAIN offer
    <3>1. Attr("mid", <<OfferedMid(offer[N]).mid>>) \in W
      BY <1>2, <2>4 DEF Mid
    <3>2. /\ WithMid(all[N], OfferedMid(offer[N])) \in Seq(W)
          /\ Framed(WithMid(all[N], OfferedMid(offer[N])))
      BY <2>3, <3>1, WithMidLines
    <3>3. QED
      BY <1>5, <1>8, <2>4, <3>2
  <2>5. CASE N \notin DOMAIN offer
    BY <1>5, <1>8, <2>3, <2>5
  <2>6. QED
    BY <2>4, <2>5
<1>12. new \in Seq(Seq(W)) /\ Len(new) = N
  <2>1. ASSUME NEW k \in 1..N PROVE new[k] \in Seq(W)
    <3>1. CASE k = N
      BY <1>11, <3>1
    <3>2. CASE k # N
      <4>1. k \in 1..(N - 1)
        BY <1>5, <3>2
      <4>2. QED
        BY <1>1, <1>10, <4>1, SeqMonotonic
    <3>3. QED
      BY <3>1, <3>2
  <2>2. new \in [1..N -> Seq(W)]
    BY <1>9, <2>1
  <2>3. QED
    BY <1>5, <2>2
<1> DEFINE flat == FlattenSeq(new)
<1>13. PICK first \in Seq(U) : flat = first \o new[N]
  BY <1>5, <1>10, <1>12, FlattenSeqEnd
<1> HIDE DEF flat
<1>14. ASSUME NEW p \in Seq(U)
       PROVE  p \in Seq(W) /\ \A j \in 1..Len(p) : p[j] # Blank
  <2>1. p \in Seq(W)
    BY <1>1, SeqMonotonic
  <2>2. QED
    BY <1>1, <2>1
<1>15. flat \in Seq(W) /\ Framed(flat)
  BY <1>11, <1>13, <1>14, JoinedFramed
<1>16. before \o flat \in Seq(W) /\ Framed(before \o flat)
  BY <1>3, <1>14, <1>15, JoinedFramed
<1>17. QED
  BY <1>16 DEF before, flat, new, all

\* normalizeAlexaRTCPMuxCandidates removes only lines that are not empty.
LEMMA MuxFramed ==
    ASSUME NEW L, lines \in Seq(L), Framed(lines),
           NEW removed, removed = RemovedLines(lines)
    PROVE  LET text == FlattenSeq([j \in DOMAIN lines |->
                         IF j \in removed THEN <<>> ELSE <<lines[j]>>])
           IN  (\E T : text \in Seq(T)) /\ Framed(text)
<1> DEFINE U == L \ {Blank}
           N == Len(lines)
           kept == [j \in DOMAIN lines |->
                      IF j \in removed THEN <<>> ELSE <<lines[j]>>]
<1>1. N \in Nat /\ N # 0 /\ N \in 1..N /\ DOMAIN lines = 1..N
  BY DEF Framed
<1>2. \A j \in 1..N : lines[j] \in L /\ (lines[j] = Blank <=> j = N)
  BY DEF Framed
<1>3. N \notin removed
  <2>1. Blank.kind = "" /\ "a" # ""
    BY DEF Blank, Line
  <2>2. \A j \in removed : lines[j].kind = "a"
    BY DEF RemovedLines, IsRtcpCandidate, IsAttr
  <2> HIDE DEF N
  <2>3. QED
    BY <1>1, <1>2, <2>1, <2>2
<1> HIDE DEF N
<1>4. \A j \in 1..N : lines[j] \in L /\ (j # N => lines[j] \in U)
  BY <1>2
<1>5. Blank \in L /\ lines[N] = Blank
  BY <1>1, <1>2
<1> HIDE DEF U
<1>6. kept \in [1..N -> Seq(L)]
  BY <1>1, <1>4
<1>7. kept[N] = <<Blank>>
  BY <1>1, <1>3, <1>5
<1>8. ASSUME NEW j \in 1..(N - 1) PROVE kept[j] \in Seq(U)
  <2>1. j \in 1..N /\ j # N
    BY <1>1
  <2>2. QED
    BY <1>1, <1>4, <2>1
<1> HIDE DEF kept
<1>9. kept \in Seq(Seq(L)) /\ Len(kept) = N
  BY <1>1, <1>6
<1>10. PICK first \in Seq(U) : FlattenSeq(kept) = first \o <<Blank>>
  BY <1>1, <1>7, <1>8, <1>9, FlattenSeqEnd
<1>11. first \in Seq(L) /\ \A j \in 1..Len(first) : first[j] # Blank
  <2>1. U \subseteq L /\ \A line \in U : line # Blank
    BY DEF U
  <2>2. first \in Seq(L)
    BY <2>1, SeqMonotonic
  <2>3. QED
    BY <2>1, <2>2
<1>12. <<Blank>> \in Seq(L) /\ Framed(<<Blank>>)
  BY <1>5 DEF Framed
<1>13. first \o <<Blank>> \in Seq(L) /\ Framed(first \o <<Blank>>)
  BY <1>11, <1>12, JoinedFramed
<1>14. QED
  BY <1>10, <1>13 DEF kept

-----------------------------------------------------------------------------
(* The loop *)

Stages == {"validate", "negotiate", "video", "mid", "mux", "done", "refused"}

\* An answer is a text with its one empty string at the end, in every stage
\* from Pion on; it has an m= line as long as one is needed; and the video
\* sections met and those left are not more than the sections of the offer.
AnswerInv ==
    /\ stage \in Stages
    /\ offer \in Seq(OfferSections) /\ Len(offer) \in 1..MaxSections
    /\ lineIndex \in Nat /\ lineIndex >= 1
    /\ videoIndex \in 0..MaxSections
    /\ stage \in {"validate", "negotiate"} => lineIndex = 1 /\ videoIndex = 0
    /\ stage \in {"video", "mid", "mux", "done"} =>
         (\E T : lines \in Seq(T)) /\ Framed(lines)
    /\ stage \in {"video", "mid"} => \E i \in 1..Len(lines) : IsMedia(lines[i])
    /\ stage = "video" =>
         videoIndex + Cardinality(VideosFrom(lines, lineIndex)) <= MaxSections

\* No m= line is ever offered for insertion.
LEMMA OfferedNoMedia ==
    ASSUME AnswerInv, NEW k
    PROVE  ~IsMedia(Offered(k).rtpmap)
<1> DEFINE T == {OfferedPayload(offer[i]) : i \in DOMAIN offer}
           each == [i \in DOMAIN offer |->
                      IF IsVideo(offer[i]) THEN <<OfferedPayload(offer[i])>>
                                           ELSE <<>>]
           all == OfferedVideoPayloads
<1>1. /\ offer \in Seq(OfferSections) /\ DOMAIN offer = 1..Len(offer)
      /\ Len(offer) \in Nat
  BY DEF AnswerInv
<1>2. \A o \in T : ~IsMedia(o.rtpmap)
  <2> SUFFICES ASSUME NEW i \in DOMAIN offer
               PROVE  ~IsMedia(OfferedPayload(offer[i]).rtpmap)
    OBVIOUS
  <2>1. offer[i] \in OfferSections
    BY <1>1
  <2>2. IsSection(offer[i])
    BY <2>1, SectionsAssumption
  <2>3. QED
    BY <2>2, OfferedPayloadNoMedia
<1>3. each \in Seq(Seq(T))
  <2>1. \A i \in DOMAIN offer : OfferedPayload(offer[i]) \in T
    OBVIOUS
  <2> HIDE DEF T
  <2>2. each \in [1..Len(offer) -> Seq(T)]
    BY <1>1, <2>1
  <2> HIDE DEF each
  <2>3. QED
    BY <1>1, <2>2
<1>4. all = FlattenSeq(each)
  BY DEF OfferedVideoPayloads
<1> HIDE DEF T, each, all
<1>5. all \in Seq(T)
  BY <1>3, <1>4, FlattenSeqType
<1>6. Offered(k) = IF k \in DOMAIN all THEN all[k] ELSE NoPayload
  BY DEF Offered, all
<1>7. NoPayload.rtpmap = Blank
  BY DEF NoPayload
<1>8. k \in DOMAIN all => all[k] \in T
  BY <1>5
<1>9. QED
  BY <1>2, <1>6, <1>7, <1>8, MediaNotBlank

\* The loop goes on at the first of the video sections left.
LEMMA NextVideoIsFirst ==
    ASSUME NEW L, lines \in Seq(L), lineIndex \in Nat, lineIndex >= 1,
           NextVideo <= Len(lines)
    PROVE  /\ NextVideo \in 1..Len(lines) /\ IsVideoLine(lines[NextVideo])
           /\ NextVideo >= lineIndex
           /\ VideosFrom(lines, NextVideo + 1) =
                VideosFrom(lines, lineIndex) \ {NextVideo}
<1> DEFINE V == {j \in lineIndex..Len(lines) :
                   IsMedia(lines[j]) /\ lines[j].name = "video"}
           S == V \union {Len(lines) + 1}
           i == NextVideo
<1>1. Len(lines) \in Nat /\ DOMAIN lines = 1..Len(lines)
  OBVIOUS
<1>2. S \subseteq Nat /\ S # {}
  BY <1>1
<1>3. i = Min(S)
  BY DEF NextVideo
<1>4. V = VideosFrom(lines, lineIndex)
  BY <1>1 DEF VideosFrom, IsVideoLine
<1> HIDE DEF V, i
<1>5. i \in S /\ \A y \in S : i <= y
  <2> HIDE DEF S
  <2>1. QED
    BY <1>2, <1>3, MinIsLeast
<1>6. i <= Len(lines)
  BY DEF i
<1>7. i \in V /\ \A y \in V : i <= y
  BY <1>1, <1>5, <1>6
<1>8. i \in 1..Len(lines) /\ i >= lineIndex /\ IsVideoLine(lines[i])
  BY <1>1, <1>4, <1>7 DEF VideosFrom
<1>9. VideosFrom(lines, i + 1) = V \ {i}
  <2>1. ASSUME NEW j \in VideosFrom(lines, i + 1) PROVE j \in V \ {i}
    <3>1. j \in 1..Len(lines) /\ j >= i + 1 /\ IsVideoLine(lines[j])
      BY <1>1, <2>1 DEF VideosFrom
    <3>2. j >= lineIndex /\ j # i
      BY <1>1, <1>8, <3>1
    <3>3. QED
      BY <1>1, <1>4, <3>1, <3>2 DEF VideosFrom
  <2>2. ASSUME NEW j \in V \ {i} PROVE j \in VideosFrom(lines, i + 1)
    <3>1. j \in 1..Len(lines) /\ IsVideoLine(lines[j])
      BY <1>1, <1>4, <2>2 DEF VideosFrom
    <3>2. j >= i + 1
      BY <1>1, <1>7, <1>8, <2>2, <3>1
    <3>3. QED
      BY <1>1, <3>1, <3>2 DEF VideosFrom
  <2>3. QED
    BY <2>1, <2>2
<1>10. QED
  BY <1>4, <1>8, <1>9 DEF i

\* One iteration leaves one video section less to come.
LEMMA LoopTurn ==
    ASSUME AnswerInv, NormalizeVideoSection
    PROVE  /\ (\E T : lines' \in Seq(T)) /\ Framed(lines')
           /\ \E j \in 1..Len(lines') : IsMedia(lines'[j])
           /\ lineIndex' \in Nat /\ lineIndex' >= 1
           /\ Cardinality(VideosFrom(lines', lineIndex')) =
                Cardinality(VideosFrom(lines, lineIndex)) - 1
<1> DEFINE i == NextVideo
           offered == Offered(videoIndex + 1)
           next == VideoSection(lines, i, offered)
<1>1. stage = "video" /\ i <= Len(lines) /\ lines' = next[1] /\ lineIndex' = next[2]
  BY DEF NormalizeVideoSection
<1>2. Framed(lines) /\ lineIndex \in Nat /\ lineIndex >= 1
  BY <1>1 DEF AnswerInv
<1>3. PICK L : lines \in Seq(L)
  BY <1>1 DEF AnswerInv
<1>4. ~IsMedia(offered.rtpmap)
  BY OfferedNoMedia
<1>5. /\ i \in 1..Len(lines) /\ IsVideoLine(lines[i]) /\ i >= lineIndex
      /\ VideosFrom(lines, i + 1) = VideosFrom(lines, lineIndex) \ {i}
  BY <1>1, <1>2, <1>3, NextVideoIsFirst
<1> HIDE DEF i, offered
<1>6. /\ \E T : next[1] \in Seq(T)
      /\ i \in 1..Len(next[1]) /\ IsMedia(next[1][i])
      /\ next[2] \in {i + 1, i + 2}
      /\ Cardinality(VideosFrom(next[1], next[2])) =
           Cardinality(VideosFrom(lines, i + 1))
      /\ Framed(lines) => Framed(next[1])
  BY <1>3, <1>4, <1>5, VideoTurn
<1> HIDE DEF next
<1>7. i \in VideosFrom(lines, lineIndex) /\ i \in Nat
  BY <1>3, <1>5 DEF VideosFrom
<1>8. Cardinality(VideosFrom(lines, i + 1)) =
        Cardinality(VideosFrom(lines, lineIndex)) - 1
  <2>1. IsFiniteSet(VideosFrom(lines, lineIndex))
    BY <1>3, VideosFinite
  <2>2. QED
    BY <1>5, <1>7, <2>1, FS_RemoveElement
<1>9. lineIndex' \in Nat /\ lineIndex' >= 1
  BY <1>1, <1>6, <1>7
<1>10. QED
  BY <1>1, <1>2, <1>6, <1>8, <1>9

\* A section more is at most one video section more.
LEMMA SectionAddsOne ==
    ASSUME NEW L, NEW s \in Seq(L), NEW section \in Seq(L),
           \A i \in 2..Len(section) : ~IsMedia(section[i])
    PROVE  Cardinality(VideosFrom(s \o section, 1)) <=
             Cardinality(VideosFrom(s, 1)) + 1
<1> DEFINE new == s \o section
           V == VideosFrom(s, 1)
           x == Len(s) + 1
<1>1. /\ new \in Seq(L) /\ Len(new) = Len(s) + Len(section)
      /\ \A i \in 1..Len(s) : new[i] = s[i]
      /\ \A i \in 1..Len(section) : new[Len(s) + i] = section[i]
  BY Joined
<1>2. Len(s) \in Nat /\ Len(section) \in Nat /\ DOMAIN s = 1..Len(s)
  OBVIOUS
<1> HIDE DEF new
<1>3. DOMAIN new = 1..(Len(s) + Len(section))
  BY <1>1
<1>4. ASSUME NEW j \in VideosFrom(new, 1) PROVE j \in V \union {x}
  <2>1. /\ j \in Nat /\ 1 <= j /\ j <= Len(s) + Len(section)
        /\ IsMedia(new[j]) /\ IsVideoLine(new[j])
    BY <1>2, <1>3, <1>4 DEF VideosFrom, IsVideoLine
  <2>2. CASE j <= Len(s)
    <3>1. j \in 1..Len(s) /\ j >= 1
      BY <1>2, <2>1, <2>2
    <3>2. QED
      BY <1>1, <1>2, <2>1, <3>1 DEF VideosFrom
  <2>3. CASE j > x
    <3>1. j - Len(s) \in 2..Len(section) /\ Len(s) + (j - Len(s)) = j
      BY <1>2, <2>1, <2>3
    <3>2. j - Len(s) \in 1..Len(section)
      BY <1>2, <2>1, <2>3
    <3>3. new[j] = section[j - Len(s)]
      BY <1>1, <3>1, <3>2
    <3>4. QED
      BY <2>1, <3>1, <3>3
  <2>4. j = x \/ j <= Len(s) \/ j > x
    BY <1>2, <2>1
  <2>5. QED
    BY <2>2, <2>3, <2>4
<1>5. IsFiniteSet(V)
  BY VideosFinite
<1> HIDE DEF V, x
<1>6. /\ Cardinality(V) \in Nat /\ IsFiniteSet(V \union {x})
      /\ Cardinality(V \union {x}) =
           IF x \in V THEN Cardinality(V) ELSE Cardinality(V) + 1
  BY <1>5, FS_AddElement, FS_CardinalityType
<1>7. /\ IsFiniteSet(VideosFrom(new, 1))
      /\ Cardinality(VideosFrom(new, 1)) <= Cardinality(V \union {x})
  BY <1>4, <1>6, FS_Subset
<1>8. Cardinality(VideosFrom(new, 1)) \in Nat
  BY <1>7, FS_CardinalityType
<1>9. QED
  BY <1>6, <1>7, <1>8 DEF new, V

\* An answer has at most as many video sections as sections.
LEMMA AnswerVideos ==
    ASSUME NEW L, NEW a \in Seq(Seq(L)), Len(a) # 0, Preamble \in Seq(L),
           \A k \in 1..Len(a) : \A i \in 2..Len(a[k]) : ~IsMedia(a[k][i])
    PROVE  Cardinality(VideosFrom(Preamble \o FlattenSeq(a), 1)) <= Len(a)
<1> DEFINE n == Len(a)
<1>1. n \in Nat /\ n # 0 /\ n \in 0..n /\ n \in 1..n
  OBVIOUS
<1>2. \A k \in 1..n : a[k] \in Seq(L)
  OBVIOUS
<1>3. PICK flat : Flattening(a, flat) /\ FlattenSeq(a) = flat[n]
  BY FlattenSeqIsFlat
<1>4. \A k \in 1..n : flat[k] = IF k = 1 THEN a[k] ELSE flat[k - 1] \o a[k]
  BY <1>3 DEF Flattening
<1>5. \A k \in 1..n : flat[k] \in Seq(L)
  BY <1>1, <1>2, <1>3, FlatteningType
<1> HIDE DEF n
<1> DEFINE text(k) == IF k = 0 THEN Preamble ELSE Preamble \o flat[k]
           Good == {k \in 0..n : Cardinality(VideosFrom(text(k), 1)) <= k}
<1>6. ASSUME NEW k \in 0..n PROVE text(k) \in Seq(L)
  <2>1. k # 0 => k \in 1..n
    BY <1>1
  <2>2. QED
    BY <1>5, <2>1
<1>7. ASSUME NEW k \in 1..n PROVE text(k) = text(k - 1) \o a[k]
  <2>1. k # 0 /\ (k = 1 <=> k - 1 = 0) /\ (k # 1 => k - 1 \in 1..n)
    BY <1>1
  <2>2. a[k] \in Seq(L)
    BY <1>2
  <2>3. CASE k = 1
    BY <1>4, <2>1, <2>3
  <2>4. CASE k # 1
    <3>1. flat[k - 1] \in Seq(L) /\ flat[k] = flat[k - 1] \o a[k]
      BY <1>4, <1>5, <2>1, <2>4
    <3>2. Preamble \o (flat[k - 1] \o a[k]) = (Preamble \o flat[k - 1]) \o a[k]
      <4> DEFINE f == flat[k - 1]
                 b == a[k]
      <4>1. f \in Seq(L) /\ b \in Seq(L) /\ Preamble \in Seq(L)
        BY <2>2, <3>1
      <4> HIDE DEF f, b
      <4>2. Preamble \o (f \o b) = (Preamble \o f) \o b
        BY <4>1, JoinedThree
      <4>3. QED
        BY <4>2 DEF f, b
    <3>3. QED
      BY <2>1, <2>4, <3>1, <3>2
  <2>5. QED
    BY <2>3, <2>4
<1>8. text(0) = Preamble
  OBVIOUS
<1>9. n # 0 => text(n) = Preamble \o flat[n]
  OBVIOUS
<1> HIDE DEF text
<1>10. 0 \in Good
  <2>1. VideosFrom(Preamble, 1) = {}
    BY PreambleAssumption DEF VideosFrom, IsVideoLine
  <2>2. Cardinality(VideosFrom(text(0), 1)) = 0
    BY <1>8, <2>1, FS_EmptySet
  <2>3. QED
    BY <1>1, <2>2
<1>11. ASSUME NEW k \in 1..n, k - 1 \in Good PROVE k \in Good
  <2>1. k \in Nat /\ k - 1 \in 0..n /\ k \in 0..n
    BY <1>1
  <2>2. Cardinality(VideosFrom(text(k - 1), 1)) <= k - 1
    BY <1>11
  <2>3. text(k - 1) \in Seq(L) /\ text(k) \in Seq(L) /\ a[k] \in Seq(L)
    BY <1>2, <1>6, <2>1
  <2>4. \A i \in 2..Len(a[k]) : ~IsMedia(a[k][i])
    BY DEF n
  <2>5. text(k) = text(k - 1) \o a[k]
    BY <1>7
  <2>6. Cardinality(VideosFrom(text(k), 1)) <=
          Cardinality(VideosFrom(text(k - 1), 1)) + 1
    BY <2>3, <2>4, <2>5, SectionAddsOne
  <2>7. /\ Cardinality(VideosFrom(text(k), 1)) \in Nat
        /\ Cardinality(VideosFrom(text(k - 1), 1)) \in Nat
    BY <2>3, VideosFinite, FS_CardinalityType
  <2>8. Cardinality(VideosFrom(text(k), 1)) <= k
    BY <2>1, <2>2, <2>6, <2>7
  <2>9. QED
    BY <2>1, <2>8
<1>12. n \in Good
  <2> HIDE DEF Good
  <2>1. \A k \in 0..n : k \in Good
    BY <1>1, <1>10, <1>11, Induction
  <2>2. QED
    BY <1>1, <2>1
<1>13. Cardinality(VideosFrom(text(n), 1)) <= n
  BY <1>12
<1>14. QED
  BY <1>1, <1>3, <1>9, <1>13 DEF n

\* The text of an answer: it ends with its one empty string, and the sections
\* are those of the answer.
LEMMA AnswerText ==
    ASSUME NEW n \in Nat, n # 0, NEW a \in [1..n -> AnswerSections]
    PROVE  LET text == Preamble \o FlattenSeq(a) \o <<Blank>>
           IN  /\ (\E T : text \in Seq(T)) /\ Framed(text)
               /\ \E i \in 1..Len(text) : IsMedia(text[i])
               /\ Cardinality(VideosFrom(text, 1)) <= n
<1> DEFINE Own == UNION {Range(section) : section \in AnswerSections}
           L == Range(Preamble) \union Own
           T == L \union {Blank}
           flat == FlattenSeq(a)
           body == Preamble \o flat
           text == body \o <<Blank>>
<1>1. \A section \in AnswerSections : IsSection(section)
  BY SectionsAssumption
<1>2. \A line \in L : line # Blank
  <2>1. ASSUME NEW line \in Range(Preamble) PROVE line # Blank
    BY PreambleAssumption DEF Range
  <2>2. ASSUME NEW section \in AnswerSections, NEW line \in Range(section)
        PROVE  line # Blank
    BY <1>1 DEF IsSection, Range
  <2>3. QED
    BY <2>1, <2>2
<1>3. a \in Seq(Seq(L)) /\ Len(a) = n
  <2>1. ASSUME NEW section \in AnswerSections PROVE section \in Seq(L)
    <3>1. section \in Seq(Range(section)) /\ Range(section) \subseteq L
      BY <1>1 DEF IsSection
    <3> HIDE DEF L
    <3>2. QED
      BY <3>1, SeqMonotonic
  <2> HIDE DEF L
  <2>2. a \in [1..n -> Seq(L)]
    BY <2>1
  <2>3. QED
    BY <2>2
<1>4. Preamble \in Seq(L)
  <2>1. Preamble \in Seq(Range(Preamble)) /\ Range(Preamble) \subseteq L
    BY PreambleAssumption
  <2> HIDE DEF L
  <2>2. QED
    BY <2>1, SeqMonotonic
<1> HIDE DEF L
<1>5. ASSUME NEW k \in 1..n
      PROVE  /\ a[k] \in Seq(L) /\ Len(a[k]) \in Nat /\ Len(a[k]) # 0
             /\ IsMedia(a[k][1])
             /\ \A i \in 2..Len(a[k]) : ~IsMedia(a[k][i])
  <2>1. IsSection(a[k]) /\ a[k] \in Seq(L)
    BY <1>1, <1>3
  <2>2. DOMAIN a[k] = 1..Len(a[k]) /\ Len(a[k]) \in Nat /\ Len(a[k]) # 0
    BY <2>1 DEF IsSection
  <2>3. \A i \in 1..Len(a[k]) : IsMedia(a[k][i]) <=> i = 1
    BY <2>1, <2>2 DEF IsSection
  <2>4. 1 \in 1..Len(a[k]) /\ \A i \in 2..Len(a[k]) : i \in 1..Len(a[k]) /\ i # 1
    BY <2>2
  <2>5. QED
    BY <2>1, <2>2, <2>3, <2>4
<1>6. flat \in Seq(L)
  BY <1>3, FlattenSeqType
<1>7. Cardinality(VideosFrom(body, 1)) <= n
  BY <1>3, <1>4, <1>5, AnswerVideos
<1>8. \E i \in 1..Len(flat) : IsMedia(flat[i])
  <2>1. n \in 1..n /\ \A k \in 1..(n - 1) : a[k] \in Seq(L)
    BY <1>5
  <2>2. PICK first \in Seq(L) : flat = first \o a[n]
    BY <1>3, <2>1, FlattenSeqEnd
  <2> HIDE DEF flat
  <2>3. a[n] \in Seq(L) /\ 1 \in 1..Len(a[n]) /\ IsMedia(a[n][1])
    BY <1>5, <2>1
  <2>4. Len(flat) = Len(first) + Len(a[n]) /\ flat[Len(first) + 1] = a[n][1]
    BY <2>2, <2>3, Joined
  <2>5. Len(first) + 1 \in 1..Len(flat)
    BY <2>3, <2>4
  <2>6. QED
    BY <2>3, <2>4, <2>5
<1> HIDE DEF flat
<1>9. /\ body \in Seq(L) /\ Len(body) = Len(Preamble) + Len(flat)
      /\ \A i \in 1..Len(flat) : body[Len(Preamble) + i] = flat[i]
  BY <1>4, <1>6, Joined
<1> HIDE DEF body
<1>10. Len(body) \in Nat /\ \A j \in 1..Len(body) : body[j] # Blank
  BY <1>2, <1>9
<1>11. body \in Seq(T) /\ <<Blank>> \in Seq(T)
  <2>1. L \subseteq T /\ Blank \in T
    OBVIOUS
  <2> HIDE DEF T
  <2>2. body \in Seq(T)
    BY <1>9, <2>1, SeqMonotonic
  <2>3. QED
    BY <2>1, <2>2
<1> HIDE DEF T
<1>12. text \in Seq(T) /\ Framed(text)
  <2>1. Framed(<<Blank>>)
    BY DEF Framed
  <2>2. QED
    BY <1>10, <1>11, <2>1, JoinedFramed
<1>13. /\ Len(text) = Len(body) + 1
       /\ \A j \in 1..Len(body) : text[j] = body[j]
       /\ text[Len(body) + 1] = Blank
  BY <1>10, <1>11
<1> HIDE DEF text
<1>14. \E i \in 1..Len(text) : IsMedia(text[i])
  <2>1. PICK i \in 1..Len(flat) : IsMedia(flat[i])
    BY <1>8
  <2>2. Len(Preamble) \in Nat /\ Len(flat) \in Nat
    BY <1>4, <1>6
  <2>3. Len(Preamble) + i \in 1..Len(body) /\ Len(Preamble) + i \in 1..Len(text)
    BY <1>9, <1>13, <2>2
  <2>4. text[Len(Preamble) + i] = flat[i]
    BY <1>9, <1>13, <2>3
  <2>5. QED
    BY <2>1, <2>3, <2>4
<1>15. VideosFrom(text, 1) = VideosFrom(body, 1)
  <2>1. DOMAIN text = 1..(Len(body) + 1) /\ DOMAIN body = 1..Len(body)
    BY <1>9, <1>12, <1>13
  <2>2. ~IsMedia(text[Len(body) + 1])
    BY <1>13, MediaNotBlank
  <2>3. ASSUME NEW j \in VideosFrom(text, 1) PROVE j \in VideosFrom(body, 1)
    <3>1. j \in 1..(Len(body) + 1) /\ j >= 1 /\ IsVideoLine(text[j])
      BY <2>1, <2>3 DEF VideosFrom
    <3>2. j # Len(body) + 1
      BY <2>2, <3>1 DEF IsVideoLine
    <3>3. j \in 1..Len(body)
      BY <1>10, <3>1, <3>2
    <3>4. QED
      BY <1>13, <2>1, <3>1, <3>3 DEF VideosFrom
  <2>4. ASSUME NEW j \in VideosFrom(body, 1) PROVE j \in VideosFrom(text, 1)
    <3>1. j \in 1..Len(body) /\ j >= 1 /\ IsVideoLine(body[j])
      BY <2>1, <2>4 DEF VideosFrom
    <3>2. j \in 1..(Len(body) + 1)
      BY <1>10, <3>1
    <3>3. QED
      BY <1>13, <2>1, <3>1, <3>2 DEF VideosFrom
  <2>5. QED
    BY <2>3, <2>4
<1>16. QED
  BY <1>7, <1>12, <1>14, <1>15 DEF text, body, flat

LEMMA AnswerInit == Init => AnswerInv
<1> SUFFICES ASSUME Init PROVE AnswerInv
  OBVIOUS
<1>1. PICK m \in 0..MaxSections : offer \in [1..m -> OfferSections]
  BY DEF Init, BoundedSeq, SeqOf
<1>2. m \in Nat /\ MaxSections \in Nat
  BY MaxSectionsAssumption
<1>3. offer \in Seq(OfferSections) /\ Len(offer) = m /\ offer # <<>>
  BY <1>1, <1>2 DEF Init
<1>4. Len(offer) \in 1..MaxSections /\ 0 \in 0..MaxSections
  BY <1>1, <1>2, <1>3
<1>5. QED
  BY <1>3, <1>4 DEF Init, AnswerInv, Stages

LEMMA AnswerStep == AnswerInv /\ [Next]_vars => AnswerInv'
<1> SUFFICES ASSUME AnswerInv, [Next]_vars PROVE AnswerInv'
  OBVIOUS
<1> USE DEF AnswerInv, Stages
<1>1. CASE ValidateOffer
  BY <1>1 DEF ValidateOffer
<1>2. CASE PionAnswers
  <2>1. PICK a \in [DOMAIN offer -> AnswerSections] :
          lines' = Preamble \o FlattenSeq(a) \o <<Blank>>
    BY <1>2 DEF PionAnswers
  <2>2. /\ DOMAIN offer = 1..Len(offer) /\ Len(offer) \in Nat /\ Len(offer) # 0
        /\ Len(offer) <= MaxSections /\ MaxSections \in Nat
    BY MaxSectionsAssumption
  <2>3. /\ (\E T : lines' \in Seq(T)) /\ Framed(lines')
        /\ \E i \in 1..Len(lines') : IsMedia(lines'[i])
        /\ Cardinality(VideosFrom(lines', 1)) <= Len(offer)
    BY <2>1, <2>2, AnswerText
  <2>4. Cardinality(VideosFrom(lines', 1)) \in Nat
    BY <2>3, VideosFinite, FS_CardinalityType
  <2>5. /\ stage' = "video" /\ lineIndex' = 1 /\ videoIndex' = 0
        /\ offer' = offer
    BY <1>2 DEF PionAnswers
  <2>6. videoIndex' + Cardinality(VideosFrom(lines', lineIndex')) <= MaxSections
    BY <2>2, <2>3, <2>4, <2>5
  <2>7. lineIndex' \in Nat /\ lineIndex' >= 1 /\ videoIndex' \in 0..MaxSections
    BY <2>2, <2>5
  <2>8. QED
    BY <2>3, <2>5, <2>6, <2>7
<1>3. CASE NormalizeVideoSection
  <2>1. /\ (\E T : lines' \in Seq(T)) /\ Framed(lines')
        /\ \E i \in 1..Len(lines') : IsMedia(lines'[i])
        /\ lineIndex' \in Nat /\ lineIndex' >= 1
        /\ Cardinality(VideosFrom(lines', lineIndex')) =
             Cardinality(VideosFrom(lines, lineIndex)) - 1
    BY <1>3, LoopTurn
  <2>2. /\ stage = "video" /\ stage' = "video" /\ offer' = offer
        /\ videoIndex' = videoIndex + 1
    BY <1>3 DEF NormalizeVideoSection
  <2>3. /\ Cardinality(VideosFrom(lines', lineIndex')) \in Nat
        /\ Cardinality(VideosFrom(lines, lineIndex)) \in Nat
    BY <2>1, <2>2, VideosFinite, FS_CardinalityType
  <2>4. /\ videoIndex' \in 0..MaxSections
        /\ videoIndex' + Cardinality(VideosFrom(lines', lineIndex')) <=
             MaxSections
    <3>1. /\ videoIndex \in Nat /\ MaxSections \in Nat
          /\ videoIndex + Cardinality(VideosFrom(lines, lineIndex)) <=
               MaxSections
      BY <2>2, MaxSectionsAssumption
    <3>2. QED
      BY <2>1, <2>2, <2>3, <3>1
  <2>5. QED
    BY <2>1, <2>2, <2>4
<1>4. CASE VideoDone
  BY <1>4 DEF VideoDone
<1>5. CASE NormalizeRejectedMediaMIDs
  <2>1. (\E T : lines' \in Seq(T)) /\ Framed(lines')
    <3>1. stage = "mid"
      BY <1>5 DEF NormalizeRejectedMediaMIDs
    <3>2. PICK L : lines \in Seq(L)
      BY <3>1
    <3>3. Framed(lines) /\ \E i \in 1..Len(lines) : IsMedia(lines[i])
      BY <3>1
    <3>4. lines' = BeforeSections(lines) \o FlattenSeq(WithMids(Sections(lines)))
      BY <1>5 DEF NormalizeRejectedMediaMIDs
    <3>5. QED
      BY <3>2, <3>3, <3>4, MidsFramed
  <2>2. QED
    BY <1>5, <2>1 DEF NormalizeRejectedMediaMIDs
<1>6. CASE NormalizeRTCPMuxCandidates
  <2>1. (\E T : lines' \in Seq(T)) /\ Framed(lines')
    <3>1. stage = "mux"
      BY <1>6 DEF NormalizeRTCPMuxCandidates
    <3>2. PICK L : lines \in Seq(L)
      BY <3>1
    <3>3. Framed(lines)
      BY <3>1
    <3> DEFINE removed == RemovedLines(lines)
    <3>4. lines' = FlattenSeq([j \in DOMAIN lines |->
                     IF j \in removed THEN <<>> ELSE <<lines[j]>>])
      BY <1>6 DEF NormalizeRTCPMuxCandidates
    <3>5. QED
      BY <3>2, <3>3, <3>4, MuxFramed
  <2>2. QED
    BY <1>6, <2>1 DEF NormalizeRTCPMuxCandidates
<1>7. CASE Returned \/ UNCHANGED vars
  BY <1>7 DEF Returned, vars
<1>8. QED
  BY <1>1, <1>2, <1>3, <1>4, <1>5, <1>6, <1>7 DEF Next

\* What all three passes rely on holds throughout.
THEOREM AnswerInductive == Spec => []AnswerInv
BY AnswerInit, AnswerStep, PTL DEF Spec

\* The three passes keep the frame of the text, whatever the offer and the
\* answer are: the empty string that splitting leaves is the last line from
\* Pion's answer to the one returned, and the only one.
THEOREM AnswerTypeCorrect == Spec => []TypeOK
<1>1. AnswerInv => TypeOK
  <2> SUFFICES ASSUME AnswerInv PROVE TypeOK
    OBVIOUS
  <2>1. ASSUME stage \in {"video", "mid", "mux", "done"}
        PROVE  {i \in DOMAIN lines : lines[i] = Blank} = {Len(lines)}
    <3>1. PICK T : lines \in Seq(T)
      BY <2>1 DEF AnswerInv
    <3>2. Framed(lines)
      BY <2>1 DEF AnswerInv
    <3>3. Len(lines) \in 1..Len(lines) /\ DOMAIN lines = 1..Len(lines)
      BY <3>1, <3>2 DEF Framed
    <3>4. QED
      BY <3>2, <3>3 DEF Framed
  <2>2. QED
    BY <2>1 DEF AnswerInv, Stages, TypeOK
<1>2. QED
  BY <1>1, AnswerInductive, PTL

\* The loop of normalizeAlexaRejectedVideoPayloads meets every video section
\* once, whatever the offer and the answer are: each iteration leaves exactly
\* one less to come, although it inserts lines behind its index.
THEOREM VideoLoopMeetsEachOnce == Spec => VideoLoopAdvances
<1>1. ASSUME AnswerInv, [Next]_vars
      PROVE  [stage = "video" /\ stage' = "video" =>
                Cardinality(VideosLeft') = Cardinality(VideosLeft) - 1]_vars
  <2>1. /\ VideosLeft = VideosFrom(lines, lineIndex)
        /\ VideosLeft' = VideosFrom(lines', lineIndex')
    BY DEF VideosLeft, VideosFrom, IsVideoLine
  <2>2. CASE NormalizeVideoSection
    BY <1>1, <2>1, <2>2, LoopTurn
  <2>3. CASE ~NormalizeVideoSection
    BY <1>1, <2>3 DEF Next, ValidateOffer, PionAnswers, VideoDone, Returned,
         NormalizeRejectedMediaMIDs, NormalizeRTCPMuxCandidates
  <2>4. QED
    BY <2>2, <2>3
<1>2. QED
  BY <1>1, AnswerInit, AnswerStep, PTL DEF Spec, VideoLoopAdvances

-----------------------------------------------------------------------------
(* A text as its sections *)

\* The lines the three passes put in.
EchoLine(section) == Media("video", "0", <<OfferedPayload(section).payload>>)
MidLine(section) == Attr("mid", <<OfferedMid(section).mid>>)

NewLines ==
    {Blank, Inactive} \union {EchoLine(section) : section \in OfferSections}
      \union {OfferedPayload(section).rtpmap : section \in OfferSections}
      \union {MidLine(section) : section \in OfferSections}

\* Every line an answer may come to have.
Lines ==
    Range(Preamble) \union NewLines
      \union (UNION {Range(section) : section \in AnswerSections})

LEMMA NewLinesTyped ==
    /\ Inactive \in Lines /\ Blank \in Lines
    /\ \A section \in OfferSections :
         /\ EchoLine(section) \in Lines /\ MidLine(section) \in Lines
         /\ OfferedPayload(section).rtpmap \in Lines
<1>1. NewLines \subseteq Lines
  BY DEF Lines
<1>2. Inactive \in NewLines /\ Blank \in NewLines
  BY Zenon DEF NewLines
<1>3. ASSUME NEW section \in OfferSections
      PROVE  /\ EchoLine(section) \in NewLines /\ MidLine(section) \in NewLines
             /\ OfferedPayload(section).rtpmap \in NewLines
  BY Zenon DEF NewLines
<1>4. QED
  BY <1>1, <1>2, <1>3, Zenon

MediaSections == {section \in Seq(Lines) : IsSection(section)}

\* The description made of the sections, without the empty string at its end.
Text(sections) == Preamble \o FlattenSeq(sections)

LEMMA AttrIsLine ==
    ASSUME NEW line, line.kind = "a"
    PROVE  ~IsMedia(line) /\ line # Blank
<1>1. Blank.kind = ""
  BY DEF Blank, Line
<1>2. "a" # "m" /\ "a" # ""
  OBVIOUS
<1>3. QED
  BY <1>1, <1>2 DEF IsMedia

LEMMA PreambleLines == Preamble \in Seq(Lines)
<1>1. Preamble \in Seq(Range(Preamble)) /\ Range(Preamble) \subseteq Lines
  BY PreambleAssumption DEF Lines
<1>2. QED
  BY <1>1, SeqMonotonic

LEMMA AnswerSectionsTyped == AnswerSections \subseteq MediaSections
<1> SUFFICES ASSUME NEW section \in AnswerSections
             PROVE  section \in MediaSections
  OBVIOUS
<1>1. IsSection(section)
  BY SectionsAssumption
<1>2. section \in Seq(Range(section)) /\ Range(section) \subseteq Lines
  BY <1>1 DEF IsSection, Lines
<1>3. section \in Seq(Lines)
  BY <1>2, SeqMonotonic
<1>4. QED
  BY <1>1, <1>3 DEF MediaSections

\* A section by its elements.
LEMMA SectionElements ==
    ASSUME NEW s \in MediaSections
    PROVE  /\ s \in Seq(Lines) /\ Len(s) \in Nat /\ 1 \in 1..Len(s)
           /\ IsMedia(s[1])
           /\ \A i \in 1..Len(s) : s[i] # Blank
           /\ \A i \in 2..Len(s) : ~IsMedia(s[i]) /\ i \in 1..Len(s)
<1>1. s \in Seq(Lines) /\ IsSection(s)
  BY DEF MediaSections
<1>2. DOMAIN s = 1..Len(s) /\ Len(s) \in Nat /\ Len(s) # 0
  BY <1>1 DEF IsSection
<1>3. \A i \in 1..Len(s) : s[i] # Blank /\ (IsMedia(s[i]) <=> i = 1)
  BY <1>1, <1>2 DEF IsSection
<1>4. 1 \in 1..Len(s) /\ \A i \in 2..Len(s) : i \in 1..Len(s) /\ i # 1
  BY <1>2
<1>5. QED
  BY <1>1, <1>2, <1>3, <1>4

LEMMA SectionFromElements ==
    ASSUME NEW s \in Seq(Lines), Len(s) # 0, IsMedia(s[1]),
           \A i \in 2..Len(s) : ~IsMedia(s[i]) /\ s[i] # Blank
    PROVE  s \in MediaSections
<1>1. Len(s) \in Nat /\ DOMAIN s = 1..Len(s) /\ s # <<>>
  OBVIOUS
<1>2. s[1] # Blank
  BY MediaNotBlank
<1>3. \A i \in 1..Len(s) : i # 1 => i \in 2..Len(s)
  BY <1>1
<1>4. \A i \in 1..Len(s) : s[i] # Blank /\ (IsMedia(s[i]) <=> i = 1)
  BY <1>2, <1>3
<1>5. s \in Seq(Range(s))
  <2>1. \A i \in 1..Len(s) : s[i] \in Range(s)
    BY <1>1 DEF Range
  <2>2. QED
    BY <1>1, <2>1
<1>6. QED
  BY <1>1, <1>4, <1>5 DEF MediaSections, IsSection

\* A line is put into a section, behind its m= line.
Grown(s, t, e) ==
    \E a, b \in Seq(Lines) :
      a # <<>> /\ s = a \o b /\ t = With(a, e, b)

LEMMA GrownLines ==
    ASSUME NEW s, NEW t, NEW e \in Lines, Grown(s, t, e)
    PROVE  /\ s \in Seq(Lines) /\ t \in Seq(Lines) /\ Len(t) = Len(s) + 1
           /\ Len(s) # 0 /\ t[1] = s[1]
           /\ Range(t) = Range(s) \union {e}
           /\ \A i \in 2..Len(t) : t[i] = e \/ \E j \in 2..Len(s) : t[i] = s[j]
<1>1. PICK a \in Seq(Lines), b \in Seq(Lines) :
        a # <<>> /\ s = a \o b /\ t = With(a, e, b)
  BY DEF Grown
<1> DEFINE ae == a \o <<e>>
           m == Len(a)
           n == Len(b)
<1>2. m \in Nat /\ n \in Nat /\ m # 0
  BY <1>1
<1>3. /\ ae \in Seq(Lines) /\ Len(ae) = m + 1 /\ ae[m + 1] = e
      /\ \A i \in 1..m : ae[i] = a[i]
  <2> DEFINE one == <<e>>
  <2>1. one \in Seq(Lines) /\ Len(one) = 1 /\ one[1] = e /\ 1 \in 1..1
    OBVIOUS
  <2> HIDE DEF one
  <2>2. /\ a \o one \in Seq(Lines) /\ Len(a \o one) = Len(a) + Len(one)
        /\ \A i \in 1..Len(a) : (a \o one)[i] = a[i]
        /\ \A i \in 1..Len(one) : (a \o one)[Len(a) + i] = one[i]
    <3>1. one \in Seq(Lines)
      BY <2>1
    <3>2. QED
      BY <3>1, Joined
  <2>3. (a \o one)[Len(a) + 1] = one[1]
    BY <2>1, <2>2
  <2>4. QED
    BY <2>1, <2>2, <2>3 DEF one
<1>4. Range(ae) = Range(a) \union {e}
  <2>1. Range(<<e>>) = {e} /\ <<e>> \in Seq(Lines)
    BY DEF Range
  <2>2. QED
    BY <2>1, RangeConcatenation
<1>5. /\ s \in Seq(Lines) /\ Len(s) = m + n
      /\ \A i \in 1..m : s[i] = a[i]
      /\ \A i \in 1..n : s[m + i] = b[i]
  BY <1>1, Joined
<1> HIDE DEF ae
<1>6. /\ t \in Seq(Lines) /\ Len(t) = Len(ae) + n
      /\ \A i \in 1..Len(ae) : t[i] = ae[i]
      /\ \A i \in 1..n : t[Len(ae) + i] = b[i]
  <2>1. t = ae \o b
    BY <1>1 DEF ae, With
  <2>2. ae \in Seq(Lines)
    BY <1>3
  <2>3. QED
    BY <2>1, <2>2, Joined
<1>7. Range(s) = Range(a) \union Range(b)
  BY <1>1, RangeConcatenation
<1>8. Range(t) = Range(ae) \union Range(b)
  BY <1>1, <1>3, RangeConcatenation DEF ae, With
<1> HIDE DEF m, n
<1>9. Len(t) = Len(s) + 1 /\ Len(s) # 0
  BY <1>2, <1>3, <1>5, <1>6
<1>10. t[1] = s[1]
  <2>1. 1 \in 1..m /\ 1 \in 1..(m + 1)
    BY <1>2
  <2>2. QED
    BY <1>3, <1>5, <1>6, <2>1
<1>11. ASSUME NEW i \in 2..Len(t)
       PROVE  t[i] = e \/ \E j \in 2..Len(s) : t[i] = s[j]
  <2>1. Len(t) = m + 1 + n /\ Len(s) = m + n
    BY <1>3, <1>5, <1>6
  <2>2. CASE i <= m
    <3>1. i \in 1..m /\ i \in 1..(m + 1) /\ i \in 2..Len(s)
      BY <1>2, <2>1, <2>2
    <3>2. t[i] = s[i]
      BY <1>3, <1>5, <1>6, <3>1
    <3>3. QED
      BY <3>1, <3>2
  <2>3. CASE i = m + 1
    <3>1. m + 1 \in 1..(m + 1)
      BY <1>2
    <3>2. QED
      BY <1>3, <1>6, <2>3, <3>1
  <2>4. CASE i > m + 1
    <3>1. /\ i - (m + 1) \in 1..n /\ m + 1 + (i - (m + 1)) = i
          /\ m + (i - (m + 1)) \in 2..Len(s)
      BY <1>2, <2>1, <2>4
    <3>2. t[i] = b[i - (m + 1)]
      BY <1>3, <1>6, <3>1
    <3>3. t[i] = s[m + (i - (m + 1))]
      BY <1>5, <3>1, <3>2
    <3>4. QED
      BY <3>1, <3>3
  <2>5. QED
    BY <1>2, <2>1, <2>2, <2>3, <2>4
<1>12. QED
  BY <1>4, <1>5, <1>6, <1>7, <1>8, <1>9, <1>10, <1>11

LEMMA GrownSection ==
    ASSUME NEW s \in MediaSections, NEW t, NEW e \in Lines, Grown(s, t, e),
           ~IsMedia(e), e # Blank
    PROVE  t \in MediaSections
<1>1. /\ t \in Seq(Lines) /\ Len(t) = Len(s) + 1 /\ t[1] = s[1]
      /\ \A i \in 2..Len(t) : t[i] = e \/ \E j \in 2..Len(s) : t[i] = s[j]
  BY GrownLines
<1>2. /\ Len(s) \in Nat /\ IsMedia(s[1])
      /\ \A i \in 1..Len(s) : s[i] # Blank
      /\ \A i \in 2..Len(s) : ~IsMedia(s[i]) /\ i \in 1..Len(s)
  BY SectionElements
<1>3. ASSUME NEW i \in 2..Len(t) PROVE ~IsMedia(t[i]) /\ t[i] # Blank
  BY <1>1, <1>2
<1>4. Len(t) # 0 /\ IsMedia(t[1])
  BY <1>1, <1>2
<1>5. QED
  BY <1>1, <1>3, <1>4, SectionFromElements

LEMMA GrownOnly ==
    ASSUME NEW s, NEW t, NEW e \in Lines, Grown(s, t, e), NEW K
    PROVE  /\ e \notin K => Only(t, K) = Only(s, K)
           /\ e \in K /\ Only(s, K) = <<>> => Only(t, K) = <<e>>
<1>1. PICK a \in Seq(Lines), b \in Seq(Lines) :
        a # <<>> /\ s = a \o b /\ t = With(a, e, b)
  BY DEF Grown
<1>2. /\ e \notin K => Only(With(a, e, b), K) = Only(a \o b, K)
      /\ e \in K /\ Only(a \o b, K) = <<>> =>
           Only(With(a, e, b), K) = <<e>>
  BY OnlyInserted
<1>3. QED
  BY <1>1, <1>2

\* A line that is inserted within a section of a text.
LEMMA InsertedInText ==
    ASSUME NEW p \in Seq(Lines), NEW s \in Seq(Lines), NEW q \in Seq(Lines),
           NEW at \in 2..(Len(s) + 1), NEW e \in Lines
    PROVE  /\ InsertAt(Between(p, s, q), Len(p) + at, e) =
                Between(p, InsertAt(s, at, e), q)
           /\ Grown(s, InsertAt(s, at, e), e)
<1> DEFINE a == First(s, at - 1)
           b == Rest(s, at - 1)
<1>1. /\ Len(s) \in Nat /\ Len(p) \in Nat /\ at \in Nat /\ at - 1 \in 0..Len(s)
      /\ at - 1 # 0 /\ (at - 1) + 1 = at
  OBVIOUS
<1>2. a \in Seq(Lines) /\ Len(a) = at - 1
  BY <1>1, FirstFacts
<1>3. b \in Seq(Lines)
  BY <1>1, RestFacts
<1>4. s = a \o b
  BY <1>1, FirstAndRest
<1> HIDE DEF a, b
<1>5. a # <<>>
  BY <1>1, <1>2
<1>6. InsertAt(a \o b, Len(a) + 1, e) = With(a, e, b)
  BY <1>2, <1>3, InsertBetween
<1>7. InsertAt(Between(p, a \o b, q), Len(p) + Len(a) + 1, e) =
        Between(p, With(a, e, b), q)
  <2>1. a \in Seq(Lines)
    BY <1>2
  <2>2. QED
    BY <1>3, <2>1, InsertInMiddle
<1>8. Len(a) + 1 = at /\ Len(p) + Len(a) + 1 = Len(p) + at
  BY <1>1, <1>2
<1> DEFINE t == With(a, e, b)
<1>9. Grown(s, t, e)
  BY <1>2, <1>3, <1>4, <1>5 DEF Grown
<1> HIDE DEF t
<1>10. InsertAt(s, at, e) = t
  BY <1>4, <1>6, <1>8 DEF t
<1>11. InsertAt(Between(p, s, q), Len(p) + at, e) = Between(p, t, q)
  BY <1>4, <1>7, <1>8 DEF t
<1>12. QED
  BY <1>9, <1>10, <1>11

-----------------------------------------------------------------------------
(* One section within a text *)

\* What comes behind a section: the next one, or the empty string at the end.
Closed(q) == q \in Seq(Lines) /\ q # <<>> /\ (IsMedia(q[1]) \/ q = <<Blank>>)

\* A section ends where the next one starts, or behind the text.
LEMMA SectionEndIsNext ==
    ASSUME NEW L, NEW ls \in Seq(L), NEW i \in 1..Len(ls)
    PROVE  /\ SectionEnd(ls, i) = Len(ls) + 1 \/ IsMedia(ls[SectionEnd(ls, i)])
           /\ \A j \in (i + 1)..Len(ls) : IsMedia(ls[j]) => SectionEnd(ls, i) <= j
<1> DEFINE starts == {j \in (i + 1)..Len(ls) : IsMedia(ls[j])}
           S == starts \union {Len(ls) + 1}
           e == Min(S)
<1>1. Len(ls) \in Nat /\ i \in Nat
  OBVIOUS
<1>2. S \subseteq Nat /\ S # {}
  BY <1>1
<1>3. SectionEnd(ls, i) = e
  BY DEF SectionEnd
<1> HIDE DEF S, e
<1>4. e \in S /\ \A y \in S : e <= y
  BY <1>2, MinIsLeast DEF e
<1>5. QED
  BY <1>3, <1>4 DEF S

\* The lines of the section s behind p, and the places in it.
InText(p, s, ls, i) ==
    /\ ls \in Seq(Lines) /\ i \in 1..Len(ls) /\ ls[i] = s[1]
    /\ \A j \in 1..Len(s) : ls[Len(p) + j] = s[j]
    /\ SectionEnd(ls, i) \in (i + 1)..(Len(ls) + 1)
    /\ InsertPlace(ls, SectionEnd(ls, i)) = Len(p) + Len(s) + 1
    /\ \A j \in 2..Len(s) : Len(p) + j \in (i + 1)..(SectionEnd(ls, i) - 1)
    /\ \A j \in (i + 1)..(SectionEnd(ls, i) - 1) :
         ls[j] = Blank \/ (j - Len(p) \in 2..Len(s) /\ j < Len(ls) + 1)

LEMMA SectionPlaces ==
    ASSUME NEW p \in Seq(Lines), NEW s \in MediaSections, NEW q, Closed(q),
           NEW ls, ls = Between(p, s, q), NEW i, i = Len(p) + 1
    PROVE  InText(p, s, ls, i)
<1> DEFINE l == Len(p)
           m == Len(s)
           n == Len(q)
           N == Len(ls)
           end == SectionEnd(ls, i)
<1>1. /\ s \in Seq(Lines) /\ m \in Nat /\ 1 \in 1..m
      /\ \A j \in 2..m : ~IsMedia(s[j])
  BY SectionElements
<1>2. q \in Seq(Lines) /\ n \in Nat /\ n # 0
  BY DEF Closed
<1>3. /\ ls \in Seq(Lines) /\ N = l + m + n
      /\ \A j \in 1..m : ls[l + j] = s[j]
      /\ \A j \in 1..n : ls[l + m + j] = q[j]
  <2>1. s \in Seq(Lines) /\ q \in Seq(Lines)
    BY <1>1, <1>2
  <2>2. Enclosed(Lines, p, s, q, ls)
    BY <2>1, BetweenFacts
  <2>3. QED
    BY <2>2 DEF Enclosed
<1>4. l \in Nat /\ i = l + 1
  OBVIOUS
<1> HIDE DEF l, m, n, N
<1>5. m >= 1 /\ N \in Nat /\ i \in 1..N
  BY <1>1, <1>2, <1>3, <1>4
<1>6. ls[i] = s[1]
  BY <1>1, <1>3, <1>4
<1>7. end \in (i + 1)..(N + 1)
  <2>1. ls \in Seq(Lines) /\ i \in 1..Len(ls)
    BY <1>3, <1>5 DEF N
  <2>2. QED
    BY <2>1, SectionEndBounds DEF N
<1>8. /\ end = N + 1 \/ IsMedia(ls[end])
      /\ \A j \in (i + 1)..N : IsMedia(ls[j]) => end <= j
  <2>1. ls \in Seq(Lines) /\ i \in 1..Len(ls)
    BY <1>3, <1>5 DEF N
  <2>2. QED
    BY <2>1, SectionEndIsNext DEF N
<1> HIDE DEF end
<1>9. end >= l + m + 1
  <2> SUFFICES ASSUME ~(end >= l + m + 1) PROVE FALSE
    OBVIOUS
  <2>1. /\ end \in Nat /\ end - l \in 2..m /\ end - l \in 1..m
        /\ l + (end - l) = end /\ end # N + 1
    BY <1>1, <1>2, <1>3, <1>4, <1>5, <1>7
  <2>2. ls[end] = s[end - l]
    BY <1>3, <2>1
  <2>3. QED
    BY <1>1, <1>8, <2>1, <2>2
<1>10. 1 \in 1..n /\ ls[l + m + 1] = q[1]
  BY <1>2, <1>3
<1>11. CASE IsMedia(q[1])
  <2>1. l + m + 1 \in (i + 1)..N
    BY <1>1, <1>2, <1>3, <1>4, <1>5
  <2>2. end <= l + m + 1
    BY <1>8, <1>10, <1>11, <2>1
  <2>3. end = l + m + 1 /\ end # N + 1 /\ end - 1 <= N
    BY <1>1, <1>2, <1>3, <1>4, <1>5, <1>7, <1>9, <2>2
  <2>4. InsertPlace(ls, end) = l + m + 1
    BY <2>3 DEF InsertPlace, N
  <2>5. \A j \in 2..m : l + j \in (i + 1)..(end - 1)
    BY <1>1, <1>4, <2>3
  <2>6. \A j \in (i + 1)..(end - 1) : j - l \in 2..m /\ j < N + 1
    BY <1>1, <1>2, <1>3, <1>4, <2>3
  <2>7. QED
    BY <1>3, <1>5, <1>6, <1>7, <2>4, <2>5, <2>6 DEF InText, l, m, end, N
<1>12. CASE ~IsMedia(q[1])
  <2>1. q = <<Blank>>
    BY <1>12 DEF Closed
  <2>2. n = 1 /\ q[1] = Blank
    BY <2>1 DEF n
  <2>3. N = l + m + 1 /\ ls[N] = Blank
    BY <1>3, <1>10, <2>2
  <2>4. end # N
    BY <1>4, <1>5, <1>8, <1>10, <1>12, <2>3
  <2>5. end = N + 1
    BY <1>1, <1>4, <1>5, <1>7, <1>9, <2>3, <2>4
  <2>6. InsertPlace(ls, end) = l + m + 1
    BY <1>1, <1>4, <2>3, <2>5 DEF InsertPlace, N
  <2>7. \A j \in 2..m : l + j \in (i + 1)..(end - 1)
    BY <1>1, <1>4, <2>3, <2>5
  <2>8. ASSUME NEW j \in (i + 1)..(end - 1)
        PROVE  ls[j] = Blank \/ (j - l \in 2..m /\ j < N + 1)
    <3>1. j = N \/ (j - l \in 2..m /\ j < N + 1)
      BY <1>1, <1>4, <2>3, <2>5
    <3>2. QED
      BY <2>3, <3>1
  <2>9. QED
    BY <1>3, <1>5, <1>6, <1>7, <2>6, <2>7, <2>8 DEF InText, l, m, end, N
<1>13. QED
  BY <1>11, <1>12

\* Changing the m= line.
LEMMA EchoedInText ==
    ASSUME NEW p \in Seq(Lines), NEW s \in MediaSections, NEW q, Closed(q),
           NEW e \in Lines, IsMedia(e)
    PROVE  /\ ReplaceAt(s, 1, e) \in MediaSections
           /\ Len(ReplaceAt(s, 1, e)) = Len(s) /\ ReplaceAt(s, 1, e)[1] = e
           /\ \A j \in 2..Len(s) : ReplaceAt(s, 1, e)[j] = s[j]
           /\ ReplaceAt(Between(p, s, q), Len(p) + 1, e) =
                Between(p, ReplaceAt(s, 1, e), q)
<1> DEFINE l == Len(p)
           m == Len(s)
           n == Len(q)
           t == ReplaceAt(s, 1, e)
           ls == Between(p, s, q)
           N == Len(ls)
           new == Between(p, t, q)
           old == ReplaceAt(ls, l + 1, e)
<1>1. /\ s \in Seq(Lines) /\ m \in Nat /\ 1 \in 1..m
      /\ \A j \in 1..m : s[j] # Blank
      /\ \A j \in 2..m : ~IsMedia(s[j]) /\ j \in 1..m
  BY SectionElements
<1>2. q \in Seq(Lines) /\ n \in Nat /\ l \in Nat
  BY DEF Closed
<1>3. /\ t \in Seq(Lines) /\ Len(t) = m
      /\ \A j \in 1..m : t[j] = IF j = 1 THEN e ELSE s[j]
  <2>1. s \in Seq(Lines) /\ 1 \in 1..Len(s)
    BY <1>1
  <2>2. QED
    BY <2>1, ExceptSeq DEF ReplaceAt
<1> HIDE DEF t
<1>4. /\ ls \in Seq(Lines) /\ N = l + m + n
      /\ \A j \in 1..l : ls[j] = p[j]
      /\ \A j \in 1..m : ls[l + j] = s[j]
      /\ \A j \in 1..n : ls[l + m + j] = q[j]
  <2>1. s \in Seq(Lines) /\ q \in Seq(Lines)
    BY <1>1, <1>2
  <2> HIDE DEF ls
  <2>2. Enclosed(Lines, p, s, q, Between(p, s, q))
    BY <2>1, BetweenFacts
  <2>3. QED
    BY <2>2 DEF ls, Enclosed
<1>5. /\ new \in Seq(Lines) /\ Len(new) = l + Len(t) + n
      /\ \A j \in 1..l : new[j] = p[j]
      /\ \A j \in 1..Len(t) : new[l + j] = t[j]
      /\ \A j \in 1..n : new[l + Len(t) + j] = q[j]
  <2>1. t \in Seq(Lines) /\ q \in Seq(Lines)
    BY <1>2, <1>3
  <2> HIDE DEF new
  <2>2. Enclosed(Lines, p, t, q, Between(p, t, q))
    BY <2>1, BetweenFacts
  <2>3. QED
    BY <2>2 DEF new, Enclosed
<1> HIDE DEF new, ls
<1>6. /\ old \in Seq(Lines) /\ Len(old) = N
      /\ \A j \in 1..N : old[j] = IF j = l + 1 THEN e ELSE ls[j]
  <2>1. ls \in Seq(Lines) /\ l + 1 \in 1..Len(ls)
    BY <1>1, <1>2, <1>4
  <2> HIDE DEF l
  <2>2. QED
    BY <2>1, ExceptSeq DEF ReplaceAt
<1> HIDE DEF old, l, m, n, N
<1>7. ASSUME NEW j \in 1..N PROVE old[j] = new[j]
  <2>1. CASE j <= l
    <3>1. j \in 1..l /\ j # l + 1
      BY <1>2, <2>1
    <3>2. QED
      BY <1>4, <1>5, <1>6, <3>1
  <2>2. CASE j > l /\ j <= l + m
    <3>1. j - l \in 1..m /\ l + (j - l) = j /\ (j = l + 1 <=> j - l = 1)
      BY <1>1, <1>2, <2>2
    <3>2. new[j] = t[j - l] /\ ls[j] = s[j - l]
      BY <1>3, <1>4, <1>5, <3>1
    <3>3. QED
      BY <1>3, <1>6, <3>1, <3>2
  <2>3. CASE j > l + m
    <3>1. j - (l + m) \in 1..n /\ l + m + (j - (l + m)) = j /\ j # l + 1
      BY <1>1, <1>2, <1>4, <2>3
    <3>2. new[j] = q[j - (l + m)] /\ ls[j] = q[j - (l + m)]
      BY <1>3, <1>4, <1>5, <3>1
    <3>3. QED
      BY <1>6, <3>1, <3>2
  <2>4. j \in Int /\ l \in Int /\ m \in Int
    BY <1>1, <1>2, <1>4
  <2>5. QED
    BY <2>1, <2>2, <2>3, <2>4
<1>8. old = new
  <2>1. Len(old) = Len(new) /\ \A j \in 1..Len(old) : old[j] = new[j]
    BY <1>3, <1>4, <1>5, <1>6, <1>7
  <2>2. old \in Seq(Lines) /\ new \in Seq(Lines)
    BY <1>5, <1>6
  <2>3. QED
    BY <2>1, <2>2, SeqEqual
<1>9. t \in MediaSections
  <2>1. t \in Seq(Lines) /\ Len(t) # 0 /\ IsMedia(t[1])
    BY <1>1, <1>3
  <2>2. \A j \in 2..Len(t) : ~IsMedia(t[j]) /\ t[j] # Blank
    BY <1>1, <1>3
  <2>3. QED
    BY <2>1, <2>2, SectionFromElements
<1>10. t[1] = e /\ \A j \in 2..m : t[j] = s[j]
  BY <1>1, <1>3
<1>11. QED
  BY <1>3, <1>8, <1>9, <1>10 DEF t, new, old, ls, l, m

\* The section t is s with the rtpmap line that is offered, unless there is
\* none or s maps the payload type already.
RtpmapGiven(s, t, offered) ==
    IF \/ offered.rtpmap = Blank
       \/ \E j \in 2..Len(s) : MapsPayload(s[j], offered.payload)
      THEN t = s
      ELSE Grown(s, t, offered.rtpmap)

MapsInText(p, s, q, offered) ==
    \E t : /\ WithRtpmap(Between(p, s, q), Len(p) + 1, offered) = Between(p, t, q)
           /\ RtpmapGiven(s, t, offered)

\* The search for the payload type finds what the section has.
LEMMA MapsFound ==
    ASSUME NEW p \in Seq(Lines), NEW s \in MediaSections, NEW q, Closed(q),
           NEW ls, ls = Between(p, s, q), NEW i, i = Len(p) + 1, NEW payload
    PROVE  HasLine(SubSeq(ls, i, SectionEnd(ls, i) - 1),
                   LAMBDA line : MapsPayload(line, payload)) <=>
             \E j \in 2..Len(s) : MapsPayload(s[j], payload)
<1> DEFINE l == Len(p)
           m == Len(s)
           end == SectionEnd(ls, i)
           part == SubSeq(ls, i, end - 1)
           Maps(line) == MapsPayload(line, payload)
<1>1. /\ ls \in Seq(Lines) /\ i \in 1..Len(ls)
      /\ \A j \in 1..m : ls[l + j] = s[j]
      /\ end \in (i + 1)..(Len(ls) + 1)
      /\ \A j \in 2..m : l + j \in (i + 1)..(end - 1)
      /\ \A j \in (i + 1)..(end - 1) : ls[j] = Blank \/ j - l \in 2..m
  <2>1. InText(p, s, ls, i)
    BY SectionPlaces
  <2>2. QED
    BY <2>1 DEF InText
<1>2. /\ l \in Nat /\ m \in Nat /\ i = l + 1 /\ Len(ls) \in Nat
      /\ \A j \in 2..m : j \in 1..m
  <2>1. Len(ls) \in Nat
    BY <1>1
  <2>2. m \in Nat /\ \A j \in 2..m : j \in 1..m
    BY SectionElements
  <2>3. QED
    BY <2>1, <2>2
<1> HIDE DEF end, m
<1>3. end \in Nat /\ end - 1 \in i..Len(ls) /\ (end - 1) - i + 1 = end - i
  BY <1>1, <1>2
<1>4. Len(part) = end - i /\ \A j \in 1..(end - i) : part[j] = ls[i + j - 1]
  <2>1. ls \in Seq(Lines) /\ i \in 1..Len(ls) /\ end - 1 \in i..Len(ls)
    BY <1>1, <1>3
  <2>2. /\ Len(part) = (end - 1) - i + 1
        /\ \A j \in 1..((end - 1) - i + 1) : part[j] = ls[i + j - 1]
    BY <2>1, PartOf
  <2>3. QED
    BY <1>3, <2>2
<1> HIDE DEF part
<1>5. ~Maps(Blank)
  <2>1. Blank.kind = "" /\ "a" # ""
    BY DEF Blank, Line
  <2>2. QED
    BY <2>1 DEF MapsPayload, IsAttr
<1> HIDE DEF Maps, l
<1>6. ASSUME NEW j \in 2..Len(part), Maps(part[j])
      PROVE  \E k \in 2..m : Maps(s[k])
  <2>1. /\ j \in 1..(end - i) /\ i + j - 1 \in (i + 1)..(end - 1)
    BY <1>2, <1>3, <1>4
  <2>2. Maps(ls[i + j - 1])
    BY <1>4, <1>6, <2>1
  <2>3. (i + j - 1) - l \in 2..m
    BY <1>1, <1>5, <2>1, <2>2
  <2>4. l + ((i + j - 1) - l) = i + j - 1
    BY <1>2, <2>1
  <2>5. ls[i + j - 1] = s[(i + j - 1) - l]
    BY <1>1, <1>2, <2>3, <2>4
  <2>6. QED
    BY <2>2, <2>3, <2>5
<1>7. ASSUME NEW k \in 2..m, Maps(s[k])
      PROVE  \E j \in 2..Len(part) : Maps(part[j])
  <2>1. l + k \in (i + 1)..(end - 1) /\ ls[l + k] = s[k]
    BY <1>1, <1>2
  <2>2. /\ (l + k) - i + 1 \in 1..(end - i) /\ (l + k) - i + 1 \in 2..(end - i)
        /\ i + ((l + k) - i + 1) - 1 = l + k
    BY <1>2, <1>3, <2>1
  <2>3. part[(l + k) - i + 1] = ls[l + k]
    BY <1>4, <2>2
  <2>4. QED
    BY <1>4, <1>7, <2>1, <2>2, <2>3
<1>8. (\E j \in 2..Len(part) : Maps(part[j])) <=> \E j \in 2..m : Maps(s[j])
  BY <1>6, <1>7
<1>9. QED
  BY <1>8 DEF HasLine, part, Maps, m, end

LEMMA RtpmapInText ==
    ASSUME NEW p \in Seq(Lines), NEW s \in MediaSections, NEW q, Closed(q),
           NEW offered, offered.rtpmap \in Lines
    PROVE  MapsInText(p, s, q, offered)
<1> DEFINE l == Len(p)
           m == Len(s)
           i == l + 1
           ls == Between(p, s, q)
           end == SectionEnd(ls, i)
           attrs == {j \in (i + 1)..(end - 1) : ls[j].kind = "a"}
           at == Min(attrs \union {end})
           place == InsertPlace(ls, at)
           none == \/ offered.rtpmap = Blank
                   \/ \E j \in 2..m : MapsPayload(s[j], offered.payload)
           e == offered.rtpmap
<1>1. /\ ls \in Seq(Lines) /\ i \in 1..Len(ls)
      /\ end \in (i + 1)..(Len(ls) + 1)
      /\ InsertPlace(ls, end) = l + m + 1
      /\ \A j \in (i + 1)..(end - 1) :
           ls[j] = Blank \/ (j - l \in 2..m /\ j < Len(ls) + 1)
  <2>1. InText(p, s, ls, i)
    BY SectionPlaces
  <2>2. QED
    BY <2>1 DEF InText
<1>2. s \in Seq(Lines) /\ m \in Nat /\ l \in Nat /\ q \in Seq(Lines) /\ 1 \in 1..m
  BY SectionElements DEF Closed
<1>3. WithRtpmap(ls, i, offered) = IF none THEN ls ELSE InsertAt(ls, place, e)
  <2>1. HasLine(SubSeq(ls, i, end - 1),
                LAMBDA line : MapsPayload(line, offered.payload)) <=>
          \E j \in 2..m : MapsPayload(s[j], offered.payload)
    BY MapsFound
  <2>2. QED
    BY <2>1 DEF WithRtpmap
<1>4. CASE none
  <2>1. RtpmapGiven(s, s, offered)
    BY <1>4 DEF RtpmapGiven
  <2>2. QED
    BY <1>3, <1>4, <2>1 DEF MapsInText
<1>5. CASE ~none
  <2>1. place - l \in 2..(m + 1) /\ l + (place - l) = place
    <3> HIDE DEF ls, end, l, m
    <3>1. CASE attrs = {}
      <4>1. attrs \union {end} = {end} /\ end \in Nat
        BY <1>1, <1>2, <3>1
      <4> HIDE DEF attrs
      <4>2. at \in {end}
        <5>1. {end} \subseteq Nat /\ {end} # {}
          BY <4>1
        <5>2. Min({end}) \in {end}
          BY <5>1, MinIsLeast
        <5>3. QED
          BY <4>1, <5>2
      <4>3. place = l + m + 1
        BY <1>1, <4>2
      <4> HIDE DEF place
      <4>4. QED
        BY <1>2, <4>3
    <3>2. CASE attrs # {}
      <4> DEFINE S == attrs \union {end}
      <4>1. S \subseteq Nat /\ S # {} /\ attrs \subseteq (i + 1)..(end - 1)
        BY <1>1, <1>2
      <4>2. \A j \in attrs : ls[j].kind = "a" /\ j \in S /\ end \in Nat
        BY <1>1, <1>2
      <4> HIDE DEF attrs
      <4>3. S = attrs \union {end}
        OBVIOUS
      <4> HIDE DEF S
      <4>4. Min(S) \in S /\ \A y \in S : Min(S) <= y
        BY <4>1, MinIsLeast
      <4>5. at = Min(S)
        BY <4>3
      <4> HIDE DEF at
      <4>6. at \in attrs
        <5>1. PICK y : y \in attrs
          BY <3>2
        <5>2. y < end /\ y \in S
          BY <1>2, <4>1, <4>2, <5>1
        <5>3. at <= y
          BY <4>4, <4>5, <5>2
        <5>4. at # end
          <6>1. y \in Int /\ end \in Int
            BY <4>1, <4>2, <5>1, <5>2
          <6>2. QED
            BY <5>2, <5>3, <6>1
        <5>5. QED
          BY <4>3, <4>4, <4>5, <5>4
      <4>7. ls[at] # Blank
        BY <4>2, <4>6, AttrIsLine
      <4>8. at - l \in 2..m /\ at < Len(ls) + 1 /\ at \in Int
        BY <1>1, <1>2, <4>1, <4>6, <4>7
      <4>9. place = at
        BY <4>8 DEF InsertPlace
      <4> HIDE DEF place
      <4>10. QED
        BY <1>2, <4>8, <4>9
    <3>3. QED
      BY <3>1, <3>2
  <2> DEFINE x == place - l
             t == InsertAt(s, x, e)
  <2>2. WithRtpmap(ls, i, offered) = InsertAt(ls, place, e)
    BY <1>3, <1>5
  <2> HIDE DEF place, none
  <2>3. x \in 2..(Len(s) + 1) /\ Len(p) + x = place
    BY <2>1
  <2> HIDE DEF x
  <2>4. InsertAt(ls, Len(p) + x, e) = Between(p, t, q) /\ Grown(s, t, e)
    <3>1. s \in Seq(Lines) /\ q \in Seq(Lines) /\ e \in Lines
      BY <1>2
    <3>2. QED
      BY <2>3, <3>1, InsertedInText
  <2> HIDE DEF t
  <2>5. RtpmapGiven(s, t, offered)
    BY <1>5, <2>4 DEF RtpmapGiven, none
  <2>6. WithRtpmap(ls, i, offered) = Between(p, t, q)
    BY <2>2, <2>3, <2>4
  <2>7. QED
    BY <2>5, <2>6 DEF MapsInText
<1>6. QED
  BY <1>4, <1>5

-----------------------------------------------------------------------------
(* The directions of a section *)

Off(s) == [j \in DOMAIN s |-> IF s[j] \in Directions THEN Inactive ELSE s[j]]

\* The section has a direction, or is inactive already.
Directed(s) == \E j \in 2..Len(s) : s[j] \in Directions \union {Inactive}

LEMMA DirectedInText ==
    ASSUME NEW p \in Seq(Lines), NEW s \in MediaSections, NEW q, Closed(q)
    PROVE  HasDirection(Between(p, s, q), Len(p) + 1) <=> Directed(s)
<1> DEFINE l == Len(p)
           m == Len(s)
           i == l + 1
           ls == Between(p, s, q)
           D == Directions \union {Inactive}
<1>1. /\ \A j \in 1..m : ls[l + j] = s[j]
      /\ \A j \in 2..m : l + j \in InSection(ls, i)
      /\ \A j \in InSection(ls, i) : ls[j] = Blank \/ j - l \in 2..m
  <2>1. InText(p, s, ls, i)
    BY SectionPlaces
  <2>2. QED
    BY <2>1 DEF InText, InSection
<1>2. l \in Nat /\ m \in Nat /\ \A j \in 2..m : j \in 1..m
  BY SectionElements
<1>3. Blank \notin D
  BY DirectionIsLine, InactiveIsLine
<1>4. \A j \in InSection(ls, i) : j \in Int
  <2>1. SectionEnd(ls, i) \in Int
    <3>1. InText(p, s, ls, i)
      BY SectionPlaces
    <3>2. QED
      BY <1>2, <3>1 DEF InText
  <2>2. QED
    BY <1>2, <2>1 DEF InSection
<1> HIDE DEF ls, D, l, m
<1>5. ASSUME NEW j \in InSection(ls, i), ls[j] \in D PROVE \E k \in 2..m : s[k] \in D
  <2>1. j - l \in 2..m
    BY <1>1, <1>3, <1>5
  <2>2. l + (j - l) = j
    BY <1>2, <1>4
  <2>3. ls[j] = s[j - l]
    BY <1>1, <1>2, <2>1, <2>2
  <2>4. QED
    BY <1>5, <2>1, <2>3
<1>6. ASSUME NEW k \in 2..m, s[k] \in D PROVE \E j \in InSection(ls, i) : ls[j] \in D
  BY <1>1, <1>2, <1>6
<1>7. QED
  BY <1>5, <1>6 DEF HasDirection, Directed, D, ls, m, l

LEMMA OffLines ==
    ASSUME NEW s \in MediaSections
    PROVE  /\ Off(s) \in MediaSections /\ Len(Off(s)) = Len(s)
           /\ Off(s)[1] = s[1]
           /\ \A j \in 1..Len(s) :
                Off(s)[j] = IF s[j] \in Directions THEN Inactive ELSE s[j]
<1> DEFINE m == Len(s)
           t == Off(s)
<1>1. /\ s \in Seq(Lines) /\ m \in Nat /\ 1 \in 1..m /\ IsMedia(s[1])
      /\ \A j \in 1..m : s[j] # Blank
      /\ \A j \in 2..m : ~IsMedia(s[j]) /\ j \in 1..m
  BY SectionElements
<1>2. Inactive \in Lines
  BY NewLinesTyped
<1>3. DOMAIN s = 1..m /\ \A j \in 1..m : s[j] \in Lines
  BY <1>1
<1>4. t = [j \in 1..m |-> IF s[j] \in Directions THEN Inactive ELSE s[j]]
  BY <1>3 DEF Off
<1> HIDE DEF t, m
<1>5. t \in [1..m -> Lines]
  BY <1>2, <1>3, <1>4
<1>6. t \in Seq(Lines) /\ Len(t) = m
  BY <1>1, <1>5
<1>7. \A j \in 1..m : t[j] = IF s[j] \in Directions THEN Inactive ELSE s[j]
  BY <1>4
<1>8. t[1] = s[1]
  BY <1>1, <1>7, DirectionIsLine
<1>9. t \in MediaSections
  <2>1. \A j \in 2..Len(t) : ~IsMedia(t[j]) /\ t[j] # Blank
    BY <1>1, <1>6, <1>7, InactiveIsLine
  <2>2. Len(t) # 0 /\ IsMedia(t[1])
    BY <1>1, <1>6, <1>8
  <2>3. QED
    BY <1>6, <2>1, <2>2, SectionFromElements
<1>10. Len(t) = Len(s)
  BY <1>6 DEF m
<1>11. \A j \in 1..Len(s) :
         t[j] = IF s[j] \in Directions THEN Inactive ELSE s[j]
  BY <1>7 DEF m
<1>12. QED
  BY <1>8, <1>9, <1>10, <1>11 DEF t

LEMMA OffInText ==
    ASSUME NEW p \in Seq(Lines), NEW s \in MediaSections, NEW q, Closed(q)
    PROVE  DirectionsOff(Between(p, s, q), Len(p) + 1) = Between(p, Off(s), q)
<1> DEFINE l == Len(p)
           m == Len(s)
           n == Len(q)
           i == l + 1
           t == Off(s)
           ls == Between(p, s, q)
           N == Len(ls)
           new == Between(p, t, q)
           old == DirectionsOff(ls, i)
           In == InSection(ls, i)
<1>1. s \in Seq(Lines) /\ m \in Nat /\ IsMedia(s[1])
  BY SectionElements
<1>2. q \in Seq(Lines) /\ n \in Nat /\ l \in Nat
  BY DEF Closed
<1>3. /\ t \in Seq(Lines) /\ Len(t) = m
      /\ \A j \in 1..m : t[j] = IF s[j] \in Directions THEN Inactive ELSE s[j]
  BY OffLines, SectionElements
<1> HIDE DEF t
<1>4. /\ ls \in Seq(Lines) /\ N = l + m + n
      /\ \A j \in 1..l : ls[j] = p[j]
      /\ \A j \in 1..m : ls[l + j] = s[j]
      /\ \A j \in 1..n : ls[l + m + j] = q[j]
  <2>1. s \in Seq(Lines) /\ q \in Seq(Lines)
    BY <1>1, <1>2
  <2>2. Enclosed(Lines, p, s, q, Between(p, s, q))
    BY <2>1, BetweenFacts
  <2>3. QED
    BY <2>2 DEF Enclosed
<1>5. /\ new \in Seq(Lines) /\ Len(new) = l + m + n
      /\ \A j \in 1..l : new[j] = p[j]
      /\ \A j \in 1..m : new[l + j] = t[j]
      /\ \A j \in 1..n : new[l + m + j] = q[j]
  <2>1. t \in Seq(Lines) /\ q \in Seq(Lines)
    BY <1>2, <1>3
  <2>2. Enclosed(Lines, p, t, q, Between(p, t, q))
    BY <2>1, BetweenFacts
  <2>3. QED
    BY <1>3, <2>2 DEF Enclosed
<1> HIDE DEF new
<1>6. /\ \A j \in 2..m : l + j \in In
      /\ \A j \in In : j > i
      /\ \A j \in In : ls[j] = Blank \/ j - l \in 2..m
  <2>1. InText(p, s, ls, i)
    BY SectionPlaces
  <2> HIDE DEF ls
  <2>2. i \in Int /\ SectionEnd(ls, i) \in Int
    BY <1>2, <2>1 DEF InText
  <2>3. QED
    BY <2>1, <2>2 DEF InText, InSection
<1> HIDE DEF ls, In
<1>7. old = [j \in 1..N |-> IF j \in In /\ ls[j] \in Directions
                              THEN Inactive ELSE ls[j]]
  <2>1. DOMAIN ls = 1..N
    BY <1>4
  <2>2. QED
    BY <2>1 DEF DirectionsOff, In
<1> HIDE DEF old, N, l, m, n
<1>8. old \in Seq(Lines) /\ Len(old) = N
  <2>1. N \in Nat /\ \A j \in 1..N : ls[j] \in Lines
    <3>1. ls \in Seq(Lines)
      BY <1>4
    <3>2. QED
      BY <3>1 DEF N
  <2>2. Inactive \in Lines
    BY NewLinesTyped
  <2>3. old \in [1..N -> Lines]
    BY <1>7, <2>1, <2>2
  <2>4. QED
    BY <2>1, <2>3
<1>9. ASSUME NEW j \in 1..N PROVE old[j] = new[j]
  <2>1. old[j] = IF j \in In /\ ls[j] \in Directions THEN Inactive ELSE ls[j]
    BY <1>7
  <2>2. CASE j <= i
    <3>1. j \notin In
      BY <1>2, <1>4, <1>6, <2>2
    <3>2. old[j] = ls[j]
      BY <2>1, <3>1
    <3>3. CASE j <= l
      <4>1. j \in 1..l
        BY <1>2, <3>3
      <4>2. QED
        BY <1>4, <1>5, <3>2, <4>1
    <3>4. CASE ~(j <= l) /\ m # 0
      <4>1. j = l + 1 /\ 1 \in 1..m
        BY <1>1, <1>2, <2>2, <3>4
      <4>2. t[1] = s[1]
        BY <1>1, <1>3, <4>1, DirectionIsLine
      <4>3. QED
        BY <1>4, <1>5, <3>2, <4>1, <4>2
    <3>5. m # 0
      BY SectionElements DEF m
    <3>6. QED
      BY <3>3, <3>4, <3>5
  <2>3. CASE ~(j <= i) /\ j <= l + m
    <3>1. j - l \in 2..m /\ j - l \in 1..m /\ l + (j - l) = j
      BY <1>1, <1>2, <2>3
    <3>2. j \in In
      BY <1>6, <3>1
    <3>3. ls[j] = s[j - l] /\ new[j] = t[j - l]
      BY <1>4, <1>5, <3>1
    <3>4. QED
      BY <1>3, <2>1, <3>1, <3>2, <3>3
  <2>4. CASE j > l + m
    <3>1. /\ j - (l + m) \in 1..n /\ l + m + (j - (l + m)) = j
          /\ ~(j - l \in 2..m)
      BY <1>1, <1>2, <1>4, <2>4
    <3>2. ls[j] = new[j]
      BY <1>4, <1>5, <3>1
    <3>3. j \in In => ls[j] \notin Directions
      BY <1>6, <3>1, DirectionIsLine
    <3>4. QED
      BY <2>1, <3>2, <3>3
  <2>5. j \in Int /\ i \in Int /\ l + m \in Int
    BY <1>1, <1>2, <1>4
  <2>6. QED
    BY <2>2, <2>3, <2>4, <2>5
<1>10. old = new
  <2>1. Len(old) = Len(new) /\ \A j \in 1..Len(old) : old[j] = new[j]
    BY <1>4, <1>5, <1>8, <1>9
  <2>2. old \in Seq(Lines) /\ new \in Seq(Lines)
    BY <1>5, <1>8
  <2>3. QED
    BY <2>1, <2>2, SeqEqual
<1>11. QED
  BY <1>10 DEF old, new, t, ls, l

LEMMA InactiveInText ==
    ASSUME NEW p \in Seq(Lines), NEW s \in MediaSections, NEW q, Closed(q),
           NEW ls, ls = Between(p, s, q), NEW i, i = Len(p) + 1
    PROVE  /\ InsertAt(ls, InsertPlace(ls, SectionEnd(ls, i)), Inactive) =
                Between(p, InsertAt(s, Len(s) + 1, Inactive), q)
           /\ Grown(s, InsertAt(s, Len(s) + 1, Inactive), Inactive)
<1> DEFINE at == Len(s) + 1
<1>1. InText(p, s, ls, i)
  BY SectionPlaces
<1>2. s \in Seq(Lines) /\ q \in Seq(Lines) /\ Inactive \in Lines
  BY SectionElements, NewLinesTyped DEF Closed
<1>3. at \in 2..(Len(s) + 1) /\ Len(p) + Len(s) + 1 = Len(p) + at
  <2>1. Len(s) \in Nat /\ 1 \in 1..Len(s) /\ Len(p) \in Nat
    BY SectionElements
  <2>2. QED
    BY <2>1
<1>4. InsertPlace(ls, SectionEnd(ls, i)) = Len(p) + at
  BY <1>1, <1>3 DEF InText
<1> HIDE DEF at
<1>5. /\ InsertAt(Between(p, s, q), Len(p) + at, Inactive) =
           Between(p, InsertAt(s, at, Inactive), q)
      /\ Grown(s, InsertAt(s, at, Inactive), Inactive)
  <2>1. at \in 2..(Len(s) + 1)
    BY <1>3
  <2>2. QED
    BY <1>2, <2>1, InsertedInText
<1>6. QED
  BY <1>4, <1>5 DEF at

-----------------------------------------------------------------------------
(* What a rejected video section echoes *)

Mapping(payload) == {line \in Lines : MapsPayload(line, payload)}
OtherLines == {line \in Lines : ~Added(line)}
MidLines == {line \in Lines : IsMid(line)}

\* Lines the video pass takes for neither an m= line nor a direction.
Plain(K) ==
    \A line \in K :
      ~IsMedia(line) /\ line \notin Directions /\ line # Inactive

LEMMA PlainLines ==
    ASSUME NEW payload
    PROVE  Plain(Mapping(payload)) /\ Plain(OtherLines) /\ Plain(MidLines)
<1>1. ASSUME NEW line, line.kind = "a", line.name \in {"rtpmap", "mid"}
      PROVE  ~IsMedia(line) /\ line \notin Directions /\ line # Inactive
  <2>1. ~IsMedia(line)
    BY <1>1, AttrIsLine
  <2>2. \A d : Attr(d, <<>>).name = d
    BY DEF Attr, Line
  <2>3. line # Inactive
    <3>1. Inactive.name = "inactive"
      BY <2>2 DEF Inactive
    <3>2. QED
      BY <1>1, <3>1
  <2>4. ASSUME line \in Directions PROVE FALSE
    <3>1. PICK d \in {"sendrecv", "sendonly", "recvonly"} : line = Attr(d, <<>>)
      BY <2>4 DEF Directions
    <3>2. line.name = d
      BY <2>2, <3>1
    <3>3. QED
      BY <1>1, <3>1, <3>2
  <2>5. QED
    BY <2>1, <2>3, <2>4
<1>2. Plain(Mapping(payload))
  BY <1>1 DEF Plain, Mapping, MapsPayload, IsAttr
<1>3. Plain(MidLines)
  BY <1>1 DEF Plain, MidLines, IsMid, IsAttr
<1>4. Plain(OtherLines)
  BY DEF Plain, OtherLines, Added, IsMedia
<1>5. QED
  BY <1>2, <1>3, <1>4

\* Of what is offered nothing but a line for the payload type is put in.
Offerable(offered) ==
    /\ offered.rtpmap \in Lines
    /\ offered.rtpmap = Blank \/ MapsPayload(offered.rtpmap, offered.payload)
    /\ Media("video", "0", <<offered.payload>>) \in Lines

\* The section t is the rejected section s, normalised.
Echoes(s, t, offered) ==
    /\ t[1] = Media("video", "0", <<offered.payload>>)
    /\ Inactive \in Range(t) /\ Range(t) \intersect Directions = {}
    /\ Only(t, Mapping(offered.payload)) =
         IF Only(s, Mapping(offered.payload)) = <<>> /\ offered.rtpmap # Blank
           THEN <<offered.rtpmap>> ELSE Only(s, Mapping(offered.payload))
    /\ Only(t, OtherLines) = Only(s, OtherLines)
    /\ Only(t, MidLines) = Only(s, MidLines)

\* The m= line and the directions are none of the plain lines.
LEMMA ReplacedOnly ==
    ASSUME NEW s \in MediaSections, NEW t \in MediaSections, Len(t) = Len(s),
           \A j \in 2..Len(s) : t[j] = s[j], NEW K, Plain(K)
    PROVE  Only(t, K) = Only(s, K)
<1>1. s \in Seq(Lines) /\ t \in Seq(Lines) /\ IsMedia(s[1]) /\ IsMedia(t[1])
  BY SectionElements
<1>2. s[1] \notin K /\ t[1] \notin K
  BY <1>1 DEF Plain
<1>3. \A j \in 1..Len(t) : j = 1 \/ j \in 2..Len(s)
  BY <1>1
<1>4. \A j \in 1..Len(t) : t[j] = s[j] \/ (t[j] \notin K /\ s[j] \notin K)
  BY <1>2, <1>3
<1>5. QED
  BY <1>1, <1>4, OnlySame

LEMMA OffOnly ==
    ASSUME NEW s \in MediaSections, NEW K, Plain(K)
    PROVE  Only(Off(s), K) = Only(s, K)
<1> DEFINE t == Off(s)
<1>1. /\ t \in MediaSections /\ Len(t) = Len(s)
      /\ \A j \in 1..Len(s) :
           t[j] = IF s[j] \in Directions THEN Inactive ELSE s[j]
  BY OffLines
<1> HIDE DEF t
<1>2. s \in Seq(Lines) /\ t \in Seq(Lines)
  BY <1>1, SectionElements
<1>3. \A j \in 1..Len(t) : t[j] = s[j] \/ (t[j] \notin K /\ s[j] \notin K)
  BY <1>1 DEF Plain
<1>4. QED
  BY <1>1, <1>2, <1>3, OnlySame DEF t

\* The last step: all directions are off, or there was none.
Silenced(s, t) ==
    IF Directed(s) THEN t = Off(s) ELSE Grown(s, t, Inactive)

LEMMA SilencedSection ==
    ASSUME NEW s \in MediaSections, NEW t, Silenced(s, t)
    PROVE  /\ t \in MediaSections /\ t[1] = s[1] /\ Len(s) <= Len(t)
           /\ ~Directed(s) => Len(t) >= 2
           /\ Inactive \in Range(t) /\ Range(t) \intersect Directions = {}
           /\ \A K : Plain(K) => Only(t, K) = Only(s, K)
<1>1. /\ s \in Seq(Lines) /\ Len(s) \in Nat /\ 1 \in 1..Len(s) /\ IsMedia(s[1])
      /\ \A j \in 2..Len(s) : j \in 1..Len(s)
  BY SectionElements
<1>2. s[1] \notin Directions
  BY <1>1, DirectionIsLine
<1>3. CASE Directed(s)
  <2>1. t = Off(s)
    BY <1>3 DEF Silenced
  <2>2. /\ t \in MediaSections /\ Len(t) = Len(s) /\ t[1] = s[1]
        /\ \A j \in 1..Len(s) :
             t[j] = IF s[j] \in Directions THEN Inactive ELSE s[j]
    BY <2>1, OffLines
  <2>3. DOMAIN t = 1..Len(s)
    BY <2>2 DEF MediaSections
  <2>4. Inactive \in Range(t)
    <3>1. PICK j \in 2..Len(s) : s[j] \in Directions \union {Inactive}
      BY <1>3 DEF Directed
    <3>2. t[j] = Inactive /\ j \in 1..Len(s)
      BY <1>1, <2>2, <3>1
    <3>3. QED
      BY <2>3, <3>2 DEF Range
  <2>5. Range(t) \intersect Directions = {}
    <3>1. Inactive \notin Directions
      <4>1. Inactive.name = "inactive" /\ \A d : Attr(d, <<>>).name = d
        BY DEF Inactive, Attr, Line
      <4>2. QED
        BY <4>1 DEF Directions
    <3>2. \A j \in 1..Len(s) : t[j] \notin Directions
      BY <2>2, <3>1
    <3>3. QED
      BY <2>3, <3>2 DEF Range
  <2>6. \A K : Plain(K) => Only(t, K) = Only(s, K)
    BY <2>1, OffOnly
  <2>7. QED
    BY <1>1, <1>3, <2>2, <2>4, <2>5, <2>6
<1>4. CASE ~Directed(s)
  <2>1. Grown(s, t, Inactive) /\ Inactive \in Lines
    BY <1>4, NewLinesTyped DEF Silenced
  <2>2. /\ Len(t) = Len(s) + 1 /\ t[1] = s[1]
        /\ Range(t) = Range(s) \union {Inactive}
    BY <2>1, GrownLines
  <2>3. t \in MediaSections
    BY <2>1, GrownSection, InactiveIsLine
  <2>4. Range(t) \intersect Directions = {}
    <3>1. Inactive \notin Directions
      <4>1. Inactive.name = "inactive" /\ \A d : Attr(d, <<>>).name = d
        BY DEF Inactive, Attr, Line
      <4>2. QED
        BY <4>1 DEF Directions
    <3>2. \A j \in 1..Len(s) : j = 1 \/ j \in 2..Len(s)
      BY <1>1
    <3>3. \A j \in 1..Len(s) : s[j] \notin Directions
      BY <1>2, <1>4, <3>2 DEF Directed
    <3>4. DOMAIN s = 1..Len(s)
      BY <1>1
    <3>5. QED
      BY <2>2, <3>1, <3>3, <3>4 DEF Range
  <2>5. ASSUME NEW K, Plain(K) PROVE Only(t, K) = Only(s, K)
    <3>1. Inactive \notin K
      BY <2>5 DEF Plain
    <3>2. QED
      BY <2>1, <3>1, GrownOnly
  <2>6. Len(t) >= 2 /\ Len(s) <= Len(t)
    BY <1>1, <2>2
  <2>7. QED
    BY <2>2, <2>3, <2>4, <2>5, <2>6
<1>5. QED
  BY <1>3, <1>4

\* The steps of one iteration, on the section alone.
LEMMA EchoesBySteps ==
    ASSUME NEW s \in MediaSections, NEW u \in MediaSections, NEW v, NEW t,
           NEW offered, Offerable(offered), Len(u) = Len(s),
           u[1] = Media("video", "0", <<offered.payload>>),
           \A j \in 2..Len(s) : u[j] = s[j],
           RtpmapGiven(u, v, offered), Silenced(v, t)
    PROVE  /\ v \in MediaSections /\ t \in MediaSections
           /\ Echoes(s, t, offered)
           /\ ~Directed(v) => Len(t) >= 2
<1> DEFINE K == Mapping(offered.payload)
           e == offered.rtpmap
           found == \E j \in 2..Len(u) : MapsPayload(u[j], offered.payload)
<1>1. Plain(K) /\ Plain(OtherLines) /\ Plain(MidLines)
  BY PlainLines
<1>2. e \in Lines /\ (e # Blank => MapsPayload(e, offered.payload))
  BY DEF Offerable
<1>3. e # Blank => ~IsMedia(e) /\ e \in K /\ e \notin OtherLines /\ e \notin MidLines
  <2> SUFFICES ASSUME e # Blank
               PROVE ~IsMedia(e) /\ e \in K /\ e \notin OtherLines /\ e \notin MidLines
    OBVIOUS
  <2>1. e.kind = "a" /\ e.name = "rtpmap" /\ e \in K
    BY <1>2 DEF MapsPayload, IsAttr, Mapping
  <2>2. e \notin OtherLines
    BY <2>1 DEF OtherLines, Added
  <2>3. e \notin MidLines
    BY <2>1 DEF MidLines, IsMid, IsAttr
  <2>4. QED
    BY <2>1, <2>2, <2>3, AttrIsLine
<1>4. \A P : Plain(P) => Only(u, P) = Only(s, P)
  BY ReplacedOnly
<1>5. Only(u, K) = <<>> <=> ~found
  <2>1. u \in Seq(Lines) /\ IsMedia(u[1]) /\ Len(u) \in Nat /\ 1 \in 1..Len(u)
    BY SectionElements
  <2>2. Only(u, K) = <<>> <=> \A j \in 1..Len(u) : u[j] \notin K
    BY <2>1, OnlyEmpty
  <2>3. u[1] \notin K
    BY <1>1, <2>1 DEF Plain
  <2>4. \A j \in 1..Len(u) : j = 1 \/ j \in 2..Len(u)
    BY <2>1
  <2>5. \A j \in 2..Len(u) : j \in 1..Len(u) /\ u[j] \in Lines
    BY <2>1
  <2>6. \A j \in 2..Len(u) : u[j] \in K <=> MapsPayload(u[j], offered.payload)
    BY <2>5 DEF Mapping
  <2>7. QED
    BY <2>2, <2>3, <2>4, <2>5, <2>6
<1> HIDE DEF K, e, found
<1>6. /\ v \in MediaSections /\ v[1] = u[1]
      /\ Only(v, K) = IF Only(u, K) = <<>> /\ e # Blank THEN <<e>> ELSE Only(u, K)
      /\ Only(v, OtherLines) = Only(u, OtherLines)
      /\ Only(v, MidLines) = Only(u, MidLines)
  <2>1. CASE e = Blank \/ found
    <3>1. v = u
      BY <2>1 DEF RtpmapGiven, e, found
    <3>2. QED
      BY <1>5, <2>1, <3>1
  <2>2. CASE e # Blank /\ ~found
    <3>1. Grown(u, v, e)
      BY <2>2 DEF RtpmapGiven, e, found
    <3>2. v \in MediaSections
      BY <1>2, <1>3, <2>2, <3>1, GrownSection
    <3>3. v[1] = u[1]
      BY <1>2, <3>1, GrownLines
    <3>4. Only(v, OtherLines) = Only(u, OtherLines)
      BY <1>2, <1>3, <2>2, <3>1, GrownOnly
    <3>5. Only(v, MidLines) = Only(u, MidLines)
      BY <1>2, <1>3, <2>2, <3>1, GrownOnly
    <3>6. Only(v, K) = <<e>>
      BY <1>2, <1>3, <1>5, <2>2, <3>1, GrownOnly
    <3>7. QED
      BY <1>5, <2>2, <3>2, <3>3, <3>4, <3>5, <3>6
  <2>3. QED
    BY <2>1, <2>2
<1>7. /\ t \in MediaSections /\ t[1] = v[1]
      /\ ~Directed(v) => Len(t) >= 2
      /\ Inactive \in Range(t) /\ Range(t) \intersect Directions = {}
      /\ \A P : Plain(P) => Only(t, P) = Only(v, P)
  BY <1>6, SilencedSection
<1>8. /\ Only(t, K) = IF Only(s, K) = <<>> /\ e # Blank THEN <<e>> ELSE Only(s, K)
      /\ Only(t, OtherLines) = Only(s, OtherLines)
      /\ Only(t, MidLines) = Only(s, MidLines)
  BY <1>1, <1>4, <1>6, <1>7
<1>9. QED
  BY <1>6, <1>7, <1>8 DEF Echoes, K, e

LEMMA RtpmapGivenSection ==
    ASSUME NEW u \in MediaSections, NEW v, NEW offered, Offerable(offered),
           RtpmapGiven(u, v, offered)
    PROVE  v \in MediaSections
<1> DEFINE e == offered.rtpmap
<1>1. CASE v = u
  BY <1>1
<1>2. CASE e # Blank /\ Grown(u, v, e)
  <2>1. e \in Lines /\ e.kind = "a"
    BY <1>2 DEF Offerable, MapsPayload, IsAttr
  <2> HIDE DEF e
  <2>2. ~IsMedia(e) /\ e # Blank
    BY <2>1, AttrIsLine
  <2>3. QED
    BY <1>2, <2>1, <2>2, GrownSection
<1>3. QED
  BY <1>1, <1>2 DEF RtpmapGiven

\* One iteration of normalizeAlexaRejectedVideoPayloads at the section s of a
\* text changes only this section, and goes on in it or right behind it.
TurnInText(p, s, q, offered, next) ==
    \E t \in MediaSections :
      /\ next[1] = Between(p, t, q)
      /\ next[2] \in Nat /\ Len(p) + 2 <= next[2]
      /\ next[2] <= Len(p) + Len(t) + 1
      /\ IF Eligible(s[1], offered.payload) THEN Echoes(s, t, offered)
                                            ELSE t = s

LEMMA VideoSectionInText ==
    ASSUME NEW p \in Seq(Lines), NEW s \in MediaSections, NEW q, Closed(q),
           NEW offered,
           Eligible(s[1], offered.payload) => Offerable(offered)
    PROVE  TurnInText(p, s, q, offered,
                      VideoSection(Between(p, s, q), Len(p) + 1, offered))
<1> DEFINE i == Len(p) + 1
           e == Media("video", "0", <<offered.payload>>)
           ls == Between(p, s, q)
           echoed == ReplaceAt(ls, i, e)
           mapped == WithRtpmap(echoed, i, offered)
           atEnd == InsertPlace(mapped, SectionEnd(mapped, i))
           next == VideoSection(ls, i, offered)
<1>1. next = IF ~Eligible(ls[i], offered.payload) THEN <<ls, i + 1>>
             ELSE IF HasDirection(mapped, i)
               THEN <<DirectionsOff(mapped, i), i + 1>>
               ELSE <<InsertAt(mapped, atEnd, Inactive), i + 2>>
  BY DEF VideoSection, AfterInsert
<1>2. ls[i] = s[1]
  <2>1. InText(p, s, ls, i)
    BY SectionPlaces
  <2>2. QED
    BY <2>1 DEF InText
<1>3. Len(p) \in Nat /\ \A t \in MediaSections : Len(t) \in Nat /\ Len(t) >= 1
  <2>1. ASSUME NEW t \in MediaSections PROVE Len(t) \in Nat /\ Len(t) >= 1
    BY SectionElements
  <2>2. QED
    BY <2>1
<1>4. CASE ~Eligible(s[1], offered.payload)
  <2>1. next[1] = ls /\ next[2] = i + 1
    BY <1>1, <1>2, <1>4
  <2> HIDE DEF next
  <2>2. next[2] \in Nat /\ Len(p) + 2 <= next[2] /\ next[2] <= Len(p) + Len(s) + 1
    BY <1>3, <2>1
  <2>3. QED
    BY <1>4, <2>1, <2>2 DEF TurnInText, next
<1>5. CASE Eligible(s[1], offered.payload)
  <2> DEFINE u == ReplaceAt(s, 1, e)
  <2>1. Offerable(offered)
    BY <1>5
  <2>2. e \in Lines /\ offered.rtpmap \in Lines
    BY <2>1 DEF Offerable
  <2>3. IsMedia(e)
    BY DEF IsMedia, Media, Line
  <2> HIDE DEF e
  <2>4. /\ u \in MediaSections /\ Len(u) = Len(s) /\ u[1] = e
        /\ \A j \in 2..Len(s) : u[j] = s[j]
        /\ echoed = Between(p, u, q)
    BY <2>2, <2>3, EchoedInText
  <2> HIDE DEF u, echoed
  <2>5. MapsInText(p, u, q, offered)
    BY <2>2, <2>4, RtpmapInText
  <2>6. PICK v : mapped = Between(p, v, q) /\ RtpmapGiven(u, v, offered)
    BY <2>4, <2>5 DEF MapsInText
  <2>7. v \in MediaSections
    BY <2>1, <2>4, <2>6, RtpmapGivenSection
  <2> HIDE DEF mapped
  <2>8. HasDirection(mapped, i) <=> Directed(v)
    BY <2>6, <2>7, DirectedInText
  <2> DEFINE t == IF Directed(v) THEN Off(v)
                  ELSE InsertAt(v, Len(v) + 1, Inactive)
  <2>9. Silenced(v, t) /\ next[1] = Between(p, t, q)
        /\ next[2] = IF Directed(v) THEN i + 1 ELSE i + 2
    <3>1. CASE Directed(v)
      <4>1. DirectionsOff(mapped, i) = Between(p, Off(v), q)
        BY <2>6, <2>7, OffInText
      <4>2. next = <<DirectionsOff(mapped, i), i + 1>>
        BY <1>1, <1>2, <1>5, <2>8, <3>1
      <4>3. QED
        BY <3>1, <4>1, <4>2 DEF Silenced
    <3>2. CASE ~Directed(v)
      <4>1. /\ InsertAt(mapped, atEnd, Inactive) =
                 Between(p, InsertAt(v, Len(v) + 1, Inactive), q)
            /\ Grown(v, InsertAt(v, Len(v) + 1, Inactive), Inactive)
        BY <2>6, <2>7, InactiveInText
      <4>2. next = <<InsertAt(mapped, atEnd, Inactive), i + 2>>
        BY <1>1, <1>2, <1>5, <2>8, <3>2
      <4>3. QED
        BY <3>2, <4>1, <4>2 DEF Silenced
    <3>3. QED
      BY <3>1, <3>2
  <2> HIDE DEF t, next
  <2>10. /\ t \in MediaSections /\ Echoes(s, t, offered)
         /\ ~Directed(v) => Len(t) >= 2
    BY <2>1, <2>4, <2>6, <2>9, EchoesBySteps DEF e
  <2>11. /\ next[2] \in Nat /\ Len(p) + 2 <= next[2]
         /\ next[2] <= Len(p) + Len(t) + 1
    <3>1. Len(t) \in Nat /\ Len(t) >= 1
      BY <1>3, <2>10
    <3>2. QED
      BY <1>3, <2>9, <2>10, <3>1
  <2>12. QED
    BY <1>5, <2>9, <2>10, <2>11 DEF TurnInText, next
<1>6. QED
  BY <1>4, <1>5

-----------------------------------------------------------------------------
(* The sections of a text *)

\* The rtpmap line is one for the payload type, or none.
LEMMA OfferedRtpmap ==
    ASSUME NEW section \in OfferSections
    PROVE  \/ OfferedPayload(section) = NoPayload
           \/ OfferedPayload(section).rtpmap = Blank
           \/ MapsPayload(OfferedPayload(section).rtpmap,
                          OfferedPayload(section).payload)
<1> DEFINE formats == Formats(section[1])
           selected == IF "102" \in Range(formats) THEN "102" ELSE Head(formats)
           places == {i \in 2..Len(section) : MapsPayload(section[i], selected)}
           found == IF places = {} THEN Blank ELSE section[Min(places)]
           offered == OfferedPayload(section)
<1>1. offered = IF formats = <<>> THEN NoPayload
                ELSE [payload |-> selected, rtpmap |-> found]
  BY DEF OfferedPayload, FirstLine
<1> HIDE DEF formats, selected
<1>2. found = Blank \/ MapsPayload(found, selected)
  <2>1. CASE places # {}
    <3>1. IsSection(section)
      BY SectionsAssumption
    <3>2. section \in Seq(Range(section))
      BY <3>1 DEF IsSection
    <3>3. Len(section) \in Nat
      BY <3>2
    <3>4. 2..Len(section) \subseteq Nat
      BY <3>3
    <3>5. places \subseteq Nat
      BY <3>4
    <3>6. Min(places) \in places
      BY <2>1, <3>5, MinIsLeast
    <3>7. MapsPayload(section[Min(places)], selected)
      BY <3>6
    <3> HIDE DEF places
    <3>8. QED
      BY <2>1, <3>7
  <2>2. QED
    BY <2>1
<1> HIDE DEF found, offered
<1>3. CASE formats = <<>>
  BY <1>1, <1>3 DEF offered
<1>4. CASE formats # <<>>
  <2>1. offered = [payload |-> selected, rtpmap |-> found]
    BY <1>1, <1>4
  <2>2. offered.payload = selected /\ offered.rtpmap = found
    BY <2>1
  <2>3. QED
    BY <1>2, <2>2 DEF offered
<1>5. QED
  BY <1>3, <1>4

\* What a section of the offer offers can be put in.
LEMMA OfferedIsOfferable ==
    ASSUME NEW section \in OfferSections, OfferedPayload(section).payload # ""
    PROVE  Offerable(OfferedPayload(section))
<1> DEFINE offered == OfferedPayload(section)
<1>1. offered # NoPayload
  <2>1. NoPayload.payload = ""
    BY DEF NoPayload
  <2>2. QED
    BY <2>1, Zenon
<1>2. offered.rtpmap = Blank \/ MapsPayload(offered.rtpmap, offered.payload)
  BY <1>1, OfferedRtpmap
<1>3. offered.rtpmap \in Lines /\ EchoLine(section) \in Lines
  BY NewLinesTyped
<1>4. QED
  BY <1>2, <1>3 DEF Offerable, EchoLine

LEMMA MediaSectionsTyped ==
    ASSUME NEW secs \in Seq(MediaSections)
    PROVE  secs \in Seq(Seq(Lines))
<1>1. MediaSections \subseteq Seq(Lines)
  BY DEF MediaSections
<1>2. QED
  BY <1>1, SeqMonotonic

LEMMA TextType ==
    ASSUME NEW secs \in Seq(MediaSections)
    PROVE  Text(secs) \in Seq(Lines)
<1>1. FlattenSeq(secs) \in Seq(Lines)
  BY MediaSectionsTyped, FlattenSeqType
<1>2. QED
  BY <1>1, PreambleLines, Joined DEF Text

LEMMA TextEmpty == Text(<<>>) = Preamble
BY FlattenEmpty, PreambleLines DEF Text

\* A section more.
LEMMA TextGrows ==
    ASSUME NEW secs \in Seq(MediaSections), NEW n \in 1..Len(secs)
    PROVE  Text(First(secs, n)) = Text(First(secs, n - 1)) \o secs[n]
<1> DEFINE f == FlattenSeq(First(secs, n - 1))
           s == secs[n]
<1>1. secs \in Seq(Seq(Lines))
  BY MediaSectionsTyped
<1>2. FlattenSeq(First(secs, n)) = f \o s
  BY <1>1, FlattenFirst
<1>3. s \in Seq(Lines)
  BY <1>1
<1>4. f \in Seq(Lines)
  <2>1. n - 1 \in 0..Len(secs)
    OBVIOUS
  <2>2. First(secs, n - 1) \in Seq(Seq(Lines))
    BY <1>1, <2>1, FirstFacts
  <2>3. QED
    BY <2>2, FlattenSeqType
<1> HIDE DEF f, s
<1>5. Preamble \o (f \o s) = (Preamble \o f) \o s
  BY <1>3, <1>4, PreambleLines, JoinedThree
<1>6. QED
  BY <1>2, <1>5 DEF Text, f, s

\* What follows the k-th section.
Behind(secs, k) == FlattenSeq(Rest(secs, k)) \o <<Blank>>

LEMMA BehindClosed ==
    ASSUME NEW secs \in Seq(MediaSections), NEW k \in 0..Len(secs)
    PROVE  Closed(Behind(secs, k))
<1> DEFINE rest == Rest(secs, k)
           f == FlattenSeq(rest)
           end == <<Blank>>
           q == f \o end
<1>1. rest \in Seq(MediaSections)
  BY RestFacts
<1>2. rest \in Seq(Seq(Lines))
  BY <1>1, MediaSectionsTyped
<1> HIDE DEF rest
<1>3. f \in Seq(Lines)
  BY <1>2, FlattenSeqType
<1>4. end \in Seq(Lines) /\ Len(end) = 1 /\ end = <<Blank>>
  BY NewLinesTyped
<1>5. CASE rest = <<>>
  <2>1. f = <<>>
    BY <1>5, FlattenEmpty
  <2> HIDE DEF f
  <2>2. q = <<Blank>>
    BY <2>1
  <2>3. Behind(secs, k) = q
    BY DEF Behind, f, rest
  <2>4. <<Blank>> \in Seq(Lines) /\ <<Blank>> # <<>>
    BY <1>4
  <2>5. QED
    BY <2>2, <2>3, <2>4 DEF Closed
<1>6. CASE rest # <<>>
  <2> DEFINE a == FlattenSeq(First(rest, 0))
             b == rest[1]
             c == FlattenSeq(Rest(rest, 1))
  <2>1. 1 \in 1..Len(rest) /\ 0 \in 0..Len(rest) /\ 1 - 1 = 0 /\ 1 \in 0..Len(rest)
    BY <1>1, <1>6
  <2>2. f = Between(a, b, c)
    BY <1>2, <2>1, FlattenAround
  <2>3. First(rest, 0) = <<>>
    BY DEF First
  <2>4. a = <<>>
    BY <2>3, FlattenEmpty
  <2>5. b \in MediaSections
    BY <1>1, <2>1
  <2>6. b \in Seq(Lines) /\ 1 \in 1..Len(b) /\ IsMedia(b[1])
    BY <2>5, SectionElements
  <2>7. c \in Seq(Lines)
    <3>1. Rest(rest, 1) \in Seq(Seq(Lines))
      BY <1>2, <2>1, RestFacts
    <3>2. QED
      BY <3>1, FlattenSeqType
  <2>8. a \in Seq(Lines) /\ Len(a) = 0
    <3> HIDE DEF a
    <3>1. QED
      BY <2>4
  <2> HIDE DEF a, b, c, f
  <2>9. Enclosed(Lines, a, b, c, f)
    BY <2>2, <2>6, <2>7, <2>8, BetweenFacts
  <2>10. f[1] = b[1] /\ 1 \in 1..Len(f)
    <3>1. Len(f) = Len(a) + Len(b) + Len(c) /\ f[Len(a) + 1] = b[1]
      BY <2>6, <2>9 DEF Enclosed
    <3>2. Len(b) \in Nat /\ Len(c) \in Nat
      BY <2>6, <2>7
    <3>3. QED
      BY <2>6, <2>8, <3>1, <3>2
  <2> HIDE DEF end
  <2>11. /\ q \in Seq(Lines) /\ Len(q) = Len(f) + Len(end)
         /\ \A i \in 1..Len(f) : q[i] = f[i]
    <3>1. f \in Seq(Lines) /\ end \in Seq(Lines)
      BY <1>3, <1>4
    <3>2. QED
      BY <3>1, Joined
  <2> HIDE DEF q
  <2>12. IsMedia(q[1]) /\ q # <<>>
    <3>1. q[1] = b[1]
      BY <2>10, <2>11
    <3>2. Len(q) # 0
      BY <1>3, <1>4, <2>10, <2>11
    <3>3. QED
      BY <2>6, <3>1, <3>2
  <2>13. QED
    BY <2>11, <2>12 DEF Closed, Behind, q, f, rest, end
<1>7. QED
  BY <1>5, <1>6

\* A text around one of its sections.
LEMMA TextAround ==
    ASSUME NEW secs \in Seq(MediaSections), NEW k \in 1..Len(secs)
    PROVE  /\ Text(secs) \o <<Blank>> =
                Between(Text(First(secs, k - 1)), secs[k], Behind(secs, k))
           /\ Text(First(secs, k - 1)) \in Seq(Lines)
           /\ secs[k] \in MediaSections
           /\ Closed(Behind(secs, k))
<1> DEFINE f == FlattenSeq(First(secs, k - 1))
           s == secs[k]
           g == FlattenSeq(Rest(secs, k))
           end == <<Blank>>
           p == Preamble
<1>1. secs \in Seq(Seq(Lines)) /\ k - 1 \in 0..Len(secs) /\ k \in 0..Len(secs)
  BY MediaSectionsTyped
<1>2. FlattenSeq(secs) = (f \o s) \o g
  BY <1>1, FlattenAround DEF Between
<1>3. s \in MediaSections /\ s \in Seq(Lines)
  BY <1>1
<1>4. f \in Seq(Lines)
  BY <1>1, FirstFacts, FlattenSeqType
<1>5. g \in Seq(Lines)
  BY <1>1, RestFacts, FlattenSeqType
<1>6. end \in Seq(Lines) /\ p \in Seq(Lines)
  BY NewLinesTyped, PreambleLines
<1>7. First(secs, k - 1) \in Seq(MediaSections)
  BY <1>1, FirstFacts
<1>8. Text(First(secs, k - 1)) \in Seq(Lines)
  BY <1>7, TextType
<1>9. Closed(Behind(secs, k))
  BY <1>1, BehindClosed
<1> HIDE DEF f, s, g, end, p
<1>10. f \o s \in Seq(Lines) /\ p \o f \in Seq(Lines)
  <2>1. s \in Seq(Lines)
    BY <1>3
  <2>2. QED
    BY <1>4, <1>6, <2>1
<1> DEFINE fs == f \o s
           pf == p \o f
<1>11. fs \in Seq(Lines) /\ pf \in Seq(Lines)
  BY <1>10
<1>12. p \o (f \o s) = (p \o f) \o s
  BY <1>3, <1>4, <1>6, JoinedThree
<1>13. pf \o s = p \o fs
  BY <1>12
<1>14. pf \o s \in Seq(Lines)
  BY <1>3, <1>11
<1> HIDE DEF fs, pf
<1>15. p \o (fs \o g) = (p \o fs) \o g
  <2>1. p \in Seq(Lines) /\ fs \in Seq(Lines) /\ g \in Seq(Lines)
    BY <1>5, <1>6, <1>11
  <2>2. QED
    BY <2>1, JoinedThree
<1> DEFINE pfs == pf \o s
<1>16. p \o (fs \o g) = pfs \o g
  BY <1>13, <1>15
<1>17. pfs \in Seq(Lines)
  BY <1>14
<1> HIDE DEF pfs
<1>18. pfs \o (g \o end) = (pfs \o g) \o end
  BY <1>5, <1>6, <1>17, JoinedThree
<1>19. Text(secs) \o end = pfs \o (g \o end)
  BY <1>2, <1>16, <1>18 DEF Text, fs, p
<1>20. Text(secs) \o <<Blank>> =
         Between(Text(First(secs, k - 1)), secs[k], Behind(secs, k))
  BY <1>19 DEF Text, Between, Behind, pfs, pf, f, s, g, end, p
<1>21. QED
  BY <1>3, <1>8, <1>9, <1>20 DEF s

\* The text of the new sections is another one at the k-th, and there only.
DifferAt(secs, k, t, new) ==
    /\ new \in Seq(MediaSections) /\ Len(new) = Len(secs)
    /\ new[k] = t /\ \A i \in 1..Len(secs) : i # k => new[i] = secs[i]
    /\ First(new, k - 1) = First(secs, k - 1)
    /\ Text(new) \o <<Blank>> =
         Between(Text(First(secs, k - 1)), t, Behind(secs, k))

LEMMA SectionReplaced ==
    ASSUME NEW secs \in Seq(MediaSections), NEW k \in 1..Len(secs),
           NEW t \in MediaSections
    PROVE  DifferAt(secs, k, t, [secs EXCEPT ![k] = t])
<1> DEFINE new == [secs EXCEPT ![k] = t]
<1>1. /\ new \in Seq(MediaSections) /\ Len(new) = Len(secs) /\ new[k] = t
      /\ \A i \in 1..Len(secs) : i # k => new[i] = secs[i]
  BY ExceptSeq
<1> HIDE DEF new
<1>2. Len(secs) \in Nat /\ k - 1 \in 0..Len(secs) /\ k \in 0..Len(secs)
      /\ k \in 1..Len(new)
  BY <1>1
<1>3. First(new, k - 1) = First(secs, k - 1)
  <2> DEFINE a == First(new, k - 1)
             b == First(secs, k - 1)
  <2>1. /\ a \in Seq(MediaSections) /\ Len(a) = k - 1
        /\ \A i \in 1..(k - 1) : a[i] = new[i]
    <3>1. new \in Seq(MediaSections) /\ k - 1 \in 0..Len(new)
      BY <1>1, <1>2
    <3>2. QED
      BY <3>1, FirstFacts
  <2>2. /\ b \in Seq(MediaSections) /\ Len(b) = k - 1
        /\ \A i \in 1..(k - 1) : b[i] = secs[i]
    BY <1>2, FirstFacts
  <2> HIDE DEF a, b
  <2>3. \A i \in 1..(k - 1) : i \in 1..Len(secs) /\ i # k
    BY <1>2
  <2>4. \A i \in 1..Len(a) : a[i] = b[i]
    BY <1>1, <2>1, <2>2, <2>3
  <2>5. a = b
    BY <2>1, <2>2, <2>4, SeqEqual
  <2>6. QED
    BY <2>5 DEF a, b
<1>4. Rest(new, k) = Rest(secs, k)
  <2> DEFINE a == Rest(new, k)
             b == Rest(secs, k)
             n == Len(secs)
  <2>1. /\ a \in Seq(MediaSections) /\ Len(a) = Len(new) - k
        /\ \A i \in 1..(Len(new) - k) : a[i] = new[k + i]
    <3>1. new \in Seq(MediaSections) /\ k \in 0..Len(new)
      BY <1>1, <1>2
    <3>2. QED
      BY <3>1, RestFacts
  <2>2. /\ b \in Seq(MediaSections) /\ Len(b) = n - k
        /\ \A i \in 1..(n - k) : b[i] = secs[k + i]
    BY <1>2, RestFacts
  <2>3. n \in Nat /\ Len(new) = n /\ k \in 1..n
    BY <1>1, <1>2
  <2> HIDE DEF a, b, n
  <2>4. \A i \in 1..(n - k) : k + i \in 1..n /\ k + i # k
    BY <2>3
  <2>5. \A i \in 1..Len(a) : a[i] = b[i]
    BY <1>1, <2>1, <2>2, <2>3, <2>4 DEF n
  <2>6. a = b
    BY <2>1, <2>2, <2>3, <2>5, SeqEqual
  <2>7. QED
    BY <2>6 DEF a, b
<1>5. Behind(new, k) = Behind(secs, k)
  BY <1>4 DEF Behind
<1>6. Text(new) \o <<Blank>> =
        Between(Text(First(new, k - 1)), new[k], Behind(new, k))
  <2>1. new \in Seq(MediaSections) /\ k \in 1..Len(new)
    BY <1>1, <1>2
  <2>2. QED
    BY <2>1, TextAround
<1>7. QED
  BY <1>1, <1>3, <1>5, <1>6 DEF DifferAt, new

-----------------------------------------------------------------------------
(* The loop, section by section *)

\* A section behind the video pass.
Normalised(k, t) ==
    IF IsVideo(answer[k]) /\ Eligible(answer[k][1], Echo(k).payload)
      THEN Echoes(answer[k], t, Echo(k)) ELSE t = answer[k]

\* What the sections of the offer contribute to OfferedVideoPayloads.
EachOffered ==
    [k \in DOMAIN offer |->
      IF IsVideo(offer[k]) THEN <<OfferedPayload(offer[k])>> ELSE <<>>]

\* Pion answers every section of the offer with one of the same media type.
Negotiated ==
    /\ offer \in Seq(OfferSections) /\ Len(offer) # 0
    /\ answer \in Seq(AnswerSections) /\ Len(answer) = Len(offer)
    /\ \A k \in 1..Len(offer) : answer[k][1].name = offer[k][1].name

\* The text is made of the sections.
Assembled(secs) ==
    /\ secs \in Seq(MediaSections) /\ Len(secs) = Len(offer)
    /\ lines = Text(secs) \o <<Blank>>

\* The loop is behind the first m sections.
LoopBehind(secs, m) ==
    /\ m \in 0..Len(offer)
    /\ \A k \in 1..Len(offer) :
         IF k <= m THEN Normalised(k, secs[k]) ELSE secs[k] = answer[k]
    /\ lineIndex <= Len(Text(First(secs, m))) + 1
    /\ \A j \in lineIndex..Len(Text(First(secs, m))) : ~IsVideoLine(lines[j])
    /\ videoIndex = Len(FlattenSeq(First(EachOffered, m)))

LEMMA EachOfferedFacts ==
    ASSUME Negotiated
    PROVE  \E T : /\ EachOffered \in Seq(Seq(T)) /\ Len(EachOffered) = Len(offer)
                  /\ OfferedVideoPayloads = FlattenSeq(EachOffered)
                  /\ \A k \in 1..Len(offer) : EachOffered[k] =
                       IF IsVideo(offer[k]) THEN <<OfferedPayload(offer[k])>>
                                            ELSE <<>>
<1> DEFINE T == {OfferedPayload(offer[i]) : i \in DOMAIN offer}
           each == EachOffered
<1>1. DOMAIN offer = 1..Len(offer) /\ Len(offer) \in Nat
  BY DEF Negotiated
<1>2. \A i \in DOMAIN offer : OfferedPayload(offer[i]) \in T
  OBVIOUS
<1> HIDE DEF T
<1>3. each \in [1..Len(offer) -> Seq(T)]
  BY <1>1, <1>2 DEF EachOffered
<1>4. \A k \in 1..Len(offer) : each[k] =
        IF IsVideo(offer[k]) THEN <<OfferedPayload(offer[k])>> ELSE <<>>
  BY <1>1 DEF EachOffered
<1>5. OfferedVideoPayloads = FlattenSeq(each)
  BY DEF OfferedVideoPayloads, EachOffered
<1> HIDE DEF each
<1>6. each \in Seq(Seq(T)) /\ Len(each) = Len(offer)
  BY <1>1, <1>3
<1>7. QED
  BY <1>4, <1>5, <1>6 DEF each

\* Sections of the answer are sections, video if the offered ones are.
LEMMA NegotiatedSections ==
    ASSUME Negotiated, NEW k \in 1..Len(offer)
    PROVE  /\ answer[k] \in MediaSections /\ offer[k] \in OfferSections
           /\ IsVideo(answer[k]) <=> IsVideo(offer[k])
<1>1. answer[k] \in AnswerSections /\ offer[k] \in OfferSections
      /\ answer[k][1].name = offer[k][1].name
  BY DEF Negotiated
<1>2. QED
  BY <1>1, AnswerSectionsTyped DEF IsVideo

\* The lines of a section of the text.
LEMMA AssembledLines ==
    ASSUME NEW secs, Assembled(secs), NEW k \in 1..Len(secs)
    PROVE  /\ secs[k] \in MediaSections
           /\ lines \in Seq(Lines)
           /\ Enclosed(Lines, Text(First(secs, k - 1)), secs[k],
                       Behind(secs, k), lines)
           /\ Len(Text(First(secs, k))) =
                Len(Text(First(secs, k - 1))) + Len(secs[k])
           /\ Len(Text(First(secs, k - 1))) \in Nat
<1> DEFINE p == Text(First(secs, k - 1))
           s == secs[k]
           q == Behind(secs, k)
<1>1. secs \in Seq(MediaSections) /\ lines = Text(secs) \o <<Blank>>
  BY DEF Assembled
<1>2. /\ lines = Between(p, s, q) /\ p \in Seq(Lines) /\ s \in MediaSections
      /\ Closed(q)
  BY <1>1, TextAround
<1>3. Text(First(secs, k)) = p \o s
  BY <1>1, TextGrows
<1> HIDE DEF p, s, q
<1>4. s \in Seq(Lines) /\ q \in Seq(Lines) /\ p \in Seq(Lines)
  BY <1>2 DEF MediaSections, Closed
<1>5. Enclosed(Lines, p, s, q, lines)
  BY <1>2, <1>4, BetweenFacts
<1>6. Len(p \o s) = Len(p) + Len(s) /\ Len(p) \in Nat
  BY <1>4
<1>7. lines \in Seq(Lines)
  BY <1>5 DEF Enclosed
<1>8. QED
  BY <1>2, <1>3, <1>5, <1>6, <1>7 DEF p, s, q

\* A section that is no video is passed over.
LEMMA PassOver ==
    ASSUME Negotiated, NEW secs, Assembled(secs), lineIndex \in Nat,
           NEW m, LoopBehind(secs, m), m # Len(offer), ~IsVideo(answer[m + 1])
    PROVE  LoopBehind(secs, m + 1)
<1> DEFINE k == m + 1
           n == Len(offer)
           s == secs[k]
           p == Text(First(secs, m))
           r == Text(First(secs, k))
<1>1. m \in 0..n /\ n \in Nat /\ m # n
  BY DEF LoopBehind, Negotiated
<1>2. /\ \A i \in 1..n :
           IF i <= m THEN Normalised(i, secs[i]) ELSE secs[i] = answer[i]
      /\ lineIndex <= Len(p) + 1
      /\ \A j \in lineIndex..Len(p) : ~IsVideoLine(lines[j])
      /\ videoIndex = Len(FlattenSeq(First(EachOffered, m)))
  BY DEF LoopBehind
<1>3. Len(secs) = n
  BY DEF Assembled
<1> HIDE DEF n
<1>4. m \in Nat /\ k \in 1..n /\ k - 1 = m /\ k \in 0..n /\ ~(k <= m) /\ k \in Nat
  BY <1>1
<1>5. s = answer[k]
  BY <1>2, <1>4
<1>6. \A i \in 1..n : IF i <= k THEN Normalised(i, secs[i]) ELSE secs[i] = answer[i]
  <2>1. Normalised(k, s)
    BY <1>5 DEF Normalised
  <2>2. \A i \in 1..n : i <= k => i <= m \/ i = k
    BY <1>4
  <2>3. \A i \in 1..n : ~(i <= k) => ~(i <= m)
    BY <1>4
  <2> HIDE DEF k
  <2>4. QED
    BY <1>2, <2>1, <2>2, <2>3 DEF s
<1>7. /\ s \in MediaSections /\ lines \in Seq(Lines) /\ Len(p) \in Nat
      /\ Enclosed(Lines, p, s, Behind(secs, k), lines)
      /\ Len(r) = Len(p) + Len(s)
  BY <1>3, <1>4, AssembledLines
<1>8. /\ Len(s) \in Nat /\ 1 \in 1..Len(s)
      /\ \A j \in 2..Len(s) : ~IsMedia(s[j])
  BY <1>7, SectionElements
<1>9. \A j \in 1..Len(s) : lines[Len(p) + j] = s[j]
  BY <1>7 DEF Enclosed
<1> HIDE DEF p, r
<1>10. lineIndex <= Len(r) + 1
  BY <1>2, <1>7, <1>8
<1>11. ASSUME NEW j \in lineIndex..Len(r) PROVE ~IsVideoLine(lines[j])
  <2>1. CASE j <= Len(p)
    <3>1. j \in lineIndex..Len(p)
      BY <1>7, <2>1
    <3>2. QED
      BY <1>2, <3>1
  <2>2. CASE j > Len(p)
    <3>1. j - Len(p) \in 1..Len(s) /\ Len(p) + (j - Len(p)) = j
      BY <1>7, <1>8, <2>2
    <3>2. lines[j] = s[j - Len(p)]
      BY <1>9, <3>1
    <3>3. CASE j - Len(p) = 1
      <4>1. s[1].name # "video"
        BY <1>5 DEF IsVideo
      <4>2. QED
        BY <3>2, <3>3, <4>1 DEF IsVideoLine
    <3>4. CASE j - Len(p) # 1
      <4>1. j - Len(p) \in 2..Len(s)
        BY <1>8, <3>1, <3>4
      <4>2. QED
        BY <1>8, <3>2, <4>1 DEF IsVideoLine
    <3>5. QED
      BY <3>3, <3>4
  <2>3. QED
    BY <1>7, <2>1, <2>2
<1>12. videoIndex = Len(FlattenSeq(First(EachOffered, k)))
  <2> DEFINE each == EachOffered
             f == FlattenSeq(First(each, m))
  <2>1. PICK T : /\ each \in Seq(Seq(T)) /\ Len(each) = n
                 /\ \A i \in 1..n : each[i] =
                      IF IsVideo(offer[i]) THEN <<OfferedPayload(offer[i])>>
                                           ELSE <<>>
    BY EachOfferedFacts DEF n
  <2>2. ~IsVideo(offer[k])
    BY <1>4, NegotiatedSections DEF n
  <2>3. each[k] = <<>>
    BY <1>4, <2>1, <2>2
  <2> HIDE DEF each
  <2>4. FlattenSeq(First(each, k)) = f \o each[k]
    <3>1. each \in Seq(Seq(T)) /\ k \in 1..Len(each)
      BY <1>4, <2>1
    <3> HIDE DEF k
    <3>2. FlattenSeq(First(each, k)) = FlattenSeq(First(each, k - 1)) \o each[k]
      BY <3>1, FlattenFirst
    <3>3. QED
      BY <1>4, <3>2
  <2>5. f \in Seq(T)
    <3>1. First(each, m) \in Seq(Seq(T))
      BY <1>1, <2>1, FirstFacts
    <3>2. QED
      BY <3>1, FlattenSeqType
  <2> HIDE DEF f
  <2>6. f \o each[k] = f
    BY <2>3, <2>5
  <2>7. QED
    BY <1>2, <2>4, <2>6 DEF f, each
<1>13. QED
  BY <1>4, <1>6, <1>10, <1>11, <1>12 DEF LoopBehind, r, n

\* The loop has passed over all that is no video.
LEMMA LoopStops ==
    ASSUME Negotiated, NEW secs, Assembled(secs), lineIndex \in Nat,
           \E m : LoopBehind(secs, m)
    PROVE  \E m \in 0..Len(offer) :
             /\ LoopBehind(secs, m)
             /\ m = Len(offer) \/ IsVideo(answer[m + 1])
<1> DEFINE n == Len(offer)
           S == {m \in 0..n : LoopBehind(secs, m)}
<1>1. n \in Nat
  BY DEF Negotiated
<1>2. \A m : LoopBehind(secs, m) => m \in 0..n
  BY DEF LoopBehind
<1> HIDE DEF n
<1>3. S # {} /\ S \subseteq 0..n
  BY <1>2
<1>4. PICK m \in S : \A y \in S : y <= m
  <2> HIDE DEF S
  <2>1. QED
    BY <1>1, <1>3, GreatestNumber
<1>5. m \in 0..n /\ LoopBehind(secs, m) /\ ~(m + 1 <= m)
  BY <1>1
<1>6. ASSUME m # n, ~IsVideo(answer[m + 1]) PROVE FALSE
  <2>1. LoopBehind(secs, m + 1)
    BY <1>5, <1>6, PassOver DEF n
  <2>2. m + 1 \in S
    BY <1>2, <2>1
  <2>3. QED
    BY <1>4, <1>5, <2>2
<1>7. QED
  BY <1>5, <1>6 DEF n

\* The next video section is the one the loop has stopped at.
LEMMA NextIsSection ==
    ASSUME Negotiated, NEW secs, Assembled(secs), lineIndex \in Nat,
           NEW m, LoopBehind(secs, m), m # Len(offer), IsVideo(answer[m + 1])
    PROVE  /\ NextVideo = Len(Text(First(secs, m))) + 1
           /\ NextVideo <= Len(lines)
<1> DEFINE k == m + 1
           n == Len(offer)
           s == secs[k]
           p == Text(First(secs, m))
           N == Len(lines)
           V == {j \in lineIndex..N : IsMedia(lines[j]) /\ lines[j].name = "video"}
           S == V \union {N + 1}
           i == Len(p) + 1
<1>1. m \in 0..n /\ n \in Nat /\ m # n
  BY DEF LoopBehind, Negotiated
<1>2. /\ \A j \in 1..n :
           IF j <= m THEN Normalised(j, secs[j]) ELSE secs[j] = answer[j]
      /\ lineIndex <= Len(p) + 1
      /\ \A j \in lineIndex..Len(p) : ~IsVideoLine(lines[j])
  BY DEF LoopBehind
<1>3. Len(secs) = n
  BY DEF Assembled
<1> HIDE DEF n
<1>4. k \in 1..n /\ k - 1 = m /\ ~(k <= m)
  BY <1>1
<1>5. s = answer[k]
  BY <1>2, <1>4
<1>6. /\ s \in MediaSections /\ lines \in Seq(Lines) /\ Len(p) \in Nat
      /\ Enclosed(Lines, p, s, Behind(secs, k), lines)
  BY <1>3, <1>4, AssembledLines
<1>7. Len(s) \in Nat /\ 1 \in 1..Len(s) /\ IsMedia(s[1])
  BY <1>6, SectionElements
<1>8. /\ lines[i] = s[1] /\ i <= N /\ N \in Nat
  <2>1. /\ \A j \in 1..Len(s) : lines[Len(p) + j] = s[j]
        /\ N = Len(p) + Len(s) + Len(Behind(secs, k))
    BY <1>6 DEF Enclosed
  <2>2. N \in Nat /\ Len(Behind(secs, k)) \in Nat
    <3>1. k \in 1..Len(secs) /\ secs \in Seq(MediaSections)
      BY <1>3, <1>4 DEF Assembled
    <3>2. Closed(Behind(secs, k))
      BY <3>1, TextAround
    <3>3. Behind(secs, k) \in Seq(Lines)
      BY <3>2 DEF Closed
    <3>4. QED
      BY <1>6, <3>3
  <2> HIDE DEF p, s, k, N
  <2>3. QED
    BY <1>6, <1>7, <2>1, <2>2
<1>9. s[1].name = "video"
  BY <1>5 DEF IsVideo
<1> HIDE DEF p, N, s, k
<1>10. i \in lineIndex..N /\ i \in Nat
  BY <1>2, <1>6, <1>8
<1>11. i \in S
  BY <1>7, <1>8, <1>9, <1>10
<1>12. ASSUME NEW j \in S PROVE i <= j
  <2>1. CASE j = N + 1
    BY <1>8, <1>10, <2>1
  <2>2. CASE j \in V
    <3>1. j \in lineIndex..N /\ IsVideoLine(lines[j])
      BY <2>2 DEF IsVideoLine
    <3>2. j \notin lineIndex..Len(p)
      BY <1>2, <3>1
    <3>3. QED
      BY <1>6, <1>8, <3>1, <3>2
  <2>3. QED
    BY <2>1, <2>2
<1>13. S \subseteq Nat
  BY <1>8
<1>14. NextVideo = Min(S)
  BY DEF NextVideo, N
<1> HIDE DEF S, i
<1>15. S # {}
  BY <1>11
<1>16. Min(S) \in S /\ \A y \in S : Min(S) <= y
  BY <1>13, <1>15, MinIsLeast
<1>17. Min(S) = i
  <2> DEFINE x == Min(S)
  <2>1. x \in Nat /\ i \in Nat /\ x <= i /\ i <= x
    BY <1>10, <1>11, <1>12, <1>13, <1>16
  <2> HIDE DEF x
  <2>2. x = i
    BY <2>1
  <2>3. QED
    BY <2>2 DEF x
<1>18. QED
  BY <1>8, <1>14, <1>17 DEF i, p, N

\* The payload taken there is the one of the section offered in its place.
LEMMA OfferedInPlace ==
    ASSUME Negotiated, NEW secs, NEW m, LoopBehind(secs, m),
           m # Len(offer), IsVideo(answer[m + 1])
    PROVE  /\ Offered(videoIndex + 1) = Echo(m + 1)
           /\ videoIndex + 1 = Len(FlattenSeq(First(EachOffered, m + 1)))
           /\ OfferedVideoPayloads # <<>>
<1> DEFINE k == m + 1
           n == Len(offer)
           each == EachOffered
           f == FlattenSeq(First(each, m))
           e == OfferedPayload(offer[k])
           g == FlattenSeq(Rest(each, k))
           all == OfferedVideoPayloads
           one == <<e>>
<1>1. m \in 0..n /\ n \in Nat /\ m # n /\ videoIndex = Len(f)
  BY DEF LoopBehind, Negotiated
<1>2. PICK T : /\ each \in Seq(Seq(T)) /\ Len(each) = n
               /\ all = FlattenSeq(each)
               /\ \A i \in 1..n : each[i] =
                    IF IsVideo(offer[i]) THEN <<OfferedPayload(offer[i])>>
                                         ELSE <<>>
  BY EachOfferedFacts
<1> HIDE DEF n
<1>3. k \in 1..n /\ k - 1 = m /\ m \in 0..n /\ k \in 0..n
  BY <1>1
<1>4. IsVideo(offer[k])
  BY <1>3, NegotiatedSections DEF n
<1>5. each[k] = one
  BY <1>2, <1>3, <1>4
<1> HIDE DEF each, all, e
<1>6. f \in Seq(T)
  <2>1. First(each, m) \in Seq(Seq(T))
    BY <1>2, <1>3, FirstFacts
  <2>2. QED
    BY <2>1, FlattenSeqType
<1>7. g \in Seq(T)
  <2>1. Rest(each, k) \in Seq(Seq(T))
    BY <1>2, <1>3, RestFacts
  <2>2. QED
    BY <2>1, FlattenSeqType
<1>8. one \in Seq(T) /\ Len(one) = 1 /\ one[1] = e
  <2>1. one \in Seq(T)
    BY <1>2, <1>3, <1>5
  <2>2. QED
    BY <2>1
<1>9. all = Between(f, one, g)
  <2>1. each \in Seq(Seq(T)) /\ k \in 1..Len(each)
    BY <1>2, <1>3
  <2> HIDE DEF k
  <2>2. FlattenSeq(each) = Between(FlattenSeq(First(each, k - 1)), each[k],
                                   FlattenSeq(Rest(each, k)))
    BY <2>1, FlattenAround
  <2>3. QED
    BY <1>2, <1>3, <1>5, <2>2
<1>10. FlattenSeq(First(each, k)) = f \o one
  <2>1. each \in Seq(Seq(T)) /\ k \in 1..Len(each)
    BY <1>2, <1>3
  <2> HIDE DEF k
  <2>2. FlattenSeq(First(each, k)) = FlattenSeq(First(each, k - 1)) \o each[k]
    BY <2>1, FlattenFirst
  <2>3. QED
    BY <1>3, <1>5, <2>2
<1> HIDE DEF f, g, one
<1>11. Enclosed(T, f, one, g, all)
  BY <1>6, <1>7, <1>8, <1>9, BetweenFacts
<1>12. /\ all \in Seq(T) /\ Len(all) = Len(f) + 1 + Len(g)
       /\ all[Len(f) + 1] = e
  BY <1>8, <1>11 DEF Enclosed
<1>13. Len(f) \in Nat /\ Len(g) \in Nat
  BY <1>6, <1>7
<1>14. Len(f) + 1 \in DOMAIN all /\ all # <<>>
  <2>1. Len(f) + 1 \in 1..Len(all) /\ Len(all) # 0
    BY <1>12, <1>13
  <2>2. QED
    BY <1>12, <2>1
<1>15. Offered(videoIndex + 1) = e
  <2>1. Offered(videoIndex + 1) =
          IF videoIndex + 1 \in DOMAIN all THEN all[videoIndex + 1] ELSE NoPayload
    BY DEF Offered, all
  <2>2. QED
    BY <1>1, <1>12, <1>14, <2>1
<1>16. Len(f \o one) = Len(f) + 1
  <2>1. one \in Seq(T)
    BY <1>8
  <2>2. Len(f \o one) = Len(f) + Len(one)
    BY <1>6, <2>1
  <2>3. QED
    BY <1>8, <2>2
<1>17. QED
  BY <1>1, <1>10, <1>14, <1>15, <1>16 DEF Echo, e, each, all

\* Behind the last section there is no video left.
LEMMA LoopAtEnd ==
    ASSUME Negotiated, NEW secs, Assembled(secs), lineIndex \in Nat,
           LoopBehind(secs, Len(offer))
    PROVE  NextVideo > Len(lines) /\ ~(NextVideo <= Len(lines))
<1> DEFINE p == Text(secs)
           N == Len(lines)
           V == {j \in lineIndex..N : IsMedia(lines[j]) /\ lines[j].name = "video"}
           S == V \union {N + 1}
           end == <<Blank>>
<1>1. secs \in Seq(MediaSections) /\ Len(secs) = Len(offer) /\ lines = p \o end
  BY DEF Assembled
<1>2. First(secs, Len(offer)) = secs
  BY <1>1, FirstEnds
<1>3. \A j \in lineIndex..Len(p) : ~IsVideoLine(lines[j])
  BY <1>2 DEF LoopBehind
<1>4. p \in Seq(Lines)
  BY <1>1, TextType
<1>5. end \in Seq(Lines) /\ Len(end) = 1 /\ end[1] = Blank /\ 1 \in 1..1
  BY NewLinesTyped
<1> HIDE DEF p, end
<1>6. N = Len(p) + 1 /\ N \in Nat /\ lines[N] = Blank /\ Len(p) \in Nat
  <2>1. end \in Seq(Lines)
    BY <1>5
  <2>2. /\ p \o end \in Seq(Lines) /\ Len(p \o end) = Len(p) + Len(end)
        /\ \A i \in 1..Len(end) : (p \o end)[Len(p) + i] = end[i]
    BY <1>4, <2>1, Joined
  <2>3. QED
    BY <1>1, <1>4, <1>5, <2>2
<1> HIDE DEF N
<1>7. V = {}
  <2> SUFFICES ASSUME NEW j \in V PROVE FALSE
    OBVIOUS
  <2>1. j \in lineIndex..N /\ IsVideoLine(lines[j]) /\ IsMedia(lines[j])
    BY DEF IsVideoLine
  <2>2. j # N
    BY <1>6, <2>1, MediaNotBlank
  <2>3. j \in lineIndex..Len(p)
    BY <1>6, <2>1, <2>2
  <2>4. QED
    BY <1>3, <2>1, <2>3
<1>8. NextVideo = Min(S)
  BY DEF NextVideo, N
<1>9. S = {N + 1} /\ S \subseteq Nat /\ S # {}
  BY <1>6, <1>7
<1> HIDE DEF S
<1>10. Min(S) = N + 1
  <2>1. Min(S) \in S
    BY <1>9, MinIsLeast
  <2>2. QED
    BY <1>9, <2>1
<1>11. QED
  BY <1>6, <1>8, <1>10 DEF N

\* One iteration is behind one section more.
LEMMA LoopSection ==
    ASSUME Negotiated, NEW secs, Assembled(secs), lineIndex \in Nat,
           \E m : LoopBehind(secs, m), NormalizeVideoSection
    PROVE  \E new : Assembled(new)' /\ \E m : LoopBehind(new, m)'
<1> DEFINE n == Len(offer)
<1>1. n \in Nat
  BY DEF Negotiated
<1>2. PICK m \in 0..n : /\ LoopBehind(secs, m)
                        /\ m = n \/ IsVideo(answer[m + 1])
  BY LoopStops
<1>3. /\ NextVideo <= Len(lines) /\ offer' = offer /\ answer' = answer
      /\ videoIndex' = videoIndex + 1
      /\ lines' = VideoSection(lines, NextVideo, Offered(videoIndex + 1))[1]
      /\ lineIndex' = VideoSection(lines, NextVideo, Offered(videoIndex + 1))[2]
  BY DEF NormalizeVideoSection
<1>4. m # n
  BY <1>2, <1>3, LoopAtEnd
<1> DEFINE k == m + 1
           s == secs[k]
           p == Text(First(secs, m))
           q == Behind(secs, k)
           offered == Echo(k)
           next == VideoSection(Between(p, s, q), Len(p) + 1, offered)
<1>5. IsVideo(answer[k])
  BY <1>2, <1>4
<1>6. NextVideo = Len(p) + 1
  BY <1>2, <1>4, <1>5, NextIsSection
<1>7. /\ Offered(videoIndex + 1) = offered
      /\ videoIndex + 1 = Len(FlattenSeq(First(EachOffered, k)))
  BY <1>2, <1>4, <1>5, OfferedInPlace
<1>8. \A j \in 1..n :
        IF j <= m THEN Normalised(j, secs[j]) ELSE secs[j] = answer[j]
  BY <1>2 DEF LoopBehind
<1>9. secs \in Seq(MediaSections) /\ Len(secs) = n /\ lines = Text(secs) \o <<Blank>>
  BY DEF Assembled
<1> HIDE DEF n
<1>10. /\ k \in 1..n /\ k \in 0..n /\ k - 1 = m /\ ~(k <= m) /\ k \in Nat
       /\ k \in 1..Len(secs)
  BY <1>1, <1>4, <1>9
<1>11. s = answer[k]
  BY <1>8, <1>10
<1>12. /\ lines = Between(p, s, q) /\ p \in Seq(Lines) /\ s \in MediaSections
       /\ Closed(q)
  BY <1>9, <1>10, TextAround
<1>13. Eligible(s[1], offered.payload) => Offerable(offered)
  <2>1. offer[k] \in OfferSections
    BY <1>10, NegotiatedSections DEF n
  <2>2. QED
    BY <2>1, OfferedIsOfferable DEF Eligible, Echo
<1>14. lines' = next[1] /\ lineIndex' = next[2]
  BY <1>3, <1>6, <1>7, <1>12
<1> HIDE DEF s, p, q, offered
<1>15. TurnInText(p, s, q, offered, next)
  BY <1>12, <1>13, VideoSectionInText
<1> HIDE DEF next, k
<1>16. PICK t \in MediaSections :
         /\ next[1] = Between(p, t, q)
         /\ next[2] \in Nat /\ Len(p) + 2 <= next[2]
         /\ next[2] <= Len(p) + Len(t) + 1
         /\ IF Eligible(s[1], offered.payload) THEN Echoes(s, t, offered)
                                               ELSE t = s
  BY <1>15 DEF TurnInText
<1> DEFINE new == [secs EXCEPT ![k] = t]
<1>17. /\ new \in Seq(MediaSections) /\ Len(new) = n /\ new[k] = t
       /\ \A i \in 1..n : i # k => new[i] = secs[i]
       /\ First(new, k - 1) = First(secs, k - 1)
       /\ Text(new) \o <<Blank>> =
            Between(Text(First(secs, k - 1)), t, Behind(secs, k))
  <2>1. secs \in Seq(MediaSections) /\ k \in 1..Len(secs)
    BY <1>9, <1>10
  <2>2. DifferAt(secs, k, t, new)
    BY <2>1, SectionReplaced
  <2> HIDE DEF new
  <2>3. QED
    BY <1>9, <2>2 DEF DifferAt
<1> HIDE DEF new
<1>18. lines' = Text(new) \o <<Blank>>
  BY <1>10, <1>14, <1>16, <1>17 DEF p, q
<1>19. Assembled(new)'
  BY <1>3, <1>17, <1>18 DEF Assembled, n
<1>20. Normalised(k, t)
  BY <1>5, <1>11, <1>16 DEF Normalised, offered
<1>21. ASSUME NEW i \in 1..n
       PROVE  IF i <= k THEN Normalised(i, new[i])' ELSE new[i] = answer'[i]
  <2>1. Normalised(i, new[i])' <=> Normalised(i, new[i])
    BY <1>3 DEF Normalised, Echo
  <2>2. CASE i = k
    BY <1>10, <1>17, <1>20, <2>1, <2>2
  <2>3. CASE i # k
    <3>1. new[i] = secs[i] /\ (i <= k <=> i <= m)
      BY <1>10, <1>17, <2>3
    <3>2. QED
      BY <1>3, <1>8, <2>1, <3>1
  <2>4. QED
    BY <2>2, <2>3
<1>22. /\ Text(First(new, k)) = p \o t
       /\ Len(p \o t) = Len(p) + Len(t) /\ Len(p) \in Nat /\ Len(t) \in Nat
       /\ \A j \in 1..Len(t) : lines'[Len(p) + j] = t[j]
  <2>1. k \in 1..Len(new) /\ new \in Seq(MediaSections)
    BY <1>10, <1>17
  <2>2. Text(First(new, k)) = Text(First(new, k - 1)) \o new[k]
    BY <2>1, TextGrows
  <2>3. Text(First(new, k)) = p \o t
    BY <1>10, <1>17, <2>2 DEF p
  <2>4. t \in Seq(Lines) /\ q \in Seq(Lines) /\ p \in Seq(Lines)
    BY <1>12 DEF MediaSections, Closed
  <2>5. Enclosed(Lines, p, t, q, Between(p, t, q))
    BY <2>4, BetweenFacts
  <2>6. \A j \in 1..Len(t) : Between(p, t, q)[Len(p) + j] = t[j]
    BY <2>5 DEF Enclosed
  <2>7. Len(p \o t) = Len(p) + Len(t) /\ Len(p) \in Nat /\ Len(t) \in Nat
    BY <2>4
  <2>8. QED
    BY <1>14, <1>16, <2>3, <2>6, <2>7
<1> DEFINE r == Text(First(new, k))
<1>23. Len(r) = Len(p) + Len(t)
  BY <1>22
<1> HIDE DEF r
<1>24. lineIndex' \in Nat /\ lineIndex' >= Len(p) + 2 /\ lineIndex' <= Len(r) + 1
  BY <1>14, <1>16, <1>22, <1>23
<1>25. ASSUME NEW j \in (lineIndex')..Len(r) PROVE ~IsVideoLine(lines'[j])
  <2>1. /\ j - Len(p) \in 2..Len(t) /\ j - Len(p) \in 1..Len(t)
        /\ Len(p) + (j - Len(p)) = j
    BY <1>22, <1>23, <1>24
  <2>2. lines'[j] = t[j - Len(p)]
    BY <1>22, <2>1
  <2>3. ~IsMedia(t[j - Len(p)])
    BY <2>1, SectionElements
  <2>4. QED
    BY <2>2, <2>3 DEF IsVideoLine
<1>26. EachOffered' = EachOffered
  BY <1>3 DEF EachOffered
<1>27. videoIndex' = Len(FlattenSeq(First(EachOffered, k))')
  BY <1>3, <1>7, <1>26
<1>28. LoopBehind(new, k)'
  <2>1. Len(offer') = n
    BY <1>3 DEF n
  <2>2. QED
    BY <1>10, <1>21, <1>24, <1>25, <1>27, <2>1 DEF LoopBehind, r
<1>29. QED
  BY <1>19, <1>28

-----------------------------------------------------------------------------
(* Sections takes a text apart *)

\* The sections so far depend on the lines so far only.
LEMMA SectioningUnique ==
    ASSUME NEW L, NEW ls \in Seq(L), NEW other \in Seq(L),
           BeginsWith(ls, other),
           NEW f, Sectioning(ls, f), NEW g, Sectioning(other, g)
    PROVE  \A n \in 0..Len(other) : g[n] = f[n] /\ g[n] \in Seq(NonEmpty(L))
<1> DEFINE N == Len(other)
           M == Len(ls)
           Good == {n \in 0..N : g[n] = f[n] /\ g[n] \in Seq(NonEmpty(L))}
<1>1. N \in Nat /\ M \in Nat /\ N <= M
  BY DEF BeginsWith
<1>2. \A i \in 1..N : other[i] = ls[i]
  BY DEF BeginsWith
<1>3. /\ f[0] = <<>>
      /\ \A n \in 1..M : f[n] = WithLine(f[n - 1], ls[n])
  BY <1>1 DEF Sectioning
<1>4. /\ g[0] = <<>>
      /\ \A n \in 1..N : g[n] = WithLine(g[n - 1], other[n])
  BY <1>1 DEF Sectioning
<1>5. \A n \in 1..N : n \in 1..M /\ n \in 0..N /\ other[n] \in L
  BY <1>1
<1> HIDE DEF N, M
<1>6. 0 \in Good
  <2>1. 0 \in 0..N /\ <<>> \in Seq(NonEmpty(L))
    BY <1>1
  <2>2. g[0] = f[0] /\ g[0] \in Seq(NonEmpty(L))
    BY <1>3, <1>4, <2>1, Zenon
  <2>3. QED
    BY <2>1, <2>2, Zenon
<1>7. ASSUME NEW n \in 1..N, n - 1 \in Good PROVE n \in Good
  <2>1. g[n - 1] = f[n - 1] /\ g[n - 1] \in Seq(NonEmpty(L))
    BY <1>7
  <2>2. g[n] = WithLine(g[n - 1], other[n]) /\ f[n] = WithLine(f[n - 1], ls[n])
    BY <1>3, <1>4, <1>5
  <2>3. other[n] = ls[n] /\ other[n] \in L
    BY <1>2, <1>5
  <2>4. WithLine(g[n - 1], other[n]) \in Seq(NonEmpty(L))
    BY <2>1, <2>3, WithLineSections
  <2>5. g[n] = f[n] /\ g[n] \in Seq(NonEmpty(L))
    BY <2>1, <2>2, <2>3, <2>4
  <2>6. QED
    BY <1>5, <2>5
<1> HIDE DEF Good
<1>8. \A n \in 0..N : n \in Good
  BY <1>1, <1>6, <1>7, Induction
<1>9. QED
  BY <1>8 DEF Good, N

LEMMA SectionsType ==
    ASSUME NEW L, NEW ls \in Seq(L)
    PROVE  Sections(ls) \in Seq(NonEmpty(L))
<1>1. PICK f : Sectioning(ls, f) /\ Sections(ls) = f[Len(ls)]
  BY SectionsAreBuilt
<1>2. BeginsWith(ls, ls) /\ Len(ls) \in 0..Len(ls)
  BY DEF BeginsWith
<1>3. \A n \in 0..Len(ls) : f[n] \in Seq(NonEmpty(L))
  BY <1>1, <1>2, SectioningUnique
<1>4. QED
  BY <1>1, <1>2, <1>3

\* A line more.
LEMMA SectionsGrow ==
    ASSUME NEW L, NEW ls \in Seq(L), NEW line \in L
    PROVE  Sections(ls \o <<line>>) = WithLine(Sections(ls), line)
<1> DEFINE one == <<line>>
           all == ls \o one
           n == Len(ls)
<1>1. one \in Seq(L) /\ Len(one) = 1 /\ one[1] = line /\ 1 \in 1..1
  OBVIOUS
<1> HIDE DEF one
<1>2. /\ all \in Seq(L) /\ Len(all) = n + Len(one)
      /\ \A i \in 1..n : all[i] = ls[i]
      /\ \A i \in 1..Len(one) : all[n + i] = one[i]
  <2>1. one \in Seq(L)
    BY <1>1
  <2>2. QED
    BY <2>1, Joined
<1> HIDE DEF all
<1>3. Len(all) = n + 1 /\ all[n + 1] = line /\ n \in Nat
  BY <1>1, <1>2
<1>4. BeginsWith(all, ls)
  BY <1>2, <1>3 DEF BeginsWith
<1>5. all \in Seq(L)
  BY <1>2
<1>6. PICK f : Sectioning(all, f) /\ Sections(all) = f[Len(all)]
  BY <1>5, SectionsAreBuilt
<1>7. PICK g : Sectioning(ls, g) /\ Sections(ls) = g[n]
  BY SectionsAreBuilt
<1>8. \A i \in 0..Len(ls) : g[i] = f[i]
  BY <1>4, <1>5, <1>6, <1>7, SectioningUnique
<1>9. g[n] = f[n]
  BY <1>3, <1>8
<1>10. f[n + 1] = WithLine(f[n], all[n + 1])
  <2>1. f = [i \in 0..(n + 1) |-> IF i = 0 THEN <<>> ELSE WithLine(f[i - 1], all[i])]
    BY <1>3, <1>6 DEF Sectioning
  <2>2. n + 1 \in 0..(n + 1) /\ n + 1 # 0 /\ (n + 1) - 1 = n
    BY <1>3
  <2> HIDE DEF n
  <2>3. QED
    BY <2>1, <2>2
<1>11. QED
  BY <1>3, <1>6, <1>7, <1>9, <1>10 DEF all, one

LEMMA SectionsEmpty == Sections(<<>>) = <<>>
<1>1. <<>> \in Seq({Blank}) /\ Len(<<>>) = 0
  OBVIOUS
<1>2. PICK f : Sectioning(<<>>, f) /\ Sections(<<>>) = f[0]
  BY <1>1, SectionsAreBuilt
<1>3. f[0] = <<>>
  BY <1>1, <1>2 DEF Sectioning
<1>4. QED
  BY <1>2, <1>3

\* The session level has no section.
LEMMA PreambleSections == Sections(Preamble) = <<>>
<1> DEFINE N == Len(Preamble)
           Good == {n \in 0..N : Sections(First(Preamble, n)) = <<>>}
<1>1. N \in Nat /\ Preamble \in Seq(Lines)
  BY PreambleLines
<1>2. \A n \in 1..N : ~IsMedia(Preamble[n]) /\ Preamble[n] \in Lines
  BY <1>1, PreambleAssumption
<1> HIDE DEF N
<1>3. 0 \in Good
  <2>1. First(Preamble, 0) = <<>>
    BY DEF First
  <2>2. QED
    BY <1>1, <2>1, SectionsEmpty
<1>4. ASSUME NEW n \in 1..N, n - 1 \in Good PROVE n \in Good
  <2> DEFINE a == First(Preamble, n - 1)
             line == Preamble[n]
  <2>1. n \in 0..N /\ n - 1 \in 0..N /\ Sections(a) = <<>>
    BY <1>1, <1>4
  <2>2. First(Preamble, n) = a \o <<line>>
    BY <1>1, FirstGrows DEF N
  <2>3. a \in Seq(Lines) /\ line \in Lines /\ ~IsMedia(line)
    BY <1>1, <1>2, <2>1, FirstFacts DEF N
  <2> HIDE DEF a, line
  <2>4. Sections(a \o <<line>>) = WithLine(<<>>, line)
    BY <2>1, <2>3, SectionsGrow
  <2>5. WithLine(<<>>, line) = <<>>
    BY <2>3 DEF WithLine
  <2>6. QED
    BY <2>1, <2>2, <2>4, <2>5
<1> HIDE DEF Good
<1>5. \A n \in 0..N : n \in Good
  BY <1>1, <1>3, <1>4, Induction
<1>6. N \in Good
  BY <1>1, <1>5
<1>7. First(Preamble, N) = Preamble
  BY <1>1, FirstEnds DEF N
<1>8. QED
  BY <1>6, <1>7 DEF Good

\* A line that opens no section goes to the last one.
LEMMA WithLineLast ==
    ASSUME NEW T, NEW sections \in Seq(Seq(T)), NEW section \in Seq(T),
           NEW line, ~IsMedia(line)
    PROVE  WithLine(Append(sections, section), line) =
             Append(sections, Append(section, line))
<1> DEFINE all == Append(sections, section)
           n == Len(sections)
<1>1. /\ all \in Seq(Seq(T)) /\ Len(all) = n + 1 /\ all[n + 1] = section
      /\ \A i \in 1..n : all[i] = sections[i]
  OBVIOUS
<1>2. n \in Nat /\ n \in 0..(n + 1) /\ (n + 1) - 1 = n
  OBVIOUS
<1> HIDE DEF all
<1>3. all # <<>> /\ Last(all) = section
  BY <1>1, <1>2 DEF Last
<1>4. Front(all) = sections
  <2> DEFINE f == First(all, n)
  <2>1. Front(all) = f
    BY <1>1, <1>2 DEF Front, First
  <2>2. f \in Seq(Seq(T)) /\ Len(f) = n /\ \A i \in 1..n : f[i] = all[i]
    <3>1. all \in Seq(Seq(T)) /\ n \in 0..Len(all)
      BY <1>1, <1>2
    <3>2. QED
      BY <3>1, FirstFacts
  <2> HIDE DEF f
  <2>3. \A i \in 1..Len(f) : f[i] = sections[i]
    BY <1>1, <2>2
  <2>4. f = sections
    BY <2>2, <2>3, SeqEqual
  <2>5. QED
    BY <2>1, <2>4
<1>5. WithLine(all, line) = Append(Front(all), Append(Last(all), line))
  BY <1>3 DEF WithLine
<1>6. QED
  BY <1>3, <1>4, <1>5 DEF all

\* The lines of a section are taken for one section.
LEMMA SectionsOfSection ==
    ASSUME NEW p \in Seq(Lines), NEW s \in MediaSections
    PROVE  Sections(p \o s) = Append(Sections(p), s)
<1> DEFINE N == Len(s)
           all == Sections(p)
           Good == {n \in 0..N :
                      n # 0 => Sections(p \o First(s, n)) =
                                 Append(all, First(s, n))}
<1>1. /\ s \in Seq(Lines) /\ N \in Nat /\ 1 \in 1..N /\ IsMedia(s[1])
      /\ \A i \in 2..N : ~IsMedia(s[i])
  BY SectionElements
<1>2. all \in Seq(Seq(Lines))
  <2>1. all \in Seq(NonEmpty(Lines)) /\ NonEmpty(Lines) \subseteq Seq(Lines)
    BY SectionsType DEF NonEmpty
  <2>2. QED
    BY <2>1, SeqMonotonic
<1> HIDE DEF N
<1>3. 0 \in Good
  BY <1>1
<1>4. ASSUME NEW n \in 1..N, n - 1 \in Good PROVE n \in Good
  <2> DEFINE a == First(s, n - 1)
             line == s[n]
             one == <<line>>
             pa == p \o a
  <2>1. n \in 0..N /\ n - 1 \in 0..N /\ n \in Nat
    BY <1>1
  <2>2. First(s, n) = a \o one /\ First(s, n) = Append(a, line)
    BY <1>1, FirstGrows DEF N
  <2>3. a \in Seq(Lines)
    BY <1>1, <2>1, FirstFacts DEF N
  <2>4. line \in Lines
    BY <1>1 DEF N
  <2>5. one \in Seq(Lines)
    BY <2>4
  <2>6. n = 1 => a = <<>>
    BY DEF First
  <2>7. n # 1 => Sections(pa) = Append(all, a)
    BY <1>4, <2>1
  <2> HIDE DEF a, line
  <2>8. pa \in Seq(Lines)
    BY <2>3
  <2> HIDE DEF one, pa
  <2>9. p \o (a \o one) = (p \o a) \o one
    BY <2>3, <2>5, JoinedThree
  <2>10. Sections(p \o First(s, n)) = WithLine(Sections(pa), line)
    <3>1. Sections(pa \o <<line>>) = WithLine(Sections(pa), line)
      BY <2>4, <2>8, SectionsGrow
    <3>2. QED
      BY <2>2, <2>9, <3>1 DEF pa, one
  <2>11. CASE n = 1
    <3>1. pa = p
      BY <2>6, <2>11 DEF pa
    <3>2. WithLine(all, line) = Append(all, one)
      BY <1>1, <2>11 DEF WithLine, line, one
    <3>3. First(s, n) = one
      <4>1. <<>> \o one = one
        BY <2>5
      <4>2. QED
        BY <2>2, <2>6, <2>11, <4>1
    <3>4. QED
      BY <2>1, <2>10, <3>1, <3>2, <3>3
  <2>12. CASE n # 1
    <3>1. n \in 2..N
      BY <2>1, <2>12
    <3>2. ~IsMedia(line)
      BY <1>1, <3>1 DEF line
    <3>3. WithLine(Append(all, a), line) = Append(all, Append(a, line))
      BY <1>2, <2>3, <3>2, WithLineLast
    <3>4. QED
      BY <2>1, <2>2, <2>7, <2>10, <2>12, <3>3
  <2>13. QED
    BY <2>11, <2>12
<1> HIDE DEF Good
<1>5. \A n \in 0..N : n \in Good
  BY <1>1, <1>3, <1>4, Induction
<1>6. N \in Good /\ N # 0
  BY <1>1, <1>5
<1>7. First(s, N) = s
  BY <1>1, FirstEnds DEF N
<1>8. QED
  BY <1>6, <1>7 DEF Good

\* Sections is the inverse of Text.
LEMMA SectionsOfText ==
    ASSUME NEW secs \in Seq(MediaSections)
    PROVE  Sections(Text(secs)) = secs
<1> DEFINE N == Len(secs)
           Good == {n \in 0..N : Sections(Text(First(secs, n))) = First(secs, n)}
<1>1. N \in Nat
  OBVIOUS
<1> HIDE DEF N
<1>2. 0 \in Good
  <2>1. First(secs, 0) = <<>>
    BY DEF First
  <2>2. Sections(Text(<<>>)) = <<>>
    BY TextEmpty, PreambleSections
  <2>3. QED
    BY <1>1, <2>1, <2>2
<1>3. ASSUME NEW n \in 1..N, n - 1 \in Good PROVE n \in Good
  <2> DEFINE a == First(secs, n - 1)
             s == secs[n]
             p == Text(a)
  <2>1. n \in 0..N /\ n - 1 \in 0..N /\ n \in 1..Len(secs)
    BY <1>1 DEF N
  <2>2. Sections(p) = a
    BY <1>3
  <2>3. Text(First(secs, n)) = p \o s
    BY <2>1, TextGrows
  <2>4. First(secs, n) = Append(a, s)
    BY <2>1, FirstGrows
  <2>5. a \in Seq(MediaSections)
    BY <2>1, FirstFacts DEF N
  <2>6. s \in MediaSections
    BY <2>1
  <2> HIDE DEF a, s
  <2>7. p \in Seq(Lines)
    BY <2>5, TextType
  <2> HIDE DEF p
  <2>8. Sections(p \o s) = Append(Sections(p), s)
    BY <2>6, <2>7, SectionsOfSection
  <2>9. QED
    BY <2>1, <2>2, <2>3, <2>4, <2>8
<1> HIDE DEF Good
<1>4. \A n \in 0..N : n \in Good
  BY <1>1, <1>2, <1>3, Induction
<1>5. N \in Good
  BY <1>1, <1>4
<1>6. First(secs, N) = secs
  BY FirstEnds DEF N
<1>7. QED
  BY <1>5, <1>6 DEF Good

\* With the empty string at its end, this one belongs to the last section.
LEMMA SectionsOfLines ==
    ASSUME NEW secs \in Seq(MediaSections), Len(secs) # 0
    PROVE  Sections(Text(secs) \o <<Blank>>) =
             Append(First(secs, Len(secs) - 1), Append(secs[Len(secs)], Blank))
<1> DEFINE n == Len(secs)
           a == First(secs, n - 1)
           s == secs[n]
           p == Text(secs)
<1>1. n \in 1..n /\ n - 1 \in 0..n /\ n \in Nat
  OBVIOUS
<1>2. Sections(p) = secs
  BY SectionsOfText
<1>3. p \in Seq(Lines) /\ Blank \in Lines
  BY TextType, NewLinesTyped
<1>4. First(secs, n) = Append(a, s)
  BY <1>1, FirstGrows
<1>5. First(secs, n) = secs
  BY FirstEnds
<1>6. a \in Seq(Seq(Lines)) /\ s \in Seq(Lines)
  <2>1. secs \in Seq(Seq(Lines))
    BY MediaSectionsTyped
  <2>2. QED
    BY <1>1, <2>1, FirstFacts
<1> HIDE DEF a, s, p, n
<1>7. Sections(p \o <<Blank>>) = WithLine(Append(a, s), Blank)
  BY <1>2, <1>3, <1>4, <1>5, SectionsGrow
<1>8. ~IsMedia(Blank)
  BY MediaNotBlank
<1>9. WithLine(Append(a, s), Blank) = Append(a, Append(s, Blank))
  BY <1>6, <1>8, WithLineLast
<1>10. QED
  BY <1>7, <1>9 DEF a, s, p, n

\* The session level comes before the first section.
LEMMA BeforeTextSections ==
    ASSUME NEW secs \in Seq(MediaSections), Len(secs) # 0
    PROVE  BeforeSections(Text(secs) \o <<Blank>>) = Preamble
<1> DEFINE ls == Text(secs) \o <<Blank>>
           p == Preamble
           s == secs[1]
           q == Behind(secs, 1)
           S == SectionStarts(ls)
           i == Len(p) + 1
<1>1. 1 \in 1..Len(secs)
  OBVIOUS
<1>2. Text(First(secs, 1 - 1)) = p
  <2>1. First(secs, 1 - 1) = <<>>
    BY DEF First
  <2>2. QED
    BY <2>1, TextEmpty
<1>3. ls = Between(p, s, q) /\ p \in Seq(Lines) /\ s \in MediaSections /\ Closed(q)
  BY <1>1, <1>2, TextAround
<1>4. \A j \in 1..Len(p) : ~IsMedia(p[j])
  BY <1>3, PreambleAssumption
<1> HIDE DEF ls, p, s, q
<1>5. s \in Seq(Lines) /\ 1 \in 1..Len(s) /\ IsMedia(s[1])
  BY <1>3, SectionElements
<1>6. q \in Seq(Lines)
  BY <1>3 DEF Closed
<1>7. Enclosed(Lines, p, s, q, ls)
  <2>1. s \in Seq(Lines) /\ p \in Seq(Lines) /\ q \in Seq(Lines)
    BY <1>3, <1>5, <1>6
  <2>2. QED
    BY <1>3, <2>1, BetweenFacts
<1>8. /\ ls \in Seq(Lines) /\ Len(ls) = Len(p) + Len(s) + Len(q)
      /\ \A j \in 1..Len(p) : ls[j] = p[j]
      /\ ls[i] = s[1]
  BY <1>5, <1>7 DEF Enclosed
<1>9. Len(p) \in Nat /\ Len(s) \in Nat /\ Len(q) \in Nat /\ DOMAIN ls = 1..Len(ls)
  BY <1>3, <1>5, <1>6, <1>8
<1>10. i \in S
  <2>1. i \in 1..Len(ls)
    BY <1>5, <1>8, <1>9
  <2>2. QED
    BY <1>5, <1>8, <1>9, <2>1 DEF SectionStarts
<1>11. ASSUME NEW j \in S PROVE i <= j
  <2>1. j \in 1..Len(ls) /\ IsMedia(ls[j])
    BY <1>9, <1>11 DEF SectionStarts
  <2>2. j \notin 1..Len(p)
    BY <1>4, <1>8, <2>1
  <2>3. QED
    BY <1>8, <1>9, <2>1, <2>2
<1>12. S \subseteq Nat /\ S # {} /\ i \in Nat
  BY <1>8, <1>9, <1>10 DEF SectionStarts
<1> HIDE DEF S, i
<1>13. Min(S) = i
  <2> DEFINE x == Min(S)
  <2>1. x \in S /\ \A y \in S : x <= y
    BY <1>12, MinIsLeast
  <2>2. x \in Nat /\ x <= i /\ i <= x
    BY <1>10, <1>11, <1>12, <2>1
  <2> HIDE DEF x
  <2>3. x = i
    BY <1>12, <2>2
  <2>4. QED
    BY <2>3 DEF x
<1>14. i - 1 = Len(p)
  BY <1>9 DEF i
<1>15. BeforeSections(ls) = First(ls, Len(p))
  BY <1>13, <1>14 DEF BeforeSections, First, S
<1>16. First(ls, Len(p)) = p
  <2> DEFINE sq == s \o q
  <2>1. ls = p \o sq
    <3>1. s \in Seq(Lines) /\ p \in Seq(Lines) /\ q \in Seq(Lines)
      BY <1>3, <1>5, <1>6
    <3>2. p \o (s \o q) = (p \o s) \o q
      BY <3>1, JoinedThree
    <3>3. QED
      BY <1>3, <3>2 DEF Between
  <2>2. sq \in Seq(Lines) /\ p \in Seq(Lines)
    BY <1>3, <1>5, <1>6
  <2> HIDE DEF sq
  <2>3. First(p \o sq, Len(p)) = p
    BY <2>2, JoinedParts
  <2>4. QED
    BY <2>1, <2>3
<1>17. QED
  BY <1>15, <1>16 DEF ls, p

-----------------------------------------------------------------------------
(* A mid for a section *)

HasMid(s) == \E j \in 2..Len(s) : IsMid(s[j])

\* Where the mid goes.
MidPlace(s) ==
    LET attrs == {j \in 2..Len(s) : s[j].kind = "a"}
        last == IF Len(s) > 1 /\ s[Len(s)] = Blank THEN Len(s) ELSE Len(s) + 1
    IN  IF attrs = {} THEN last ELSE Min(attrs)

LEMMA WithMidPlace ==
    ASSUME NEW s, NEW section
    PROVE  WithMid(s, OfferedMid(section)) =
             IF LacksMid(s, OfferedMid(section))
               THEN InsertAt(s, MidPlace(s), MidLine(section)) ELSE s
BY DEF WithMid, MidPlace, MidLine

LEMMA MidPlaceInSection ==
    ASSUME NEW s \in MediaSections
    PROVE  MidPlace(s) \in 2..(Len(s) + 1)
<1> DEFINE attrs == {j \in 2..Len(s) : s[j].kind = "a"}
           last == IF Len(s) > 1 /\ s[Len(s)] = Blank THEN Len(s) ELSE Len(s) + 1
<1>1. Len(s) \in Nat /\ 1 \in 1..Len(s)
  BY SectionElements
<1>2. last \in 2..(Len(s) + 1)
  BY <1>1
<1>3. ASSUME attrs # {} PROVE Min(attrs) \in 2..(Len(s) + 1)
  <2>1. attrs \subseteq 2..Len(s) /\ attrs \subseteq Nat
    BY <1>1
  <2> HIDE DEF attrs
  <2>2. Min(attrs) \in attrs
    BY <1>3, <2>1, MinIsLeast
  <2> DEFINE x == Min(attrs)
  <2> HIDE DEF x
  <2>3. x \in 2..Len(s)
    BY <2>1, <2>2 DEF x
  <2>4. x \in 2..(Len(s) + 1)
    BY <1>1, <2>3
  <2>5. QED
    BY <2>4 DEF x
<1>4. MidPlace(s) = IF attrs = {} THEN last ELSE Min(attrs)
  BY DEF MidPlace
<1> HIDE DEF attrs, last
<1>5. QED
  BY <1>2, <1>3, <1>4

LEMMA MidLineIsLine ==
    ASSUME NEW section
    PROVE  /\ MidLine(section).kind = "a" /\ MidLine(section).name = "mid"
           /\ IsMid(MidLine(section))
           /\ ~IsMedia(MidLine(section)) /\ MidLine(section) # Blank
<1>1. MidLine(section).kind = "a" /\ MidLine(section).name = "mid"
  BY DEF MidLine, Attr, Line
<1>2. ~IsMedia(MidLine(section)) /\ MidLine(section) # Blank
  BY <1>1, AttrIsLine
<1>3. QED
  BY <1>1, <1>2 DEF IsMid, IsAttr

\* What WithMid makes of a section.
MidAdded(s, t, section) ==
    /\ t \in MediaSections
    /\ IF LacksMid(s, OfferedMid(section)) THEN Grown(s, t, MidLine(section))
                                           ELSE t = s

LEMMA WithMidSection ==
    ASSUME NEW s \in MediaSections, NEW section \in OfferSections
    PROVE  MidAdded(s, WithMid(s, OfferedMid(section)), section)
<1> DEFINE e == MidLine(section)
           at == MidPlace(s)
           t == InsertAt(s, at, e)
<1>1. WithMid(s, OfferedMid(section)) =
        IF LacksMid(s, OfferedMid(section)) THEN t ELSE s
  BY WithMidPlace
<1>2. e \in Lines /\ ~IsMedia(e) /\ e # Blank
  BY NewLinesTyped, MidLineIsLine
<1>3. s \in Seq(Lines) /\ at \in 2..(Len(s) + 1)
  BY MidPlaceInSection DEF MediaSections
<1> HIDE DEF e, at
<1>4. <<>> \in Seq(Lines)
  OBVIOUS
<1>5. Grown(s, t, e)
  BY <1>2, <1>3, <1>4, InsertedInText
<1> HIDE DEF t
<1>6. t \in MediaSections
  BY <1>2, <1>5, GrownSection
<1>7. QED
  BY <1>1, <1>5, <1>6 DEF MidAdded, e

\* The empty string behind the last section makes no difference.
LEMMA WithMidBlank ==
    ASSUME NEW s \in MediaSections, NEW section \in OfferSections
    PROVE  WithMid(Append(s, Blank), OfferedMid(section)) =
             WithMid(s, OfferedMid(section)) \o <<Blank>>
<1> DEFINE e == MidLine(section)
           x == Append(s, Blank)
           m == Len(s)
           q == <<Blank>>
           offered == OfferedMid(section)
<1>1. /\ s \in Seq(Lines) /\ m \in Nat /\ 1 \in 1..m
      /\ \A i \in 1..m : s[i] # Blank
  BY SectionElements
<1>2. Blank.kind # "a" /\ ~IsMid(Blank)
  <2>1. Blank.kind = "" /\ "" # "a"
    BY DEF Blank, Line
  <2>2. QED
    BY <2>1 DEF IsMid, IsAttr
<1>3. x = s \o q
  BY <1>1
<1>4. q \in Seq(Lines)
  BY NewLinesTyped
<1>5. /\ Len(x) = m + 1 /\ x[m + 1] = Blank
      /\ \A i \in 1..m : x[i] = s[i]
  BY <1>1
<1> HIDE DEF x, q, m
<1>6. \A i \in 2..(m + 1) : i = m + 1 \/ (i \in 1..m /\ i \in 2..m)
  BY <1>1
<1>7. \A i \in 2..m : i \in 1..m /\ i \in 2..(m + 1)
  BY <1>1
<1>8. x[1] = s[1]
  BY <1>1, <1>5
<1>9. HasMid(x) <=> HasMid(s)
  BY <1>2, <1>5, <1>6, <1>7 DEF HasMid, m
<1>10. LacksMid(x, offered) <=> LacksMid(s, offered)
  <2>1. HasLine(x, IsMid) <=> HasLine(s, IsMid)
    BY <1>9 DEF HasMid, HasLine
  <2> HIDE DEF offered
  <2>2. QED
    BY <1>8, <2>1, Zenon DEF LacksMid
<1>11. MidPlace(x) = MidPlace(s)
  <2> DEFINE A == {j \in 2..Len(x) : x[j].kind = "a"}
             B == {j \in 2..m : s[j].kind = "a"}
  <2>1. A = B
    <3>1. \A j \in A : j \in B
      BY <1>2, <1>5, <1>6
    <3>2. \A j \in B : j \in A
      BY <1>5, <1>7
    <3> HIDE DEF A, B
    <3>3. QED
      BY <3>1, <3>2
  <2>2. MidPlace(x) = IF A = {} THEN m + 1 ELSE Min(A)
    <3>1. Len(x) > 1 /\ x[Len(x)] = Blank
      BY <1>1, <1>5
    <3>2. QED
      BY <1>5, <3>1 DEF MidPlace
  <2>3. MidPlace(s) = IF B = {} THEN m + 1 ELSE Min(B)
    <3>1. m \in 1..m
      BY <1>1
    <3>2. s[m] # Blank
      BY <1>1, <3>1
    <3>3. QED
      BY <3>2 DEF MidPlace, m
  <2> HIDE DEF A, B
  <2>4. QED
    BY <2>1, <2>2, <2>3
<1> DEFINE at == MidPlace(s)
<1>12. at \in 2..(Len(s) + 1)
  BY MidPlaceInSection
<1>13. e \in Lines
  BY NewLinesTyped
<1>14. /\ WithMid(x, offered) =
            IF LacksMid(x, offered) THEN InsertAt(x, MidPlace(x), e) ELSE x
       /\ WithMid(s, offered) =
            IF LacksMid(s, offered) THEN InsertAt(s, at, e) ELSE s
  BY WithMidPlace
<1> HIDE DEF at, e, offered
<1>15. InsertAt(x, at, e) = InsertAt(s, at, e) \o q
  <2> DEFINE none == <<>>
             t == InsertAt(s, at, e)
  <2>1. none \in Seq(Lines) /\ Len(none) = 0 /\ at \in Nat
    BY <1>1, <1>12 DEF m
  <2>2. t \in Seq(Lines)
    <3>1. at \in 1..(Len(s) + 1) /\ s \in Seq(Lines)
      BY <1>1, <1>12 DEF m
    <3>2. QED
      BY <1>13, <3>1, Inserted
  <2>3. none \o s = s /\ none \o t = t
    BY <1>1, <2>2
  <2> HIDE DEF none, t
  <2>4. InsertAt(Between(none, s, q), Len(none) + at, e) =
          Between(none, InsertAt(s, at, e), q)
    <3>1. s \in Seq(Lines) /\ none \in Seq(Lines)
      BY <1>1, <2>1
    <3>2. QED
      BY <1>4, <1>12, <1>13, <3>1, InsertedInText
  <2>5. Len(none) + at = at
    BY <2>1
  <2>6. QED
    BY <1>3, <2>3, <2>4, <2>5 DEF Between, t
<1>16. QED
  BY <1>3, <1>10, <1>11, <1>14, <1>15 DEF x, q, at, offered

-----------------------------------------------------------------------------
(* The mid pass *)

\* A section behind the mid pass.
MidGiven(k, t) ==
    \E s \in MediaSections :
      Normalised(k, s) /\ t = WithMid(s, OfferedMid(offer[k]))

LEMMA MidPass ==
    ASSUME Negotiated, NEW secs, Assembled(secs)
    PROVE  LET new == [k \in 1..Len(secs) |-> WithMid(secs[k], OfferedMid(offer[k]))]
           IN  /\ new \in Seq(MediaSections) /\ Len(new) = Len(offer)
               /\ BeforeSections(lines) \o FlattenSeq(WithMids(Sections(lines))) =
                    Text(new) \o <<Blank>>
<1> DEFINE n == Len(secs)
           new == [k \in 1..n |-> WithMid(secs[k], OfferedMid(offer[k]))]
           all == Sections(lines)
           given == WithMids(all)
           end == <<Blank>>
<1>1. /\ secs \in Seq(MediaSections) /\ n = Len(offer) /\ n \in Nat /\ n # 0
      /\ lines = Text(secs) \o <<Blank>> /\ DOMAIN offer = 1..n
      /\ \A k \in 1..n : offer[k] \in OfferSections
  BY DEF Assembled, Negotiated
<1>2. BeforeSections(lines) = Preamble
  BY <1>1, BeforeTextSections
<1>3. all = Append(First(secs, n - 1), Append(secs[n], Blank))
  BY <1>1, SectionsOfLines
<1>4. /\ Len(all) = n /\ all[n] = Append(secs[n], Blank)
      /\ \A k \in 1..(n - 1) : all[k] = secs[k]
      /\ DOMAIN all = 1..n
  <2> DEFINE a == First(secs, n - 1)
             x == Append(secs[n], Blank)
  <2>1. n - 1 \in 0..Len(secs)
    BY <1>1
  <2>2. a \in Seq(MediaSections) /\ Len(a) = n - 1 /\ \A i \in 1..(n - 1) : a[i] = secs[i]
    BY <1>1, <2>1, FirstFacts
  <2> HIDE DEF a, x, all, n
  <2>3. all = Append(a, x)
    BY <1>3 DEF a, x
  <2>4. /\ Len(Append(a, x)) = Len(a) + 1 /\ Append(a, x)[Len(a) + 1] = x
        /\ \A i \in 1..Len(a) : Append(a, x)[i] = a[i]
        /\ DOMAIN Append(a, x) = 1..(Len(a) + 1)
    BY <2>2
  <2>5. Len(a) + 1 = n
    BY <1>1, <2>2
  <2>6. QED
    BY <2>2, <2>3, <2>4, <2>5 DEF x
<1> HIDE DEF all
<1>5. ASSUME NEW k \in 1..n
      PROVE  /\ new[k] = WithMid(secs[k], OfferedMid(offer[k]))
             /\ new[k] \in MediaSections
  <2>1. secs[k] \in MediaSections /\ offer[k] \in OfferSections
    BY <1>1
  <2>2. MidAdded(secs[k], WithMid(secs[k], OfferedMid(offer[k])), offer[k])
    BY <2>1, WithMidSection
  <2>3. QED
    BY <2>2 DEF MidAdded
<1>6. new \in Seq(MediaSections) /\ Len(new) = n
  <2>1. new \in [1..n -> MediaSections]
    BY <1>5
  <2> HIDE DEF new
  <2>2. QED
    BY <1>1, <2>1
<1>7. DOMAIN given = 1..n
  BY <1>4 DEF WithMids
<1>8. \A k \in 1..n : given[k] = WithMid(all[k], OfferedMid(offer[k]))
  BY <1>1, <1>4 DEF WithMids
<1>9. n \in 1..n /\ \A k \in 1..(n - 1) : k \in 1..n
  BY <1>1
<1>10. given[n] = new[n] \o end
  <2>1. secs[n] \in MediaSections /\ offer[n] \in OfferSections
    BY <1>1, <1>9
  <2>2. WithMid(Append(secs[n], Blank), OfferedMid(offer[n])) =
          WithMid(secs[n], OfferedMid(offer[n])) \o <<Blank>>
    BY <2>1, WithMidBlank
  <2>3. QED
    BY <1>4, <1>5, <1>8, <1>9, <2>2
<1> HIDE DEF new, n
<1>11. \A k \in 1..(n - 1) : given[k] = new[k]
  BY <1>4, <1>5, <1>8, <1>9
<1>12. new \in Seq(Seq(Lines))
  BY <1>6, MediaSectionsTyped
<1>13. end \in Seq(Lines)
  BY NewLinesTyped
<1>14. new[n] \in Seq(Lines)
  BY <1>6, <1>9, <1>12
<1>15. new[n] \o end \in Seq(Lines)
  BY <1>13, <1>14
<1> HIDE DEF end
<1>16. given \in Seq(Seq(Lines)) /\ Len(given) = n
  <2>1. ASSUME NEW k \in 1..n PROVE given[k] \in Seq(Lines)
    <3>1. k = n \/ k \in 1..(n - 1)
      BY <1>1
    <3>2. new[k] \in Seq(Lines)
      BY <1>6, <1>12
    <3>3. QED
      BY <1>10, <1>11, <1>15, <3>1, <3>2
  <2>2. given = [k \in 1..n |-> given[k]]
    <3>1. given = [k \in 1..n |-> IF k \in DOMAIN offer
                     THEN WithMid(all[k], OfferedMid(offer[k])) ELSE all[k]]
      BY <1>4 DEF WithMids
    <3> HIDE DEF given
    <3>2. QED
      BY <1>7, <3>1
  <2> HIDE DEF given
  <2>3. given \in [1..n -> Seq(Lines)]
    BY <2>1, <2>2
  <2>4. n \in Nat
    BY <1>1
  <2>5. QED
    BY <2>3, <2>4
<1> HIDE DEF given
<1>17. First(given, n - 1) = First(new, n - 1)
  <2> DEFINE a == First(given, n - 1)
             b == First(new, n - 1)
  <2>1. n - 1 \in 0..n
    BY <1>1
  <2>2. a \in Seq(Seq(Lines)) /\ Len(a) = n - 1 /\ \A i \in 1..(n - 1) : a[i] = given[i]
    BY <1>16, <2>1, FirstFacts
  <2>3. b \in Seq(Seq(Lines)) /\ Len(b) = n - 1 /\ \A i \in 1..(n - 1) : b[i] = new[i]
    BY <1>6, <1>12, <2>1, FirstFacts
  <2> HIDE DEF a, b
  <2>4. \A i \in 1..Len(a) : a[i] = b[i]
    BY <1>11, <2>2, <2>3
  <2>5. a = b
    BY <2>2, <2>3, <2>4, SeqEqual
  <2>6. QED
    BY <2>5 DEF a, b
<1> DEFINE f == FlattenSeq(First(new, n - 1))
           s == new[n]
<1>18. FlattenSeq(given) = f \o (s \o end)
  <2>1. n \in 1..Len(given) /\ First(given, n) = given
    BY <1>9, <1>16, FirstEnds
  <2>2. FlattenSeq(First(given, n)) = FlattenSeq(First(given, n - 1)) \o given[n]
    BY <1>16, <2>1, FlattenFirst
  <2>3. QED
    BY <1>10, <1>17, <2>1, <2>2
<1>19. FlattenSeq(new) = f \o s
  <2>1. n \in 1..Len(new) /\ First(new, n) = new
    BY <1>6, <1>9, <1>12, FirstEnds
  <2>2. FlattenSeq(First(new, n)) = FlattenSeq(First(new, n - 1)) \o new[n]
    BY <1>12, <2>1, FlattenFirst
  <2>3. QED
    BY <2>1, <2>2
<1>20. f \in Seq(Lines)
  <2>1. n - 1 \in 0..Len(new)
    BY <1>1, <1>6
  <2>2. First(new, n - 1) \in Seq(Seq(Lines))
    BY <1>12, <2>1, FirstFacts
  <2>3. QED
    BY <2>2, FlattenSeqType
<1>21. s \in Seq(Lines)
  BY <1>14
<1> HIDE DEF f, s
<1> DEFINE fs == f \o s
<1>22. f \o (s \o end) = fs \o end /\ fs \in Seq(Lines)
  BY <1>13, <1>20, <1>21, JoinedThree
<1> HIDE DEF fs
<1>23. Preamble \o (fs \o end) = (Preamble \o fs) \o end
  BY <1>13, <1>22, PreambleLines, JoinedThree
<1>24. BeforeSections(lines) \o FlattenSeq(given) = Text(new) \o end
  BY <1>2, <1>18, <1>19, <1>22, <1>23 DEF Text, fs
<1>25. QED
  BY <1>1, <1>6, <1>24 DEF given, all, new, n, end

-----------------------------------------------------------------------------
(* The candidates of one section *)

NoRtcpLines == {line \in Lines : ~IsRtcpCandidate(line)}

MuxedSection(s) ==
    /\ s[1].name = "audio" /\ Port(s[1]) # "0"
    /\ \E j \in 2..Len(s) : IsAttr(s[j], "rtcp-mux")

KeptLines(s) == IF MuxedSection(s) THEN NoRtcpLines ELSE Lines

\* What normalizeAlexaRTCPMuxCandidates leaves of a section.
Pruned(s) == Only(s, KeptLines(s))

LEMMA OnlyAll ==
    ASSUME NEW s \in Seq(Lines)
    PROVE  Only(s, Lines) = s
<1> DEFINE a == Pick(s, Lines)
           b == [j \in DOMAIN s |-> <<s[j]>>]
<1>1. a = b
  <2>1. \A j \in DOMAIN s : s[j] \in Lines
    OBVIOUS
  <2>2. QED
    BY <2>1 DEF Pick
<1>2. FlattenSeq(b) = s
  BY FlattenSingles
<1>3. QED
  BY <1>1, <1>2 DEF Only

LEMMA PrunedSection ==
    ASSUME NEW s \in MediaSections
    PROVE  /\ Pruned(s) \in MediaSections
           /\ ~MuxedSection(s) => Pruned(s) = s
           /\ MuxedSection(s) => Pruned(s) = Only(s, NoRtcpLines)
<1> DEFINE K == KeptLines(s)
           a == First(s, 1)
           b == Rest(s, 1)
           U == {line \in Lines : ~IsMedia(line) /\ line # Blank}
           t == Only(s, K)
<1>1. /\ s \in Seq(Lines) /\ Len(s) \in Nat /\ 1 \in 1..Len(s) /\ IsMedia(s[1])
      /\ \A i \in 1..Len(s) : s[i] # Blank
      /\ \A i \in 2..Len(s) : ~IsMedia(s[i]) /\ i \in 1..Len(s)
  BY SectionElements
<1>2. s[1] \in K
  <2>1. ~IsRtcpCandidate(s[1]) /\ s[1] \in Lines
    BY <1>1 DEF IsRtcpCandidate, IsAttr, IsMedia
  <2>2. QED
    BY <2>1 DEF KeptLines, NoRtcpLines
<1>3. 1 \in 0..Len(s)
  BY <1>1
<1>4. a = <<s[1]>>
  <2>1. a \in Seq(Lines) /\ Len(a) = 1 /\ \A i \in 1..1 : a[i] = s[i]
    BY <1>1, <1>3, FirstFacts
  <2> HIDE DEF a
  <2>2. a[1] = s[1]
    BY <2>1
  <2>3. QED
    BY <2>1, <2>2
<1>5. /\ b \in Seq(Lines) /\ Len(b) = Len(s) - 1
      /\ \A i \in 1..(Len(s) - 1) : b[i] = s[1 + i]
  BY <1>1, <1>3, RestFacts
<1>6. s = a \o b
  BY <1>1, <1>3, FirstAndRest
<1> HIDE DEF a, b, K
<1>7. b \in Seq(U)
  <2>1. ASSUME NEW i \in 1..Len(b) PROVE b[i] \in U
    <3>1. i \in 1..(Len(s) - 1) /\ 1 + i \in 2..Len(s) /\ 1 + i \in 1..Len(s)
      BY <1>1, <1>5
    <3>2. b[i] = s[1 + i] /\ b[i] \in Lines
      BY <1>5, <3>1
    <3>3. QED
      BY <1>1, <3>1, <3>2
  <2> HIDE DEF U
  <2>2. QED
    BY <1>5, <2>1
<1>8. a \in Seq(Lines) /\ s[1] \in Lines
  BY <1>1, <1>4
<1>9. t = Only(a, K) \o Only(b, K)
  BY <1>5, <1>6, <1>8, OnlyJoined
<1>10. Only(a, K) = a
  BY <1>2, <1>4, <1>8, OnlyOne
<1> DEFINE c == Only(b, K)
<1>11. c \in Seq(U)
  BY <1>7, OnlyType
<1>12. U \subseteq Lines /\ \A line \in U : ~IsMedia(line) /\ line # Blank
  OBVIOUS
<1> HIDE DEF c, t, U
<1>13. c \in Seq(Lines)
  BY <1>11, <1>12, SeqMonotonic
<1>14. /\ t \in Seq(Lines) /\ Len(t) = Len(a) + Len(c)
       /\ \A i \in 1..Len(a) : t[i] = a[i]
       /\ \A i \in 1..Len(c) : t[Len(a) + i] = c[i]
  <2>1. t = a \o c
    BY <1>9, <1>10 DEF c
  <2>2. a \in Seq(Lines)
    BY <1>8
  <2>3. QED
    BY <1>13, <2>1, <2>2, Joined
<1>15. Len(a) = 1 /\ a[1] = s[1] /\ Len(c) \in Nat
  BY <1>4, <1>13
<1>16. Len(t) # 0 /\ t[1] = s[1]
  BY <1>14, <1>15
<1>17. ASSUME NEW i \in 2..Len(t) PROVE ~IsMedia(t[i]) /\ t[i] # Blank
  <2>1. i - 1 \in 1..Len(c) /\ 1 + (i - 1) = i
    BY <1>14, <1>15
  <2>2. t[i] = c[i - 1] /\ c[i - 1] \in U
    BY <1>11, <1>14, <1>15, <2>1
  <2>3. QED
    BY <1>12, <2>2
<1>18. t \in MediaSections
  BY <1>1, <1>14, <1>16, <1>17, SectionFromElements
<1>19. ~MuxedSection(s) => Only(s, KeptLines(s)) = s
  BY <1>1, OnlyAll DEF KeptLines
<1>20. MuxedSection(s) => Only(s, KeptLines(s)) = Only(s, NoRtcpLines)
  BY DEF KeptLines
<1>21. QED
  BY <1>18, <1>19, <1>20 DEF Pruned, t, K

\* The search for a=rtcp-mux sees the lines of the section.
LEMMA MuxedInText ==
    ASSUME NEW p, NEW s, NEW ls, NEW i, InText(p, s, ls, i), p \in Seq(Lines)
    PROVE  Muxed(ls, i) <=> MuxedSection(s)
<1> DEFINE I == (i + 1)..(SectionEnd(ls, i) - 1)
           l == Len(p)
<1>1. /\ ls[i] = s[1]
      /\ \A j \in 1..Len(s) : ls[l + j] = s[j]
      /\ \A j \in 2..Len(s) : l + j \in I
      /\ \A j \in I : ls[j] = Blank \/ j - l \in 2..Len(s)
      /\ i \in Nat /\ SectionEnd(ls, i) \in Int /\ l \in Nat
  BY DEF InText
<1>2. InSection(ls, i) = I
  BY DEF InSection
<1>3. ~IsAttr(Blank, "rtcp-mux")
  <2>1. Blank.kind = "" /\ "" # "a"
    BY DEF Blank, Line
  <2>2. QED
    BY <2>1 DEF IsAttr
<1>4. ASSUME NEW j \in I, IsAttr(ls[j], "rtcp-mux")
      PROVE  \E h \in 2..Len(s) : IsAttr(s[h], "rtcp-mux")
  <2>1. j - l \in 2..Len(s)
    BY <1>1, <1>3, <1>4
  <2>2. j \in Int
    OBVIOUS
  <2> HIDE DEF I, l
  <2>3. l + (j - l) = j /\ j - l \in 1..Len(s)
    BY <1>1, <2>1, <2>2
  <2>4. ls[j] = s[j - l]
    BY <1>1, <2>3
  <2>5. QED
    BY <1>4, <2>1, <2>4
<1>5. ASSUME NEW h \in 2..Len(s), IsAttr(s[h], "rtcp-mux")
      PROVE  \E j \in I : IsAttr(ls[j], "rtcp-mux")
  <2>1. h \in 1..Len(s)
    OBVIOUS
  <2>2. ls[l + h] = s[h] /\ l + h \in I
    BY <1>1, <2>1
  <2> HIDE DEF I, l
  <2>3. QED
    BY <1>5, <2>2
<1> HIDE DEF I
<1>6. QED
  BY <1>1, <1>2, <1>4, <1>5 DEF Muxed, MuxedSection

\* A line of the section is removed if the section multiplexes RTCP, whatever
\* the sections around it are.
LEMMA RemovedInText ==
    ASSUME NEW p \in Seq(Lines), NEW s \in MediaSections, NEW q, Closed(q),
           NEW ls, ls = Between(p, s, q), NEW j \in 1..Len(s)
    PROVE  Len(p) + j \in RemovedLines(ls) <=> s[j] \notin KeptLines(s)
<1> DEFINE l == Len(p)
           i == l + 1
           x == l + j
<1>1. InText(p, s, ls, i)
  BY SectionPlaces
<1>2. Muxed(ls, i) <=> MuxedSection(s)
  BY <1>1, MuxedInText
<1>3. /\ ls \in Seq(Lines) /\ i \in 1..Len(ls) /\ ls[i] = s[1]
      /\ \A h \in 1..Len(s) : ls[l + h] = s[h]
      /\ \A h \in 2..Len(s) : l + h \in (i + 1)..(SectionEnd(ls, i) - 1)
  BY <1>1 DEF InText
<1>4. /\ s \in Seq(Lines) /\ Len(s) \in Nat /\ IsMedia(s[1])
      /\ \A h \in 2..Len(s) : ~IsMedia(s[h]) /\ h \in 1..Len(s)
  BY SectionElements
<1>5. l \in Nat /\ j \in Nat /\ DOMAIN ls = 1..Len(ls) /\ Len(ls) \in Nat
  BY <1>3, <1>4
<1>6. s[j] \in Lines /\ ls[x] = s[j]
  BY <1>3, <1>4
<1>7. s[j] \notin KeptLines(s) <=> MuxedSection(s) /\ IsRtcpCandidate(s[j])
  BY <1>6 DEF KeptLines, NoRtcpLines
<1>8. ASSUME MuxedSection(s), IsRtcpCandidate(s[j]) PROVE x \in RemovedLines(ls)
  <2>1. j # 1
    BY <1>4, <1>8 DEF IsRtcpCandidate, IsAttr, IsMedia
  <2>2. j \in 2..Len(s)
    BY <1>4, <1>5, <2>1
  <2>3. x \in InSection(ls, i)
    BY <1>3, <2>2 DEF InSection
  <2>4. i \in SectionStarts(ls)
    BY <1>3, <1>4, <1>5 DEF SectionStarts
  <2>5. x \in DOMAIN ls
    <3>1. Len(ls) = l + Len(s) + Len(q) /\ Len(q) \in Nat
      <4>1. q \in Seq(Lines) /\ s \in Seq(Lines)
        BY <1>4 DEF Closed
      <4>2. Enclosed(Lines, p, s, q, ls)
        BY <4>1, BetweenFacts
      <4>3. QED
        BY <4>1, <4>2 DEF Enclosed
    <3> HIDE DEF l
    <3>2. QED
      BY <1>4, <1>5, <3>1
  <2> HIDE DEF x, i
  <2>6. QED
    BY <1>2, <1>6, <1>8, <2>3, <2>4, <2>5 DEF RemovedLines
<1>9. ASSUME x \in RemovedLines(ls)
      PROVE  MuxedSection(s) /\ IsRtcpCandidate(s[j])
  <2>1. IsRtcpCandidate(s[j])
    BY <1>6, <1>9 DEF RemovedLines
  <2>2. PICK h \in SectionStarts(ls) : Muxed(ls, h) /\ x \in InSection(ls, h)
    BY <1>9 DEF RemovedLines
  <2>3. h \in 1..Len(ls) /\ IsMedia(ls[h])
    BY <1>5 DEF SectionStarts
  <2>4. /\ SectionEnd(ls, h) \in (h + 1)..(Len(ls) + 1)
        /\ \A y \in (h + 1)..Len(ls) : IsMedia(ls[y]) => SectionEnd(ls, h) <= y
    BY <1>3, <2>3, SectionEndBounds, SectionEndIsNext
  <2> DEFINE end == SectionEnd(ls, h)
  <2>5. h + 1 <= x /\ x <= end - 1 /\ end \in Int
    <3>1. x \in (h + 1)..(end - 1)
      BY <2>2 DEF InSection
    <3>2. QED
      BY <1>5, <2>3, <2>4, <3>1
  <2> HIDE DEF end
  <2>6. h >= i
    <3> SUFFICES ASSUME ~(h >= i) PROVE FALSE
      OBVIOUS
    <3>1. i \in (h + 1)..Len(ls)
      BY <1>3, <1>5, <2>3
    <3>2. IsMedia(ls[i])
      BY <1>3, <1>4
    <3> HIDE DEF i
    <3>3. end <= i
      BY <2>4, <3>1, <3>2 DEF end
    <3>4. QED
      BY <1>5, <2>5, <3>3 DEF i
  <2>7. h = i
    <3> SUFFICES ASSUME h # i PROVE FALSE
      OBVIOUS
    <3>1. h - l \in 2..Len(s) /\ l + (h - l) = h
      BY <1>4, <1>5, <2>3, <2>5, <2>6
    <3>2. h - l \in 1..Len(s) /\ ~IsMedia(s[h - l])
      BY <1>4, <3>1
    <3>3. ls[h] = s[h - l]
      BY <1>3, <3>1, <3>2
    <3>4. QED
      BY <2>3, <3>2, <3>3
  <2>8. QED
    BY <1>2, <2>1, <2>2, <2>7
<1>10. QED
  BY <1>7, <1>8, <1>9

-----------------------------------------------------------------------------
(* The mux pass *)

\* What becomes of each line.
EachKept(ls) ==
    [j \in DOMAIN ls |-> IF j \in RemovedLines(ls) THEN <<>> ELSE <<ls[j]>>]

LEMMA EachKeptFacts ==
    ASSUME NEW ls \in Seq(Lines)
    PROVE  /\ EachKept(ls) \in Seq(Seq(Lines)) /\ Len(EachKept(ls)) = Len(ls)
           /\ \A j \in 1..Len(ls) : EachKept(ls)[j] =
                IF j \in RemovedLines(ls) THEN <<>> ELSE <<ls[j]>>
<1> DEFINE kept == EachKept(ls)
<1>1. DOMAIN ls = 1..Len(ls) /\ Len(ls) \in Nat
      /\ \A j \in 1..Len(ls) : ls[j] \in Lines
  OBVIOUS
<1>2. /\ kept \in [1..Len(ls) -> Seq(Lines)]
      /\ \A j \in 1..Len(ls) : kept[j] =
           IF j \in RemovedLines(ls) THEN <<>> ELSE <<ls[j]>>
  BY <1>1 DEF EachKept
<1> HIDE DEF kept
<1>3. Len(ls) \in Nat
  BY <1>1
<1>4. kept \in Seq(Seq(Lines)) /\ Len(kept) = Len(ls)
  BY <1>2, <1>3
<1>5. QED
  BY <1>2, <1>4 DEF kept

\* The lines of a section are kept or removed by themselves.
LEMMA SectionKept ==
    ASSUME NEW p \in Seq(Lines), NEW s \in MediaSections, NEW q, Closed(q),
           NEW ls, ls = Between(p, s, q)
    PROVE  FlattenSeq(First(EachKept(ls), Len(p) + Len(s))) =
             FlattenSeq(First(EachKept(ls), Len(p))) \o Pruned(s)
<1> DEFINE l == Len(p)
           m == Len(s)
           kept == EachKept(ls)
           a == First(kept, l)
           b == Pick(s, KeptLines(s))
           c == First(kept, l + m)
           ab == a \o b
<1>1. q \in Seq(Lines) /\ s \in Seq(Lines)
  BY DEF Closed, MediaSections
<1>2. Enclosed(Lines, p, s, q, ls)
  BY <1>1, BetweenFacts
<1>3. /\ ls \in Seq(Lines) /\ Len(ls) = l + m + Len(q)
      /\ \A j \in 1..m : ls[l + j] = s[j]
  BY <1>2 DEF Enclosed
<1>4. /\ kept \in Seq(Seq(Lines)) /\ Len(kept) = Len(ls)
      /\ \A j \in 1..Len(ls) : kept[j] =
           IF j \in RemovedLines(ls) THEN <<>> ELSE <<ls[j]>>
  BY <1>3, EachKeptFacts
<1>5. l \in Nat /\ m \in Nat /\ Len(q) \in Nat
  BY <1>1
<1>6. /\ b \in Seq(Seq(Lines)) /\ Len(b) = m
      /\ \A j \in 1..m : b[j] = IF s[j] \in KeptLines(s) THEN <<s[j]>> ELSE <<>>
  BY <1>1, PickFacts
<1> HIDE DEF kept, b
<1>7. \A j \in 1..m : l + j \in RemovedLines(ls) <=> s[j] \notin KeptLines(s)
  BY RemovedInText
<1> HIDE DEF l, m
<1>8. l \in 0..Len(kept) /\ l + m \in 0..Len(kept)
  BY <1>3, <1>4, <1>5
<1>9. ASSUME NEW j \in 1..m PROVE kept[l + j] = b[j]
  <2>1. l + j \in 1..Len(ls)
    BY <1>3, <1>5
  <2>2. kept[l + j] = IF l + j \in RemovedLines(ls) THEN <<>> ELSE <<ls[l + j]>>
    BY <1>4, <2>1
  <2>3. ls[l + j] = s[j]
    BY <1>3
  <2>4. QED
    BY <1>6, <1>7, <2>2, <2>3
<1>10. a \in Seq(Seq(Lines)) /\ Len(a) = l /\ \A j \in 1..l : a[j] = kept[j]
  BY <1>4, <1>8, FirstFacts
<1>11. c \in Seq(Seq(Lines)) /\ Len(c) = l + m /\ \A j \in 1..(l + m) : c[j] = kept[j]
  BY <1>4, <1>8, FirstFacts
<1> HIDE DEF a, c
<1>12. /\ ab \in Seq(Seq(Lines)) /\ Len(ab) = Len(a) + Len(b)
       /\ \A j \in 1..Len(a) : ab[j] = a[j]
       /\ \A j \in 1..Len(b) : ab[Len(a) + j] = b[j]
  <2>1. a \in Seq(Seq(Lines)) /\ b \in Seq(Seq(Lines))
    BY <1>6, <1>10
  <2>2. QED
    BY <2>1, Joined
<1> HIDE DEF ab
<1>13. \A j \in 1..Len(c) : c[j] = ab[j]
  <2> SUFFICES ASSUME NEW j \in 1..(l + m) PROVE c[j] = ab[j]
    BY <1>11
  <2>1. CASE j <= l
    <3>1. j \in 1..l
      BY <1>5, <2>1
    <3>2. QED
      BY <1>10, <1>11, <1>12, <3>1
  <2>2. CASE j > l
    <3>1. j - l \in 1..m /\ l + (j - l) = j
      BY <1>5, <2>2
    <3>2. kept[j] = b[j - l]
      BY <1>9, <3>1
    <3>3. ab[j] = b[j - l]
      BY <1>6, <1>10, <1>12, <3>1
    <3>4. QED
      BY <1>11, <3>2, <3>3
  <2>3. QED
    BY <1>5, <2>1, <2>2
<1>14. c = ab
  <2>1. c \in Seq(Seq(Lines)) /\ ab \in Seq(Seq(Lines)) /\ Len(c) = Len(ab)
    BY <1>6, <1>10, <1>11, <1>12
  <2>2. QED
    BY <1>13, <2>1, SeqEqual
<1>15. FlattenSeq(a \o b) = FlattenSeq(a) \o FlattenSeq(b)
  <2>1. a \in Seq(Seq(Lines)) /\ b \in Seq(Seq(Lines))
    BY <1>6, <1>10
  <2>2. QED
    BY <2>1, FlattenJoined
<1>16. QED
  BY <1>14, <1>15 DEF Pruned, Only, a, b, c, ab, l, m, kept

\* Nothing of the session level is removed.
LEMMA PreambleKept ==
    ASSUME NEW q \in Seq(Lines), NEW ls, ls = Preamble \o q
    PROVE  FlattenSeq(First(EachKept(ls), Len(Preamble))) = Preamble
<1> DEFINE p == Preamble
           l == Len(p)
           kept == EachKept(ls)
           a == First(kept, l)
           b == [j \in DOMAIN p |-> <<p[j]>>]
<1>1. p \in Seq(Lines) /\ l \in Nat /\ DOMAIN p = 1..l
  BY PreambleLines
<1>2. \A j \in 1..l : ~IsMedia(p[j])
  BY <1>1, PreambleAssumption
<1>3. /\ ls \in Seq(Lines) /\ Len(ls) = l + Len(q)
      /\ \A j \in 1..l : ls[j] = p[j]
  BY <1>1, Joined
<1>4. Len(q) \in Nat /\ DOMAIN ls = 1..Len(ls)
  BY <1>3
<1>5. /\ kept \in Seq(Seq(Lines)) /\ Len(kept) = Len(ls)
      /\ \A j \in 1..Len(ls) : kept[j] =
           IF j \in RemovedLines(ls) THEN <<>> ELSE <<ls[j]>>
  BY <1>3, EachKeptFacts
<1> HIDE DEF p, kept
<1>6. ASSUME NEW j \in 1..l PROVE j \notin RemovedLines(ls)
  <2> SUFFICES ASSUME j \in RemovedLines(ls) PROVE FALSE
    OBVIOUS
  <2>1. PICK h \in SectionStarts(ls) : j \in InSection(ls, h)
    BY DEF RemovedLines
  <2>2. h \in 1..Len(ls) /\ IsMedia(ls[h])
    BY <1>4 DEF SectionStarts
  <2>3. SectionEnd(ls, h) \in (h + 1)..(Len(ls) + 1)
    BY <1>3, <2>2, SectionEndBounds
  <2> DEFINE end == SectionEnd(ls, h)
  <2>4. j \in (h + 1)..(end - 1)
    BY <2>1 DEF InSection
  <2> HIDE DEF end
  <2>5. h \in 1..l
    BY <1>1, <2>2, <2>4
  <2>6. QED
    BY <1>2, <1>3, <2>2, <2>5
<1> HIDE DEF l
<1>7. l \in 0..Len(kept) /\ \A j \in 1..l : j \in 1..Len(ls)
  BY <1>1, <1>3, <1>4, <1>5
<1>8. a \in Seq(Seq(Lines)) /\ Len(a) = l /\ \A j \in 1..l : a[j] = kept[j]
  BY <1>5, <1>7, FirstFacts
<1>9. \A j \in 1..l : a[j] = <<p[j]>>
  BY <1>3, <1>5, <1>6, <1>7, <1>8
<1>10. \A j \in 1..l : p[j] \in Lines
  BY <1>1 DEF l
<1>11. b \in [1..l -> Seq(Lines)] /\ \A j \in 1..l : b[j] = <<p[j]>>
  BY <1>1, <1>10
<1>12. FlattenSeq(b) = p
  BY <1>1, FlattenSingles
<1> HIDE DEF a, b
<1>13. b \in Seq(Seq(Lines)) /\ Len(b) = l
  <2>1. l \in Nat
    BY <1>1
  <2>2. QED
    BY <1>11, <2>1
<1>14. a = b
  <2>1. a \in Seq(Seq(Lines)) /\ Len(a) = Len(b)
    BY <1>8, <1>13
  <2>2. \A j \in 1..Len(a) : a[j] = b[j]
    BY <1>8, <1>9, <1>11
  <2>3. QED
    BY <1>13, <2>1, <2>2, SeqEqual
<1>15. QED
  BY <1>12, <1>14 DEF a, p, l, kept

PrunedAll(secs) == [k \in 1..Len(secs) |-> Pruned(secs[k])]

\* What is left of a text is made of what is left of its sections.
LEMMA MuxPass ==
    ASSUME NEW secs \in Seq(MediaSections), NEW ls,
           ls = Text(secs) \o <<Blank>>
    PROVE  /\ PrunedAll(secs) \in Seq(MediaSections)
           /\ Len(PrunedAll(secs)) = Len(secs)
           /\ FlattenSeq(EachKept(ls)) = Text(PrunedAll(secs)) \o <<Blank>>
<1> DEFINE n == Len(secs)
           new == PrunedAll(secs)
           kept == EachKept(ls)
           UpTo(m) == Len(Text(First(secs, m)))
           Good == {m \in 0..n : FlattenSeq(First(kept, UpTo(m))) =
                                   Text(First(new, m))}
           end == <<Blank>>
<1>1. n \in Nat /\ \A k \in 1..n : secs[k] \in MediaSections
  OBVIOUS
<1>2. new \in Seq(MediaSections) /\ Len(new) = n
  <2>1. ASSUME NEW k \in 1..n PROVE Pruned(secs[k]) \in MediaSections
    BY <1>1, PrunedSection
  <2>2. new \in [1..n -> MediaSections]
    BY <2>1 DEF PrunedAll
  <2> HIDE DEF n, new
  <2>3. n \in Nat
    BY <1>1
  <2>4. QED
    BY <2>2, <2>3
<1>3. \A k \in 1..n : new[k] = Pruned(secs[k])
  BY DEF PrunedAll
<1> HIDE DEF n, new
<1>4. end \in Seq(Lines) /\ Len(end) = 1 /\ end[1] = Blank /\ 1 \in 1..1
  BY NewLinesTyped
<1>5. 0 \in Good
  <2> DEFINE f == FlattenSeq(secs)
             q == f \o end
  <2>1. First(secs, 0) = <<>> /\ First(new, 0) = <<>>
    BY DEF First
  <2>2. f \in Seq(Lines)
    BY MediaSectionsTyped, FlattenSeqType
  <2> HIDE DEF f, end
  <2>3. q \in Seq(Lines)
    BY <1>4, <2>2
  <2>4. ls = Preamble \o q
    <3>1. end \in Seq(Lines)
      BY <1>4
    <3>2. Preamble \o (f \o end) = (Preamble \o f) \o end
      BY <2>2, <3>1, PreambleLines, JoinedThree
    <3>3. QED
      BY <3>2 DEF Text, f, end
  <2> HIDE DEF q
  <2>5. FlattenSeq(First(kept, Len(Preamble))) = Preamble
    BY <2>3, <2>4, PreambleKept
  <2>6. FlattenSeq(First(kept, UpTo(0))) = Text(First(new, 0))
    BY <2>1, <2>5, TextEmpty
  <2> HIDE DEF UpTo, kept
  <2>7. QED
    BY <1>1, <2>6
<1>6. ASSUME NEW m \in 1..n, m - 1 \in Good PROVE m \in Good
  <2> DEFINE p == Text(First(secs, m - 1))
             s == secs[m]
             q == Behind(secs, m)
  <2>1. m \in 0..n /\ m \in 1..Len(secs) /\ m \in 1..Len(new)
    BY <1>1, <1>2 DEF n
  <2>2. ls = Between(p, s, q) /\ p \in Seq(Lines) /\ s \in MediaSections /\ Closed(q)
    BY <2>1, TextAround
  <2>3. Text(First(secs, m)) = p \o s
    BY <2>1, TextGrows
  <2>4. Text(First(new, m)) = Text(First(new, m - 1)) \o Pruned(s)
    <3>1. Text(First(new, m)) = Text(First(new, m - 1)) \o new[m]
      BY <1>2, <2>1, TextGrows
    <3>2. QED
      BY <1>3, <3>1
  <2>5. FlattenSeq(First(kept, Len(p))) = Text(First(new, m - 1))
    BY <1>6
  <2> HIDE DEF p, s, q
  <2>6. FlattenSeq(First(EachKept(ls), Len(p) + Len(s))) =
          FlattenSeq(First(EachKept(ls), Len(p))) \o Pruned(s)
    BY <2>2, SectionKept
  <2>7. UpTo(m) = Len(p) + Len(s)
    <3>1. s \in Seq(Lines)
      BY <2>2 DEF MediaSections
    <3>2. Len(p \o s) = Len(p) + Len(s)
      BY <2>2, <3>1
    <3>3. QED
      BY <2>3, <3>2
  <2> HIDE DEF UpTo
  <2>8. QED
    BY <2>1, <2>4, <2>5, <2>6, <2>7
<1> HIDE DEF Good
<1>7. \A m \in 0..n : m \in Good
  BY <1>1, <1>5, <1>6, Induction
<1>8. FlattenSeq(First(kept, Len(Text(secs)))) = Text(new)
  <2>1. n \in Good
    BY <1>1, <1>7
  <2>2. First(secs, n) = secs
    BY FirstEnds DEF n
  <2>3. First(new, n) = new
    BY <1>2, FirstEnds
  <2>4. QED
    BY <2>1, <2>2, <2>3 DEF Good
<1> DEFINE p == Text(secs)
           N == Len(ls)
<1>9. p \in Seq(Lines)
  BY TextType
<1> HIDE DEF p, end
<1>10. /\ ls \in Seq(Lines) /\ N = Len(p) + 1 /\ ls[N] = Blank
       /\ Len(p) \in Nat
  <2>1. end \in Seq(Lines)
    BY <1>4
  <2>2. ls = p \o end
    BY DEF p, end
  <2>3. /\ p \o end \in Seq(Lines) /\ Len(p \o end) = Len(p) + Len(end)
        /\ \A i \in 1..Len(end) : (p \o end)[Len(p) + i] = end[i]
    BY <1>9, <2>1, Joined
  <2>4. 1 \in 1..Len(end) /\ Len(p) \in Nat
    BY <1>4, <1>9
  <2>5. (p \o end)[Len(p) + 1] = end[1]
    BY <2>3, <2>4
  <2>6. QED
    BY <1>4, <2>2, <2>3, <2>4, <2>5
<1>11. /\ kept \in Seq(Seq(Lines)) /\ Len(kept) = N
       /\ \A j \in 1..N : kept[j] =
            IF j \in RemovedLines(ls) THEN <<>> ELSE <<ls[j]>>
  BY <1>10, EachKeptFacts
<1> HIDE DEF kept, N
<1>12. N \in 1..N /\ N - 1 = Len(p) /\ N \in Nat
  BY <1>10
<1>13. kept[N] = end
  <2>1. N \notin RemovedLines(ls)
    <3>1. Blank.kind = "" /\ "a" # ""
      BY DEF Blank, Line
    <3>2. \A j \in RemovedLines(ls) : ls[j].kind = "a"
      BY DEF RemovedLines, IsRtcpCandidate, IsAttr
    <3>3. QED
      BY <1>10, <3>1, <3>2
  <2>2. QED
    BY <1>10, <1>11, <1>12, <2>1 DEF end
<1>14. FlattenSeq(First(kept, N)) = FlattenSeq(First(kept, N - 1)) \o kept[N]
  BY <1>11, <1>12, FlattenFirst
<1>15. First(kept, N) = kept
  BY <1>11, FirstEnds
<1>16. QED
  BY <1>2, <1>8, <1>12, <1>13, <1>14, <1>15 DEF kept, p, end, n, new

-----------------------------------------------------------------------------
(* Through all passes *)

\* A section behind the mux pass.
Finished(k, t) ==
    \E s \in MediaSections : MidGiven(k, s) /\ t = Pruned(s)

\* In every stage from Pion on the text is made of one section for each that
\* was offered, and what has become of it depends on this section, on the one
\* Pion had made of it and on the one offered in its place, and on no other.
SectionsInv ==
    /\ stage \in {"video", "mid", "mux", "done"} => Negotiated
    /\ stage = "video" =>
         \E secs : Assembled(secs) /\ \E m : LoopBehind(secs, m)
    /\ stage = "mid" =>
         \E secs : /\ Assembled(secs)
                   /\ \A k \in 1..Len(offer) : Normalised(k, secs[k])
    /\ stage = "mux" =>
         \E secs : /\ Assembled(secs)
                   /\ \A k \in 1..Len(offer) : MidGiven(k, secs[k])
    /\ stage = "done" =>
         \E secs : /\ Assembled(secs)
                   /\ \A k \in 1..Len(offer) : Finished(k, secs[k])

\* The loop starts before the first section of Pion's answer.
LEMMA SectionsPion ==
    ASSUME AnswerInv, PionAnswers
    PROVE  /\ Negotiated'
           /\ \E secs : Assembled(secs)' /\ \E m : LoopBehind(secs, m)'
<1>1. PICK a \in [DOMAIN offer -> AnswerSections] :
        /\ \A k \in DOMAIN offer : a[k][1].name = offer[k][1].name
        /\ answer' = a
        /\ lines' = Preamble \o FlattenSeq(a) \o <<Blank>>
  BY DEF PionAnswers
<1> DEFINE n == Len(offer)
<1>2. /\ offer \in Seq(OfferSections) /\ n \in Nat /\ n # 0
      /\ DOMAIN offer = 1..n /\ lineIndex = 1 /\ videoIndex = 0
  BY DEF AnswerInv, PionAnswers
<1>3. offer' = offer /\ lineIndex' = 1 /\ videoIndex' = 0
  BY <1>2 DEF PionAnswers
<1> HIDE DEF n
<1>4. a \in Seq(AnswerSections) /\ Len(a) = n
  <2>1. n \in Nat /\ a \in [1..n -> AnswerSections]
    BY <1>2
  <2>2. QED
    BY <2>1
<1>5. Negotiated'
  BY <1>1, <1>2, <1>3, <1>4 DEF Negotiated, n
<1>6. a \in Seq(MediaSections)
  BY <1>4, AnswerSectionsTyped, SeqMonotonic
<1>7. Assembled(a)'
  BY <1>1, <1>3, <1>4, <1>6 DEF Assembled, Text, n
<1>8. First(a, 0) = <<>> /\ First(EachOffered', 0) = <<>>
  BY DEF First
<1>9. Text(First(a, 0)) = Preamble
  BY <1>8, TextEmpty
<1>10. Len(FlattenSeq(First(EachOffered', 0))) = 0
  BY <1>8, FlattenEmpty
<1>11. ASSUME NEW j \in 1..Len(Preamble) PROVE ~IsVideoLine(lines'[j])
  <2> DEFINE f == FlattenSeq(a)
             end == <<Blank>>
             p == Preamble
             pf == p \o f
  <2>1. f \in Seq(Lines) /\ end \in Seq(Lines) /\ p \in Seq(Lines)
    BY <1>6, MediaSectionsTyped, FlattenSeqType, PreambleLines, NewLinesTyped
  <2>2. lines' = Between(p, f, end)
    BY <1>1 DEF Between
  <2> HIDE DEF f, end
  <2>3. Enclosed(Lines, p, f, end, lines')
    BY <2>1, <2>2, BetweenFacts
  <2>4. lines'[j] = p[j]
    BY <2>3 DEF Enclosed
  <2>5. ~IsMedia(p[j])
    BY <2>1, PreambleAssumption
  <2>6. QED
    BY <2>4, <2>5 DEF IsVideoLine
<1>12. LoopBehind(a, 0)'
  <2>1. Len(offer') = n /\ 0 \in 0..n
    BY <1>2, <1>3 DEF n
  <2>2. \A k \in 1..n : ~(k <= 0) /\ a[k] = answer'[k]
    BY <1>1, <1>2
  <2>3. Len(Preamble) \in Nat
    BY PreambleLines
  <2>4. lineIndex' <= Len(Text(First(a, 0))) + 1
    BY <1>3, <1>9, <2>3
  <2>5. \A j \in (lineIndex')..Len(Text(First(a, 0))) : ~IsVideoLine(lines'[j])
    BY <1>3, <1>9, <1>11
  <2>6. QED
    BY <1>3, <1>10, <2>1, <2>2, <2>4, <2>5 DEF LoopBehind
<1>13. QED
  BY <1>5, <1>7, <1>12

LEMMA SectionsLoop ==
    ASSUME AnswerInv, SectionsInv, NormalizeVideoSection
    PROVE  /\ Negotiated'
           /\ \E secs : Assembled(secs)' /\ \E m : LoopBehind(secs, m)'
<1>1. stage = "video" /\ offer' = offer /\ answer' = answer
  BY DEF NormalizeVideoSection
<1>2. Negotiated /\ lineIndex \in Nat
  BY <1>1 DEF SectionsInv, AnswerInv
<1>3. PICK secs : Assembled(secs) /\ \E m : LoopBehind(secs, m)
  BY <1>1 DEF SectionsInv
<1>4. \E new : Assembled(new)' /\ \E m : LoopBehind(new, m)'
  BY <1>2, <1>3, LoopSection
<1>5. Negotiated'
  BY <1>1, <1>2 DEF Negotiated
<1>6. QED
  BY <1>4, <1>5

\* When the loop ends, it is behind all sections.
LEMMA SectionsDone ==
    ASSUME AnswerInv, SectionsInv, VideoDone
    PROVE  /\ Negotiated'
           /\ \E secs : /\ Assembled(secs)'
                        /\ \A k \in 1..Len(offer') : Normalised(k, secs[k])'
<1>1. /\ stage = "video" /\ offer' = offer /\ answer' = answer /\ lines' = lines
      /\ OfferedVideoPayloads = <<>> \/ NextVideo > Len(lines)
  BY DEF VideoDone
<1>2. Negotiated /\ lineIndex \in Nat
  BY <1>1 DEF SectionsInv, AnswerInv
<1>3. PICK secs : Assembled(secs) /\ \E m : LoopBehind(secs, m)
  BY <1>1 DEF SectionsInv
<1> DEFINE n == Len(offer)
<1>4. PICK m \in 0..n : /\ LoopBehind(secs, m)
                        /\ m = n \/ IsVideo(answer[m + 1])
  BY <1>2, <1>3, LoopStops
<1>5. m = n
  <2> SUFFICES ASSUME m # n PROVE FALSE
    OBVIOUS
  <2>1. IsVideo(answer[m + 1])
    BY <1>4
  <2>2. OfferedVideoPayloads # <<>>
    BY <1>2, <1>4, <2>1, OfferedInPlace
  <2>3. /\ NextVideo = Len(Text(First(secs, m))) + 1 /\ NextVideo <= Len(lines)
    BY <1>2, <1>3, <1>4, <2>1, NextIsSection
  <2> DEFINE x == Len(Text(First(secs, m)))
             N == Len(lines)
  <2>4. x \in Nat /\ N \in Nat
    <3>1. secs \in Seq(MediaSections) /\ Len(secs) = n
      BY <1>3 DEF Assembled
    <3>2. First(secs, m) \in Seq(MediaSections)
      BY <3>1, FirstFacts
    <3>3. Text(First(secs, m)) \in Seq(Lines)
      BY <3>2, TextType
    <3>4. Text(secs) \in Seq(Lines) /\ <<Blank>> \in Seq(Lines)
      BY <3>1, TextType, NewLinesTyped
    <3>5. lines \in Seq(Lines)
      BY <1>3, <3>4 DEF Assembled
    <3>6. QED
      BY <3>3, <3>5
  <2> HIDE DEF x, N
  <2>5. NextVideo = x + 1 /\ NextVideo <= N /\ NextVideo > N
    BY <1>1, <2>2, <2>3 DEF x, N
  <2>6. QED
    BY <2>4, <2>5
<1>6. \A k \in 1..n : k <= n => Normalised(k, secs[k])
  BY <1>4, <1>5 DEF LoopBehind
<1>7. ASSUME NEW k \in 1..n PROVE Normalised(k, secs[k])'
  <2>1. n \in Nat
    BY <1>2 DEF Negotiated
  <2>2. Normalised(k, secs[k])
    BY <1>6, <2>1
  <2>3. QED
    BY <1>1, <2>2 DEF Normalised, Echo
<1>8. Assembled(secs)' /\ Negotiated'
  BY <1>1, <1>2, <1>3 DEF Assembled, Negotiated
<1>9. QED
  BY <1>1, <1>7, <1>8

LEMMA SectionsMids ==
    ASSUME SectionsInv, NormalizeRejectedMediaMIDs
    PROVE  /\ Negotiated'
           /\ \E secs : /\ Assembled(secs)'
                        /\ \A k \in 1..Len(offer') : MidGiven(k, secs[k])'
<1>1. /\ stage = "mid" /\ offer' = offer /\ answer' = answer
      /\ lines' = BeforeSections(lines) \o FlattenSeq(WithMids(Sections(lines)))
  BY DEF NormalizeRejectedMediaMIDs
<1>2. Negotiated
  BY <1>1 DEF SectionsInv
<1>3. PICK secs : /\ Assembled(secs)
                  /\ \A k \in 1..Len(offer) : Normalised(k, secs[k])
  BY <1>1 DEF SectionsInv
<1>4. PICK new :
        /\ new = [k \in 1..Len(secs) |-> WithMid(secs[k], OfferedMid(offer[k]))]
        /\ new \in Seq(MediaSections) /\ Len(new) = Len(offer)
        /\ BeforeSections(lines) \o FlattenSeq(WithMids(Sections(lines))) =
             Text(new) \o <<Blank>>
  BY <1>2, <1>3, MidPass
<1>5. ASSUME NEW k \in 1..Len(offer) PROVE MidGiven(k, new[k])'
  <2>1. Len(secs) = Len(offer) /\ secs \in Seq(MediaSections)
    BY <1>3 DEF Assembled
  <2>2. secs[k] \in MediaSections /\ new[k] = WithMid(secs[k], OfferedMid(offer[k]))
    BY <1>4, <2>1
  <2>3. Normalised(k, secs[k])'
    BY <1>1, <1>3 DEF Normalised, Echo
  <2>4. QED
    BY <1>1, <2>2, <2>3 DEF MidGiven
<1>6. Assembled(new)' /\ Negotiated'
  BY <1>1, <1>2, <1>4 DEF Assembled, Negotiated
<1>7. QED
  BY <1>1, <1>5, <1>6

LEMMA SectionsMux ==
    ASSUME SectionsInv, NormalizeRTCPMuxCandidates
    PROVE  /\ Negotiated'
           /\ \E secs : /\ Assembled(secs)'
                        /\ \A k \in 1..Len(offer') : Finished(k, secs[k])'
<1>1. /\ stage = "mux" /\ offer' = offer /\ answer' = answer
      /\ lines' = FlattenSeq(EachKept(lines))
  BY DEF NormalizeRTCPMuxCandidates, EachKept
<1>2. Negotiated
  BY <1>1 DEF SectionsInv
<1>3. PICK secs : /\ Assembled(secs)
                  /\ \A k \in 1..Len(offer) : MidGiven(k, secs[k])
  BY <1>1 DEF SectionsInv
<1> DEFINE new == PrunedAll(secs)
<1>4. /\ secs \in Seq(MediaSections) /\ Len(secs) = Len(offer)
      /\ lines = Text(secs) \o <<Blank>>
  BY <1>3 DEF Assembled
<1>5. /\ new \in Seq(MediaSections) /\ Len(new) = Len(secs)
      /\ FlattenSeq(EachKept(lines)) = Text(new) \o <<Blank>>
  BY <1>4, MuxPass
<1>6. ASSUME NEW k \in 1..Len(offer) PROVE Finished(k, new[k])'
  <2>1. secs[k] \in MediaSections /\ new[k] = Pruned(secs[k])
    BY <1>4 DEF PrunedAll
  <2>2. MidGiven(k, secs[k])'
    BY <1>1, <1>3 DEF MidGiven, Normalised, Echo
  <2> HIDE DEF new
  <2>3. QED
    BY <2>1, <2>2 DEF Finished
<1> HIDE DEF new
<1>7. Assembled(new)' /\ Negotiated'
  BY <1>1, <1>2, <1>4, <1>5 DEF Assembled, Negotiated
<1>8. QED
  BY <1>1, <1>6, <1>7

LEMMA SectionsUnchanged ==
    ASSUME SectionsInv, UNCHANGED vars
    PROVE  SectionsInv'
<1>1. /\ offer' = offer /\ answer' = answer /\ lines' = lines /\ stage' = stage
      /\ lineIndex' = lineIndex /\ videoIndex' = videoIndex
  BY DEF vars
<1>2. Negotiated' <=> Negotiated
  BY <1>1 DEF Negotiated
<1>3. ASSUME NEW secs PROVE Assembled(secs)' <=> Assembled(secs)
  BY <1>1 DEF Assembled
<1>4. ASSUME NEW k, NEW t PROVE Normalised(k, t)' <=> Normalised(k, t)
  BY <1>1 DEF Normalised, Echo
<1>5. ASSUME NEW k, NEW t PROVE MidGiven(k, t)' <=> MidGiven(k, t)
  BY <1>1, <1>4 DEF MidGiven
<1>6. ASSUME NEW k, NEW t PROVE Finished(k, t)' <=> Finished(k, t)
  BY <1>5 DEF Finished
<1>7. ASSUME NEW secs, NEW m PROVE LoopBehind(secs, m)' <=> LoopBehind(secs, m)
  <2>1. EachOffered' = EachOffered
    BY <1>1 DEF EachOffered
  <2>2. QED
    BY <1>1, <1>4, <2>1 DEF LoopBehind
<1>8. QED
  BY <1>1, <1>2, <1>3, <1>4, <1>5, <1>6, <1>7 DEF SectionsInv

LEMMA SectionsStep ==
    ASSUME AnswerInv, SectionsInv, [Next]_vars
    PROVE  SectionsInv'
<1>1. CASE ValidateOffer
  <2>1. stage' \in {"negotiate", "refused"}
    BY <1>1 DEF ValidateOffer
  <2>2. QED
    BY <2>1 DEF SectionsInv
<1>2. CASE PionAnswers
  <2>1. stage' = "video"
    BY <1>2 DEF PionAnswers
  <2>2. /\ Negotiated'
        /\ \E secs : Assembled(secs)' /\ \E m : LoopBehind(secs, m)'
    BY <1>2, SectionsPion
  <2>3. QED
    BY <2>1, <2>2 DEF SectionsInv
<1>3. CASE NormalizeVideoSection
  <2>1. stage' = "video"
    BY <1>3 DEF NormalizeVideoSection
  <2>2. /\ Negotiated'
        /\ \E secs : Assembled(secs)' /\ \E m : LoopBehind(secs, m)'
    BY <1>3, SectionsLoop
  <2>3. QED
    BY <2>1, <2>2 DEF SectionsInv
<1>4. CASE VideoDone
  <2>1. stage' = "mid"
    BY <1>4 DEF VideoDone
  <2>2. /\ Negotiated'
        /\ \E secs : /\ Assembled(secs)'
                     /\ \A k \in 1..Len(offer') : Normalised(k, secs[k])'
    BY <1>4, SectionsDone
  <2>3. QED
    BY <2>1, <2>2 DEF SectionsInv
<1>5. CASE NormalizeRejectedMediaMIDs
  <2>1. stage' = "mux"
    BY <1>5 DEF NormalizeRejectedMediaMIDs
  <2>2. /\ Negotiated'
        /\ \E secs : /\ Assembled(secs)'
                     /\ \A k \in 1..Len(offer') : MidGiven(k, secs[k])'
    BY <1>5, SectionsMids
  <2>3. QED
    BY <2>1, <2>2 DEF SectionsInv
<1>6. CASE NormalizeRTCPMuxCandidates
  <2>1. stage' = "done"
    BY <1>6 DEF NormalizeRTCPMuxCandidates
  <2>2. /\ Negotiated'
        /\ \E secs : /\ Assembled(secs)'
                     /\ \A k \in 1..Len(offer') : Finished(k, secs[k])'
    BY <1>6, SectionsMux
  <2>3. QED
    BY <2>1, <2>2 DEF SectionsInv
<1>7. CASE Returned \/ UNCHANGED vars
  <2>1. UNCHANGED vars
    BY <1>7 DEF Returned
  <2>2. QED
    BY <2>1, SectionsUnchanged
<1>8. QED
  BY <1>1, <1>2, <1>3, <1>4, <1>5, <1>6, <1>7 DEF Next

\* normalizeAlexaRejectedVideoPayloads, normalizeAlexaRejectedMediaMIDs and
\* normalizeAlexaRTCPMuxCandidates run over the lines of the whole answer, and
\* yet each section becomes what it would have become alone: none gains or
\* loses a line by what they do to another one, and the counters of video
\* sections in offer and answer stay in step.
THEOREM SectionsStaySeparate == Spec => []SectionsInv
<1>1. Init => SectionsInv
  BY DEF Init, SectionsInv
<1>2. AnswerInv /\ SectionsInv /\ [Next]_vars => SectionsInv'
  BY SectionsStep
<1>3. QED
  BY <1>1, <1>2, AnswerInductive, PTL DEF Spec

-----------------------------------------------------------------------------
(* What is returned *)

\* The sections of what is returned.
LEMMA ReturnedSections ==
    ASSUME NEW secs \in Seq(MediaSections)
    PROVE  Sections(Front(Text(secs) \o <<Blank>>)) = secs
<1> DEFINE p == Text(secs)
           end == <<Blank>>
           ls == p \o end
<1>1. p \in Seq(Lines) /\ end \in Seq(Lines) /\ Len(end) = 1
  BY TextType, NewLinesTyped
<1> HIDE DEF p, end
<1>2. p \in Seq(Lines) /\ end \in Seq(Lines)
  BY <1>1
<1>3. Len(ls) = Len(p) + Len(end) /\ Len(p) \in Nat
  BY <1>2
<1>4. First(ls, Len(p)) = p
  BY <1>2, JoinedParts
<1>5. Len(ls) - 1 = Len(p)
  BY <1>1, <1>3
<1> HIDE DEF ls
<1>6. Front(ls) = First(ls, Len(p))
  BY <1>5 DEF Front, First
<1>7. Sections(p) = secs
  BY SectionsOfText DEF p
<1>8. QED
  BY <1>4, <1>6, <1>7 DEF ls, p, end

\* Each section that is returned, from the one offered and Pion's.
LEMMA ResultFinished ==
    ASSUME SectionsInv, stage = "done"
    PROVE  /\ BeforeSections(lines) = Preamble
           /\ Len(Sections(Front(lines))) = Len(answer)
           /\ DOMAIN answer = 1..Len(answer) /\ Negotiated
           /\ \A k \in 1..Len(answer) :
                Finished(k, Result(k)) /\ k \in 1..Len(offer)
<1>1. Negotiated
  BY DEF SectionsInv
<1>2. PICK secs : /\ Assembled(secs)
                  /\ \A k \in 1..Len(offer) : Finished(k, secs[k])
  BY DEF SectionsInv
<1>3. /\ secs \in Seq(MediaSections) /\ Len(secs) = Len(offer)
      /\ lines = Text(secs) \o <<Blank>>
  BY <1>2 DEF Assembled
<1>4. Len(answer) = Len(offer) /\ Len(offer) # 0 /\ DOMAIN answer = 1..Len(answer)
  BY <1>1 DEF Negotiated
<1>5. BeforeSections(lines) = Preamble
  BY <1>3, <1>4, BeforeTextSections
<1>6. Sections(Front(lines)) = secs
  BY <1>3, ReturnedSections
<1>7. QED
  BY <1>1, <1>2, <1>3, <1>4, <1>5, <1>6 DEF Result

\* Kept, for the lines the properties ask for.
LEMMA KeptNoRtcp ==
    ASSUME NEW s \in Seq(Lines)
    PROVE  Kept(s, LAMBDA line : ~IsRtcpCandidate(line)) = Only(s, NoRtcpLines)
<1>1. \A j \in DOMAIN s : ~IsRtcpCandidate(s[j]) <=> s[j] \in NoRtcpLines
  BY DEF NoRtcpLines
<1>2. [j \in DOMAIN s |-> IF ~IsRtcpCandidate(s[j]) THEN <<s[j]>> ELSE <<>>] =
        [j \in DOMAIN s |-> IF s[j] \in NoRtcpLines THEN <<s[j]>> ELSE <<>>]
  BY <1>1
<1>3. QED
  BY <1>2 DEF Kept, Only, Pick

LEMMA KeptMapping ==
    ASSUME NEW s \in Seq(Lines), NEW payload
    PROVE  Kept(s, LAMBDA line : MapsPayload(line, payload)) =
             Only(s, Mapping(payload))
<1>1. \A j \in DOMAIN s : MapsPayload(s[j], payload) <=> s[j] \in Mapping(payload)
  BY DEF Mapping
<1>2. [j \in DOMAIN s |-> IF MapsPayload(s[j], payload) THEN <<s[j]>> ELSE <<>>] =
        [j \in DOMAIN s |-> IF s[j] \in Mapping(payload) THEN <<s[j]>> ELSE <<>>]
  BY <1>1
<1>3. QED
  BY <1>2 DEF Kept, Only, Pick

LEMMA KeptOthers ==
    ASSUME NEW s \in Seq(Lines)
    PROVE  Kept(s, LAMBDA line : ~Added(line)) = Only(s, OtherLines)
<1>1. \A j \in DOMAIN s : ~Added(s[j]) <=> s[j] \in OtherLines
  BY DEF OtherLines
<1>2. [j \in DOMAIN s |-> IF ~Added(s[j]) THEN <<s[j]>> ELSE <<>>] =
        [j \in DOMAIN s |-> IF s[j] \in OtherLines THEN <<s[j]>> ELSE <<>>]
  BY <1>1
<1>3. QED
  BY <1>2 DEF Kept, Only, Pick

LEMMA KeptMids ==
    ASSUME NEW s \in Seq(Lines)
    PROVE  Kept(s, IsMid) = Only(s, MidLines)
<1>1. \A j \in DOMAIN s : IsMid(s[j]) <=> s[j] \in MidLines
  BY DEF MidLines
<1>2. [j \in DOMAIN s |-> IF IsMid(s[j]) THEN <<s[j]>> ELSE <<>>] =
        [j \in DOMAIN s |-> IF s[j] \in MidLines THEN <<s[j]>> ELSE <<>>]
  BY <1>1
<1>3. QED
  BY <1>2 DEF Kept, Only, Pick

\* The steps of one section through the passes.
Passed(k, s, u, t) ==
    /\ s \in MediaSections /\ u \in MediaSections /\ t \in MediaSections
    /\ answer[k] \in MediaSections /\ offer[k] \in OfferSections
    /\ answer[k][1].name = offer[k][1].name
    /\ Normalised(k, s) /\ MidAdded(s, u, offer[k]) /\ t = Pruned(u)

LEMMA FinishedPassed ==
    ASSUME Negotiated, NEW k \in 1..Len(offer), NEW t, Finished(k, t)
    PROVE  \E s, u : Passed(k, s, u, t)
<1>1. answer[k] \in MediaSections /\ offer[k] \in OfferSections
  BY NegotiatedSections
<1>2. answer[k][1].name = offer[k][1].name
  BY DEF Negotiated
<1>3. PICK u \in MediaSections : MidGiven(k, u) /\ t = Pruned(u)
  BY DEF Finished
<1>4. PICK s \in MediaSections :
        Normalised(k, s) /\ u = WithMid(s, OfferedMid(offer[k]))
  BY <1>3 DEF MidGiven
<1>5. MidAdded(s, u, offer[k])
  BY <1>1, <1>4, WithMidSection
<1>6. t \in MediaSections
  BY <1>3, PrunedSection
<1>7. QED
  BY <1>1, <1>2, <1>3, <1>4, <1>5, <1>6 DEF Passed

\* A rejected section is no audio that multiplexes RTCP.
LEMMA RejectedStays ==
    ASSUME NEW u \in MediaSections, Port(u[1]) = "0"
    PROVE  Pruned(u) = u
<1>1. ~MuxedSection(u)
  BY DEF MuxedSection
<1>2. QED
  BY <1>1, PrunedSection

LEMMA AcceptedPasses ==
    ASSUME NEW k, NEW s, NEW u, NEW t, Passed(k, s, u, t), ~Rejected(answer[k])
    PROVE  t = IF /\ answer[k][1].name = "audio"
                  /\ HasLine(answer[k], LAMBDA line : IsAttr(line, "rtcp-mux"))
                 THEN Kept(answer[k], LAMBDA line : ~IsRtcpCandidate(line))
                 ELSE answer[k]
<1> DEFINE a == answer[k]
<1>1. a \in MediaSections /\ a \in Seq(Lines) /\ Port(a[1]) # "0"
  BY DEF Passed, Rejected, MediaSections
<1>2. s = a
  BY <1>1 DEF Passed, Normalised, Eligible
<1>3. u = a
  BY <1>1, <1>2 DEF Passed, MidAdded, LacksMid
<1>4. t = Pruned(a)
  BY <1>3 DEF Passed
<1>5. MuxedSection(a) <=>
        /\ a[1].name = "audio"
        /\ HasLine(a, LAMBDA line : IsAttr(line, "rtcp-mux"))
  BY <1>1 DEF MuxedSection, HasLine
<1>6. Kept(a, LAMBDA line : ~IsRtcpCandidate(line)) = Only(a, NoRtcpLines)
  BY <1>1, KeptNoRtcp
<1>7. QED
  BY <1>1, <1>4, <1>5, <1>6, PrunedSection

\* Media that was accepted comes through normalizeAlexaRejectedVideoPayloads,
\* normalizeAlexaRejectedMediaMIDs and normalizeAlexaRTCPMuxCandidates as Pion
\* made it, except for the RTCP candidates of audio that multiplexes RTCP,
\* whatever was offered and answered around it.
THEOREM AcceptedMediaComesThrough == Spec => []AcceptedMediaUntouched
<1>1. SectionsInv => AcceptedMediaUntouched
  <2> SUFFICES ASSUME SectionsInv, stage = "done"
               PROVE  AcceptedMediaUntouched
    BY DEF AcceptedMediaUntouched
  <2>1. /\ BeforeSections(lines) = Preamble
        /\ Len(Sections(Front(lines))) = Len(answer)
        /\ DOMAIN answer = 1..Len(answer) /\ Negotiated
        /\ \A k \in 1..Len(answer) :
             Finished(k, Result(k)) /\ k \in 1..Len(offer)
    BY ResultFinished
  <2>2. ASSUME NEW k \in 1..Len(answer), ~Rejected(answer[k])
        PROVE  Result(k) =
                 IF /\ answer[k][1].name = "audio"
                    /\ HasLine(answer[k], LAMBDA line : IsAttr(line, "rtcp-mux"))
                   THEN Kept(answer[k], LAMBDA line : ~IsRtcpCandidate(line))
                   ELSE answer[k]
    <3>1. PICK s, u : Passed(k, s, u, Result(k))
      BY <2>1, FinishedPassed
    <3>2. QED
      BY <2>2, <3>1, AcceptedPasses
  <2>3. QED
    BY <2>1, <2>2 DEF AcceptedMediaUntouched
<1>2. QED
  BY <1>1, SectionsStaySeparate, PTL

\* A mid is none of the lines an echo is about.
LEMMA MidNoEcho ==
    ASSUME NEW section, NEW payload
    PROVE  /\ MidLine(section) \notin Mapping(payload)
           /\ MidLine(section) \notin OtherLines
           /\ MidLine(section) \notin Directions
<1>1. MidLine(section).kind = "a" /\ MidLine(section).name = "mid"
  BY MidLineIsLine
<1>2. MidLine(section) \notin Mapping(payload)
  BY <1>1 DEF Mapping, MapsPayload, IsAttr
<1>3. MidLine(section) \notin OtherLines
  BY <1>1 DEF OtherLines, Added
<1>4. MidLine(section) \notin Directions
  <2>1. \A d : Attr(d, <<>>).name = d
    BY DEF Attr, Line
  <2> SUFFICES ASSUME MidLine(section) \in Directions PROVE FALSE
    OBVIOUS
  <2>2. PICK d \in {"sendrecv", "sendonly", "recvonly"} :
          MidLine(section) = Attr(d, <<>>)
    BY DEF Directions
  <2>3. d = "mid"
    BY <1>1, <2>1, <2>2
  <2>4. QED
    BY <2>2, <2>3
<1>5. QED
  BY <1>2, <1>3, <1>4

\* The mid pass leaves what is echoed.
LEMMA MidAddedEchoes ==
    ASSUME NEW a, NEW s \in MediaSections, NEW u, NEW section \in OfferSections,
           NEW offered, Echoes(a, s, offered), MidAdded(s, u, section)
    PROVE  /\ u[1] = s[1] /\ Inactive \in Range(u)
           /\ Range(u) \intersect Directions = {}
           /\ Only(u, Mapping(offered.payload)) = Only(s, Mapping(offered.payload))
           /\ Only(u, OtherLines) = Only(s, OtherLines)
<1> DEFINE e == MidLine(section)
<1>1. Inactive \in Range(s) /\ Range(s) \intersect Directions = {}
  BY DEF Echoes
<1>2. CASE u = s
  BY <1>1, <1>2
<1>3. CASE Grown(s, u, e)
  <2>1. e \in Lines
    BY NewLinesTyped
  <2>2. /\ e \notin Mapping(offered.payload) /\ e \notin OtherLines
        /\ e \notin Directions
    BY MidNoEcho
  <2> HIDE DEF e
  <2>3. u[1] = s[1] /\ Range(u) = Range(s) \union {e}
    BY <1>3, <2>1, GrownLines
  <2>4. Only(u, Mapping(offered.payload)) = Only(s, Mapping(offered.payload))
    BY <1>3, <2>1, <2>2, GrownOnly
  <2>5. Only(u, OtherLines) = Only(s, OtherLines)
    BY <1>3, <2>1, <2>2, GrownOnly
  <2>6. QED
    BY <1>1, <2>2, <2>3, <2>4, <2>5
<1>4. QED
  BY <1>2, <1>3 DEF MidAdded

LEMMA EchoedPort ==
    ASSUME NEW payload
    PROVE  /\ Port(Media("video", "0", <<payload>>)) = "0"
           /\ Formats(Media("video", "0", <<payload>>)) = <<payload>>
           /\ Media("video", "0", <<payload>>).name = "video"
           /\ <<payload>> # <<>>
<1> DEFINE line == Media("video", "0", <<payload>>)
           L == {"0", payload}
           b == <<payload>>
           fields == <<"0">> \o b
<1>1. line.fields = fields /\ line.name = "video"
  BY DEF Media, Line
<1>2. "0" \in L /\ b \in Seq(L) /\ b # <<>>
  OBVIOUS
<1> HIDE DEF b, L
<1>3. fields[1] = "0" /\ Tail(fields) = b
  BY <1>2, BehindOne
<1>4. QED
  BY <1>1, <1>2, <1>3 DEF Port, Formats, b

LEMMA EchoPasses ==
    ASSUME NEW k, NEW s, NEW u, NEW t, Passed(k, s, u, t),
           IsVideo(answer[k]), Eligible(answer[k][1], Echo(k).payload)
    PROVE  /\ t[1] = Media("video", "0", <<Echo(k).payload>>)
           /\ Inactive \in Range(t) /\ Range(t) \intersect Directions = {}
           /\ Only(t, Mapping(Echo(k).payload)) =
                IF Only(answer[k], Mapping(Echo(k).payload)) = <<>>
                   /\ Echo(k).rtpmap # Blank
                  THEN <<Echo(k).rtpmap>>
                  ELSE Only(answer[k], Mapping(Echo(k).payload))
           /\ Only(t, OtherLines) = Only(answer[k], OtherLines)
<1> DEFINE offered == Echo(k)
           a == answer[k]
<1>1. /\ s \in MediaSections /\ u \in MediaSections /\ offer[k] \in OfferSections
      /\ MidAdded(s, u, offer[k]) /\ t = Pruned(u)
  BY DEF Passed
<1>2. Echoes(a, s, offered)
  BY DEF Passed, Normalised
<1> HIDE DEF a, offered
<1>3. /\ u[1] = s[1] /\ Inactive \in Range(u)
      /\ Range(u) \intersect Directions = {}
      /\ Only(u, Mapping(offered.payload)) = Only(s, Mapping(offered.payload))
      /\ Only(u, OtherLines) = Only(s, OtherLines)
  BY <1>1, <1>2, MidAddedEchoes
<1>4. /\ s[1] = Media("video", "0", <<offered.payload>>)
      /\ Only(s, Mapping(offered.payload)) =
           IF Only(a, Mapping(offered.payload)) = <<>> /\ offered.rtpmap # Blank
             THEN <<offered.rtpmap>> ELSE Only(a, Mapping(offered.payload))
      /\ Only(s, OtherLines) = Only(a, OtherLines)
  BY <1>2 DEF Echoes
<1>5. Port(u[1]) = "0"
  BY <1>3, <1>4, EchoedPort
<1>6. t = u
  BY <1>1, <1>5, RejectedStays
<1>7. QED
  BY <1>3, <1>4, <1>6 DEF a, offered

\* Whatever was offered and answered, a rejected video section that Pion left
\* without a payload type echoes the one of the section offered in its place,
\* although normalizeAlexaRejectedVideoPayloads finds it by counting the video
\* sections of both texts; its direction is inactive, and the passes change no
\* other line of it.
THEOREM RejectedVideoEchoes == Spec => []RejectedVideoEchoesOffer
<1>1. SectionsInv => RejectedVideoEchoesOffer
  <2> SUFFICES ASSUME SectionsInv, stage = "done"
               PROVE  RejectedVideoEchoesOffer
    BY DEF RejectedVideoEchoesOffer
  <2>1. /\ DOMAIN answer = 1..Len(answer) /\ Negotiated
        /\ \A k \in 1..Len(answer) :
             Finished(k, Result(k)) /\ k \in 1..Len(offer)
    BY ResultFinished
  <2> SUFFICES
        ASSUME NEW k \in 1..Len(answer), IsVideo(answer[k]), Rejected(answer[k]),
               Formats(answer[k][1]) \in {<<>>, <<"0">>}, Echo(k).payload # ""
        PROVE  LET Described(section) ==
                     Kept(section, LAMBDA line : MapsPayload(line, Echo(k).payload))
                   Others(section) == Kept(section, LAMBDA line : ~Added(line))
               IN  /\ Result(k)[1] = Media("video", "0", <<Echo(k).payload>>)
                   /\ Inactive \in Range(Result(k))
                   /\ Range(Result(k)) \intersect Directions = {}
                   /\ Described(Result(k)) =
                        IF Described(answer[k]) = <<>> /\ Echo(k).rtpmap # Blank
                          THEN <<Echo(k).rtpmap>> ELSE Described(answer[k])
                   /\ Others(Result(k)) = Others(answer[k])
    BY <2>1, Zenon DEF RejectedVideoEchoesOffer
  <2>2. PICK s, u : Passed(k, s, u, Result(k))
    BY <2>1, FinishedPassed
  <2>3. Eligible(answer[k][1], Echo(k).payload)
    BY Zenon DEF Eligible, Rejected
  <2> DEFINE t == Result(k)
             a == answer[k]
             payload == Echo(k).payload
  <2>4. t \in Seq(Lines) /\ a \in Seq(Lines)
    BY <2>2 DEF Passed, MediaSections
  <2>5. /\ t[1] = Media("video", "0", <<payload>>)
        /\ Inactive \in Range(t) /\ Range(t) \intersect Directions = {}
        /\ Only(t, Mapping(payload)) =
             IF Only(a, Mapping(payload)) = <<>> /\ Echo(k).rtpmap # Blank
               THEN <<Echo(k).rtpmap>> ELSE Only(a, Mapping(payload))
        /\ Only(t, OtherLines) = Only(a, OtherLines)
    BY <2>2, <2>3, EchoPasses
  <2>6. /\ Kept(t, LAMBDA line : MapsPayload(line, payload)) =
             Only(t, Mapping(payload))
        /\ Kept(a, LAMBDA line : MapsPayload(line, payload)) =
             Only(a, Mapping(payload))
    BY <2>4, KeptMapping
  <2>7. /\ Kept(t, LAMBDA line : ~Added(line)) = Only(t, OtherLines)
        /\ Kept(a, LAMBDA line : ~Added(line)) = Only(a, OtherLines)
    BY <2>4, KeptOthers
  <2>8. QED
    BY <2>5, <2>6, <2>7, Zenon
<1>2. QED
  BY <1>1, SectionsStaySeparate, PTL

\* The mids of a section.
LEMMA MidsFound ==
    ASSUME NEW s \in MediaSections
    PROVE  HasLine(s, IsMid) <=> Only(s, MidLines) # <<>>
<1>1. /\ s \in Seq(Lines) /\ Len(s) \in Nat /\ 1 \in 1..Len(s) /\ IsMedia(s[1])
      /\ \A i \in 2..Len(s) : i \in 1..Len(s)
  BY SectionElements
<1>2. Only(s, MidLines) = <<>> <=> \A j \in 1..Len(s) : s[j] \notin MidLines
  BY <1>1, OnlyEmpty
<1>3. s[1] \notin MidLines
  BY <1>1 DEF MidLines, IsMid, IsAttr, IsMedia
<1>4. \A j \in 1..Len(s) : j = 1 \/ j \in 2..Len(s)
  BY <1>1
<1>5. \A j \in 1..Len(s) : s[j] \in MidLines <=> IsMid(s[j])
  BY <1>1 DEF MidLines
<1>6. QED
  BY <1>1, <1>2, <1>3, <1>4, <1>5 DEF HasLine

LEMMA MidEligible ==
    ASSUME NEW section \in OfferSections
    PROVE  MidLine(section) \in Lines /\ MidLine(section) \in MidLines
BY NewLinesTyped, MidLineIsLine DEF MidLines

LEMMA MidGrown ==
    ASSUME NEW s, NEW u, NEW section \in OfferSections,
           Grown(s, u, MidLine(section)), Only(s, MidLines) = <<>>
    PROVE  Only(u, MidLines) = <<MidLine(section)>>
<1> DEFINE e == MidLine(section)
<1>1. e \in Lines /\ e \in MidLines /\ Grown(s, u, e)
  BY MidEligible
<1> HIDE DEF e
<1>2. e \in MidLines /\ Only(s, MidLines) = <<>> => Only(u, MidLines) = <<e>>
  BY <1>1, GrownOnly
<1>3. QED
  BY <1>1, <1>2 DEF e

LEMMA MidPasses ==
    ASSUME NEW k, NEW s, NEW u, NEW t, Passed(k, s, u, t), Rejected(answer[k]),
           \/ Formats(answer[k][1]) # <<>>
           \/ IsVideo(answer[k]) /\ Echo(k).payload # "",
           OfferedMid(offer[k]).media # "", OfferedMid(offer[k]).mid # ""
    PROVE  Only(t, MidLines) =
             IF Only(answer[k], MidLines) # <<>> THEN Only(answer[k], MidLines)
             ELSE <<MidLine(offer[k])>>
<1> DEFINE a == answer[k]
           offered == OfferedMid(offer[k])
           e == MidLine(offer[k])
<1>1. /\ s \in MediaSections /\ u \in MediaSections /\ a \in MediaSections
      /\ offer[k] \in OfferSections /\ a[1].name = offer[k][1].name
      /\ Normalised(k, s) /\ MidAdded(s, u, offer[k]) /\ t = Pruned(u)
  BY Zenon DEF Passed
<1>2. offered.media = offer[k][1].name
  <2>1. offered.media = IF Formats(offer[k][1]) = <<>> THEN "" ELSE offer[k][1].name
    BY DEF OfferedMid
  <2>2. QED
    BY <2>1, Zenon
<1>3. /\ Only(s, MidLines) = Only(a, MidLines) /\ Port(s[1]) = "0"
      /\ Formats(s[1]) # <<>> /\ s[1].name = a[1].name
  <2>1. CASE IsVideo(a) /\ Eligible(a[1], Echo(k).payload)
    <3>1. Echoes(a, s, Echo(k))
      BY <1>1, <2>1, Zenon DEF Normalised
    <3>2. /\ s[1] = Media("video", "0", <<Echo(k).payload>>)
          /\ Only(s, MidLines) = Only(a, MidLines)
      BY <3>1, Zenon DEF Echoes
    <3>3. /\ Port(s[1]) = "0" /\ s[1].name = "video"
          /\ Formats(s[1]) = <<Echo(k).payload>> /\ <<Echo(k).payload>> # <<>>
      BY <3>2, EchoedPort, Zenon
    <3>4. a[1].name = "video"
      BY <2>1, Zenon DEF IsVideo
    <3>5. QED
      BY <3>2, <3>3, <3>4, Zenon
  <2>2. CASE ~(IsVideo(a) /\ Eligible(a[1], Echo(k).payload))
    <3>1. s = a
      BY <1>1, <2>2, Zenon DEF Normalised
    <3>2. Port(a[1]) = "0"
      BY Zenon DEF Rejected
    <3>3. Formats(a[1]) # <<>>
      BY <2>2, <3>2, Zenon DEF Eligible
    <3>4. QED
      BY <3>1, <3>2, <3>3, Zenon
  <2>3. QED
    BY <2>1, <2>2, Zenon
<1>4. LacksMid(s, offered) <=> ~HasLine(s, IsMid)
  BY <1>1, <1>2, <1>3, Zenon DEF LacksMid
<1>5. HasLine(s, IsMid) <=> Only(s, MidLines) # <<>>
  BY <1>1, MidsFound, Zenon
<1>6. e \in Lines /\ e \in MidLines
  BY <1>1, MidEligible, Zenon
<1>7. CASE HasLine(s, IsMid)
  <2>1. u = s
    BY <1>1, <1>4, <1>7, Zenon DEF MidAdded
  <2>2. t = s
    BY <1>1, <1>3, <2>1, RejectedStays, Zenon
  <2>3. QED
    BY <1>3, <1>5, <1>7, <2>2, Zenon
<1>8. CASE ~HasLine(s, IsMid)
  <2>1. Grown(s, u, e)
    BY <1>1, <1>4, <1>8, Zenon DEF MidAdded
  <2>2. u[1] = s[1]
    BY <1>6, <2>1, GrownLines, Zenon
  <2>3. Only(u, MidLines) = <<e>>
    <3>1. Only(s, MidLines) = <<>>
      BY <1>5, <1>8, Zenon
    <3>2. QED
      BY <1>1, <2>1, <3>1, MidGrown, Zenon
  <2>4. t = u
    BY <1>1, <1>3, <2>2, RejectedStays, Zenon
  <2>5. QED
    BY <1>3, <1>5, <1>8, <2>3, <2>4, Zenon
<1>9. QED
  BY <1>7, <1>8, Zenon

\* Whatever was offered and answered, a rejected section whose counterpart was
\* offered with a mid is returned with one: its own, or the offered one that
\* normalizeAlexaRejectedMediaMIDs adds, also where the m= line was complete
\* only after the video pass.
THEOREM RejectedMediaIdentified == Spec => []RejectedMediaHasMid
<1>1. SectionsInv => RejectedMediaHasMid
  <2> SUFFICES ASSUME SectionsInv, stage = "done"
               PROVE  RejectedMediaHasMid
    BY DEF RejectedMediaHasMid
  <2>1. /\ DOMAIN answer = 1..Len(answer) /\ Negotiated
        /\ \A k \in 1..Len(answer) :
             Finished(k, Result(k)) /\ k \in 1..Len(offer)
    BY ResultFinished
  <2> SUFFICES
        ASSUME NEW k \in 1..Len(answer), Rejected(answer[k]),
               \/ Formats(answer[k][1]) # <<>>
               \/ IsVideo(answer[k]) /\ Echo(k).payload # "",
               OfferedMid(offer[k]).media # "", OfferedMid(offer[k]).mid # ""
        PROVE  Kept(Result(k), IsMid) =
                 IF Kept(answer[k], IsMid) # <<>> THEN Kept(answer[k], IsMid)
                 ELSE <<Attr("mid", <<OfferedMid(offer[k]).mid>>)>>
    BY <2>1, Zenon DEF RejectedMediaHasMid
  <2>2. PICK s, u : Passed(k, s, u, Result(k))
    BY <2>1, FinishedPassed, Zenon
  <2>3. Only(Result(k), MidLines) =
          IF Only(answer[k], MidLines) # <<>> THEN Only(answer[k], MidLines)
          ELSE <<MidLine(offer[k])>>
    BY <2>2, MidPasses, Zenon
  <2>4. Result(k) \in Seq(Lines) /\ answer[k] \in Seq(Lines)
    BY <2>2, Zenon DEF Passed, MediaSections
  <2>5. /\ Kept(Result(k), IsMid) = Only(Result(k), MidLines)
        /\ Kept(answer[k], IsMid) = Only(answer[k], MidLines)
    BY <2>4, KeptMids, Zenon
  <2>6. QED
    BY <2>3, <2>5, Zenon DEF MidLine
<1>2. QED
  BY <1>1, SectionsStaySeparate, PTL
=============================================================================
