------------------------- MODULE AnswerNormalization -------------------------
(***************************************************************************)
(* From an SDP offer to the answer Alexa accepts (internal/rtc/server.go): *)
(* validateOffer, the answer Pion makes (external), and the three          *)
(* normalisations NewSession applies to it, one after the other, each on   *)
(* the text the previous one has left.                                     *)
(*                                                                         *)
(* A description is a sequence of lines, a line a record of its kind, its  *)
(* name and its fields:                                                    *)
(*   m=video 0 UDP/TLS/RTP/SAVPF 96   is  Media("video", "0", <<"96">>)    *)
(*   a=rtpmap:102 H264/90000          is  Attr("rtpmap", <<"102", ...>>)   *)
(*   a=inactive                       is  Attr("inactive", <<>>)           *)
(* Splitting at the line separator leaves an empty string after the last   *)
(* line: Blank.  An m= line has its three first fields; the ones after     *)
(* them are its formats.                                                   *)
(***************************************************************************)
EXTENDS Integers, Sequences, FiniteSets, SequencesExt, FiniteSetsExt

CONSTANTS
    Preamble,         \* the session-level lines of an answer
    OfferSections,    \* media sections a client may offer
    AnswerSections,   \* media sections Pion may answer with
    MaxSections,      \* bound on the number of media sections
    OpusCodecs,       \* spellings of opus/48000
    ValidCandidates   \* candidate attributes ice.UnmarshalCandidate parses

VARIABLES
    offer,        \* the media sections of the offer
    answer,       \* the media sections of Pion's answer
    lines,        \* the answer being normalised
    lineIndex,    \* the loop of normalizeAlexaRejectedVideoPayloads ...
    videoIndex,   \* ... and the number of video sections it has met
    stage         \* validate, negotiate, video, mid, mux, done or refused

vars == <<offer, answer, lines, lineIndex, videoIndex, stage>>

Line(kind, name, fields) == [kind |-> kind, name |-> name, fields |-> fields]
Media(media, port, formats) == Line("m", media, <<port>> \o formats)
Attr(key, fields) == Line("a", key, fields)
Blank == Line("", "", <<>>)
Inactive == Attr("inactive", <<>>)

IsMedia(line) == line.kind = "m"
Port(line) == line.fields[1]
Formats(line) == Tail(line.fields)
IsAttr(line, key) == line.kind = "a" /\ line.name = key

\* A media section: an m= line, and lines that open no other.
IsSection(section) ==
    /\ section \in Seq(Range(section)) /\ section # <<>>
    /\ \A i \in DOMAIN section :
         section[i] # Blank /\ (IsMedia(section[i]) <=> i = 1)

ASSUME PreambleAssumption ==
    /\ Preamble \in Seq(Range(Preamble))
    /\ \A i \in DOMAIN Preamble :
         Preamble[i] # Blank /\ ~IsMedia(Preamble[i])

ASSUME SectionsAssumption ==
    \A section \in OfferSections \union AnswerSections : IsSection(section)

ASSUME MaxSectionsAssumption == MaxSections \in Nat

\* The end of the section that starts at line i: the next m= line.
SectionEnd(ls, i) ==
    Min({j \in (i + 1)..Len(ls) : IsMedia(ls[j])} \union {Len(ls) + 1})

SectionStarts(ls) == {i \in DOMAIN ls : IsMedia(ls[i])}

\* A line more: an m= line opens the next section, the lines before the first
\* belong to none.
WithLine(sections, line) ==
    IF IsMedia(line) THEN Append(sections, <<line>>)
    ELSE IF sections = <<>> THEN sections
    ELSE Append(Front(sections), Append(Last(sections), line))

\* The sections of a description, in order.
Sections(ls) ==
    LET upTo[n \in 0..Len(ls)] ==
          IF n = 0 THEN <<>> ELSE WithLine(upTo[n - 1], ls[n])
    IN  upTo[Len(ls)]

\* The first element of a section that satisfies P, or the other value.
FirstLine(section, P(_), none) ==
    LET found == {i \in 2..Len(section) : P(section[i])}
    IN  IF found = {} THEN none ELSE section[Min(found)]

HasLine(section, P(_)) == \E i \in 2..Len(section) : P(section[i])

-----------------------------------------------------------------------------
(* validateOffer *)

\* rtpmap attributes of two fields, for a payload type that is offered.
OffersOpus(section) ==
    /\ section[1].name = "audio" /\ Port(section[1]) # "0"
    /\ HasLine(section, LAMBDA line :
         /\ IsAttr(line, "rtpmap") /\ Len(line.fields) = 2
         /\ line.fields[1] \in Range(Formats(section[1]))
         /\ line.fields[2] \in OpusCodecs)

ValidateOffer ==
    /\ stage = "validate"
    /\ stage' = IF \E k \in DOMAIN offer : OffersOpus(offer[k])
                  THEN "negotiate" ELSE "refused"
    /\ UNCHANGED <<offer, answer, lines, lineIndex, videoIndex>>

\* SetRemoteDescription to LocalDescription: Pion answers every section of
\* the offer, in order, and rejects what is not Opus audio.
PionAnswers ==
    /\ stage = "negotiate"
    /\ \E a \in [DOMAIN offer -> AnswerSections] :
         /\ \A k \in DOMAIN offer : a[k][1].name = offer[k][1].name
         /\ answer' = a
         /\ lines' = Preamble \o FlattenSeq(a) \o <<Blank>>
    /\ stage' = "video"
    /\ UNCHANGED <<offer, lineIndex, videoIndex>>

-----------------------------------------------------------------------------
(* normalizeAlexaRejectedVideoPayloads *)

\* alexaRTPMapPayload: two fields at least.
MapsPayload(line, payload) ==
    IsAttr(line, "rtpmap") /\ Len(line.fields) >= 2 /\ line.fields[1] = payload

NoPayload == [payload |-> "", rtpmap |-> Blank]

\* The payload type the answer shall echo, 102 before all others, and the
\* rtpmap line that describes it.
OfferedPayload(section) ==
    LET formats == Formats(section[1])
        selected == IF "102" \in Range(formats) THEN "102" ELSE Head(formats)
    IN  IF formats = <<>> THEN NoPayload
        ELSE [payload |-> selected,
              rtpmap  |-> FirstLine(section,
                            LAMBDA line : MapsPayload(line, selected), Blank)]

IsVideo(section) == section[1].name = "video"

\* alexaOfferedVideoPayloads: one of each video section of the offer.
OfferedVideoPayloads ==
    FlattenSeq([k \in DOMAIN offer |->
      IF IsVideo(offer[k]) THEN <<OfferedPayload(offer[k])>> ELSE <<>>])

\* Mutant: a line is put after the empty string that ends the text.
InsertPlaceAtEnd(ls, at) == at

\* Where a line for the end of a section goes: before the empty string that
\* ends the text.
InsertPlace(ls, at) ==
    IF at = Len(ls) + 1 /\ ls[Len(ls)] = Blank THEN at - 1 ELSE at

\* Mutant: only an m= line of four fields is taken for a rejected one.
EligibleFour(line, payload) ==
    payload # "" /\ Port(line) = "0" /\ Formats(line) = <<"0">>

\* normalizeAlexaRejectedVideoMLine: the m= line is rejected and has no
\* format, or only 0.
Eligible(line, payload) ==
    /\ payload # ""
    /\ Port(line) = "0"
    /\ Formats(line) \in {<<>>, <<"0">>}

\* The offered rtpmap line goes before the first attribute of the section,
\* unless the section maps the payload type already.
WithRtpmap(ls, i, offered) ==
    LET section == SubSeq(ls, i, SectionEnd(ls, i) - 1)
        attrs == {j \in (i + 1)..(SectionEnd(ls, i) - 1) : ls[j].kind = "a"}
        insertAt == Min(attrs \union {SectionEnd(ls, i)})
    IN  IF \/ offered.rtpmap = Blank
           \/ HasLine(section,
                LAMBDA line : MapsPayload(line, offered.payload))
          THEN ls
          ELSE InsertAt(ls, InsertPlace(ls, insertAt), offered.rtpmap)

Directions == {Attr(d, <<>>) : d \in {"sendrecv", "sendonly", "recvonly"}}

InSection(ls, i) == (i + 1)..(SectionEnd(ls, i) - 1)

HasDirection(ls, i) ==
    \E j \in InSection(ls, i) : ls[j] \in Directions \union {Inactive}

\* Every direction becomes a=inactive.
DirectionsOff(ls, i) ==
    [j \in DOMAIN ls |->
       IF j \in InSection(ls, i) /\ ls[j] \in Directions
         THEN Inactive ELSE ls[j]]

\* The index of the next m=video line, or one past the last line.
NextVideo ==
    Min({j \in lineIndex..Len(lines) :
           IsMedia(lines[j]) /\ lines[j].name = "video"}
          \union {Len(lines) + 1})

\* Mutant: the loop goes on one line too far after it inserted a=inactive.
AfterInsertLate(i) == i + 3

\* lineIndex++ for the inserted a=inactive, and the one of the loop.
AfterInsert(i) == i + 2

\* The lines after the section at i has been normalised, and where the loop
\* goes on.
VideoSection(ls, i, offered) ==
    LET echoed == ReplaceAt(ls, i, Media("video", "0", <<offered.payload>>))
        mapped == WithRtpmap(echoed, i, offered)
        atEnd == InsertPlace(mapped, SectionEnd(mapped, i))
    IN  IF ~Eligible(ls[i], offered.payload) THEN <<ls, i + 1>>
        ELSE IF HasDirection(mapped, i)
          THEN <<DirectionsOff(mapped, i), i + 1>>
          ELSE <<InsertAt(mapped, atEnd, Inactive), AfterInsert(i)>>

\* The k-th offered payload; a video section too many has none.
Offered(k) ==
    LET payloads == OfferedVideoPayloads
    IN  IF k \in DOMAIN payloads THEN payloads[k] ELSE NoPayload

\* One iteration at an m=video line (the others do nothing).
NormalizeVideoSection ==
    /\ stage = "video" /\ OfferedVideoPayloads # <<>>
    /\ NextVideo <= Len(lines)
    /\ LET next == VideoSection(lines, NextVideo, Offered(videoIndex + 1))
       IN  lines' = next[1] /\ lineIndex' = next[2]
    /\ videoIndex' = videoIndex + 1
    /\ UNCHANGED <<offer, answer, stage>>

\* No video was offered, or the loop has reached the end.
VideoDone ==
    /\ stage = "video"
    /\ OfferedVideoPayloads = <<>> \/ NextVideo > Len(lines)
    /\ stage' = "mid"
    /\ UNCHANGED <<offer, answer, lines, lineIndex, videoIndex>>

-----------------------------------------------------------------------------
(* normalizeAlexaRejectedMediaMIDs *)

IsMid(line) == IsAttr(line, "mid")

\* alexaOfferMediaSections: the media type, empty when the m= line has no
\* format, and the first a=mid.
OfferedMid(section) ==
    [media |-> IF Formats(section[1]) = <<>> THEN "" ELSE section[1].name,
     mid   |-> FirstLine(section, IsMid, Attr("mid", <<"">>)).fields[1]]

\* Mutant: a section that has a mid is given another one.
LacksMidAlways(section, offered) ==
    /\ Formats(section[1]) # <<>> /\ Port(section[1]) = "0"
    /\ section[1].name = offered.media /\ offered.mid # ""

\* A rejected section without a mid whose counterpart was offered with one.
LacksMid(section, offered) ==
    /\ Formats(section[1]) # <<>> /\ Port(section[1]) = "0"
    /\ section[1].name = offered.media /\ offered.mid # ""
    /\ ~HasLine(section, IsMid)

\* The mid goes before the first attribute, or at the end of the section,
\* before the empty string that ends the text.
WithMid(section, offered) ==
    LET attrs == {j \in 2..Len(section) : section[j].kind = "a"}
        last == IF Len(section) > 1 /\ section[Len(section)] = Blank
                  THEN Len(section) ELSE Len(section) + 1
    IN  IF LacksMid(section, offered)
          THEN InsertAt(section, IF attrs = {} THEN last ELSE Min(attrs),
                        Attr("mid", <<offered.mid>>))
          ELSE section

BeforeSections(ls) == SubSeq(ls, 1, Min(SectionStarts(ls)) - 1)

\* A section the offer does not have stays as it is.
WithMids(sections) ==
    [k \in DOMAIN sections |->
       IF k \in DOMAIN offer THEN WithMid(sections[k], OfferedMid(offer[k]))
                             ELSE sections[k]]

NormalizeRejectedMediaMIDs ==
    /\ stage = "mid"
    /\ lines' = BeforeSections(lines) \o FlattenSeq(WithMids(Sections(lines)))
    /\ stage' = "mux"
    /\ UNCHANGED <<offer, answer, lineIndex, videoIndex>>

-----------------------------------------------------------------------------
(* normalizeAlexaRTCPMuxCandidates *)

\* Mutant: the search for a=rtcp-mux does not stop at the next m= line.
MuxedAnywhere(ls, i) ==
    /\ ls[i].name = "audio" /\ Port(ls[i]) # "0"
    /\ \E j \in DOMAIN ls : IsAttr(ls[j], "rtcp-mux")

\* An accepted audio section that multiplexes RTCP.
Muxed(ls, i) ==
    /\ ls[i].name = "audio" /\ Port(ls[i]) # "0"
    /\ \E j \in InSection(ls, i) : IsAttr(ls[j], "rtcp-mux")

\* Candidates of component 2 that the ICE library can parse.
IsRtcpCandidate(line) ==
    IsAttr(line, "candidate") /\ line.fields[1] = "2"
                              /\ line \in ValidCandidates

RemovedLines(ls) ==
    {j \in DOMAIN ls : /\ IsRtcpCandidate(ls[j])
                       /\ \E i \in SectionStarts(ls) :
                            Muxed(ls, i) /\ j \in InSection(ls, i)}

NormalizeRTCPMuxCandidates ==
    /\ stage = "mux"
    /\ lines' = LET removed == RemovedLines(lines)
                IN  FlattenSeq([j \in DOMAIN lines |->
                      IF j \in removed THEN <<>> ELSE <<lines[j]>>])
    /\ stage' = "done"
    /\ UNCHANGED <<offer, answer, lineIndex, videoIndex>>

-----------------------------------------------------------------------------
Init ==
    /\ offer \in BoundedSeq(OfferSections, MaxSections) \ {<<>>}
    /\ answer = <<>> /\ lines = <<>>
    /\ lineIndex = 1 /\ videoIndex = 0
    /\ stage = "validate"

\* NewSession returns the error, or the normalised answer.
Returned == stage \in {"refused", "done"} /\ UNCHANGED vars

Next ==
    \/ ValidateOffer \/ PionAnswers
    \/ NormalizeVideoSection \/ VideoDone
    \/ NormalizeRejectedMediaMIDs \/ NormalizeRTCPMuxCandidates
    \/ Returned

Spec == Init /\ [][Next]_vars

-----------------------------------------------------------------------------
(* Properties *)

Rejected(section) == Port(section[1]) = "0"

\* What a video section shall echo: the payload of the section offered in
\* its place, whatever number among the video sections it has.
Echo(k) == OfferedPayload(offer[k])

\* The types, and the framing of the text: while it is normalised an answer
\* ends with its one empty string, so that no line is put after the end.
TypeOK ==
    /\ stage \in {"validate", "negotiate", "video", "mid", "mux", "done",
                  "refused"}
    /\ videoIndex \in 0..MaxSections /\ lineIndex \in Nat
    /\ stage \in {"video", "mid", "mux", "done"} =>
         {i \in DOMAIN lines : lines[i] = Blank} = {Len(lines)}

\* The lines of a section that P holds of, in their order.
Kept(section, P(_)) ==
    FlattenSeq([j \in DOMAIN section |->
      IF P(section[j]) THEN <<section[j]>> ELSE <<>>])

\* The k-th section of what is returned.
Result(k) == Sections(Front(lines))[k]

\* Media that was accepted, and the session level, come through the three
\* passes as Pion made them, except for the RTCP candidates of audio that
\* multiplexes RTCP.  The lines put into rejected sections before and between
\* them shift every index the passes use.
AcceptedMediaUntouched ==
    stage = "done" =>
      /\ BeforeSections(lines) = Preamble
      /\ Len(Sections(Front(lines))) = Len(answer)
      /\ \A k \in DOMAIN answer : ~Rejected(answer[k]) =>
           Result(k) =
             IF /\ answer[k][1].name = "audio"
                /\ HasLine(answer[k], LAMBDA line : IsAttr(line, "rtcp-mux"))
               THEN Kept(answer[k], LAMBDA line : ~IsRtcpCandidate(line))
               ELSE answer[k]

\* What normalizeAlexaRejectedVideoPayloads and the mid pass may add or change.
Added(line) ==
    \/ line.kind = "m" \/ line \in Directions \/ line = Inactive
    \/ line.name \in {"rtpmap", "mid"}

\* A rejected video section that Pion left without a payload type echoes the
\* one chosen from the video section offered in its place, is described by
\* the offered rtpmap unless it was described before, and then not twice, and
\* has no direction but inactive; every other line of it stays, in its order.
RejectedVideoEchoesOffer ==
    stage = "done" =>
      \A k \in DOMAIN answer :
        /\ IsVideo(answer[k]) /\ Rejected(answer[k])
        /\ Formats(answer[k][1]) \in {<<>>, <<"0">>} /\ Echo(k).payload # ""
        => LET Described(section) ==
                 Kept(section, LAMBDA line : MapsPayload(line, Echo(k).payload))
               Others(section) == Kept(section, LAMBDA line : ~Added(line))
           IN  /\ Result(k)[1] = Media("video", "0", <<Echo(k).payload>>)
               /\ Inactive \in Range(Result(k))
               /\ Range(Result(k)) \intersect Directions = {}
               /\ Described(Result(k)) =
                    IF Described(answer[k]) = <<>> /\ Echo(k).rtpmap # Blank
                      THEN <<Echo(k).rtpmap>> ELSE Described(answer[k])
               /\ Others(Result(k)) = Others(answer[k])

\* Every rejected section of a media type that was offered with formats and a
\* mid carries a mid: what it had of its own, or the offered one, once.  An m=
\* line without formats is no valid one to the mid pass: an m=video line gets
\* its mid all the same, because the video pass has run before.
RejectedMediaHasMid ==
    stage = "done" =>
      \A k \in DOMAIN answer :
        /\ Rejected(answer[k])
        /\ \/ Formats(answer[k][1]) # <<>>
           \/ IsVideo(answer[k]) /\ Echo(k).payload # ""
        /\ OfferedMid(offer[k]).media # "" /\ OfferedMid(offer[k]).mid # ""
        => Kept(Result(k), IsMid) =
             IF Kept(answer[k], IsMid) # <<>> THEN Kept(answer[k], IsMid)
             ELSE <<Attr("mid", <<OfferedMid(offer[k]).mid>>)>>

\* The m=video lines the loop has still to meet.
VideosLeft ==
    {i \in DOMAIN lines :
       i >= lineIndex /\ IsMedia(lines[i]) /\ lines[i].name = "video"}

\* The loop ends, although it makes the lines it runs over more, and meets
\* every video section once: each iteration leaves one less to come.
VideoLoopAdvances ==
    [][stage = "video" /\ stage' = "video"
         => Cardinality(VideosLeft') = Cardinality(VideosLeft) - 1]_vars
=============================================================================
