------------------------ MODULE MCAnswerNormalization ------------------------
(* Offers and answers of up to three media sections for TLC. *)
EXTENDS AnswerNormalization

Mid(m) == Attr("mid", <<m>>)
Candidate(component, form) == Attr("candidate", <<component, form>>)
Connection == Line("c", "", <<>>)

MCPreamble == <<Line("v", "", <<>>), Attr("group", <<"BUNDLE", "0">>)>>

\* Opus audio, audio without Opus, video with H264 offered second, video
\* without mid and rtpmap, video without formats.
MCOfferSections ==
    {<<Media("audio", "9", <<"111">>), Mid("0"),
       Attr("rtpmap", <<"111", "opus/48000/2">>)>>,
     <<Media("audio", "9", <<"0">>), Mid("a"),
       Attr("rtpmap", <<"0", "PCMU/8000">>)>>,
     <<Media("video", "9", <<"96", "102">>), Connection,
       Attr("rtpmap", <<"96", "VP8/90000">>),
       Attr("rtpmap", <<"102", "H264/90000">>), Mid("1")>>,
     <<Media("video", "9", <<"98">>), Attr("rtpmap", <<"98">>)>>,
     <<Media("video", "9", <<>>), Mid("2")>>}

\* Accepted audio with and without RTCP multiplexing, rejected audio with and
\* without a mid; rejected video with no format and no body, with format 0,
\* with attributes of its own, and with a format that is kept.
MCAnswerSections ==
    {<<Media("audio", "9", <<"111">>), Connection, Candidate("1", "host"),
       Candidate("2", "host"), Candidate("2", "garbled"),
       Attr("rtcp-mux", <<>>), Mid("0"), Attr("sendrecv", <<>>)>>,
     <<Media("audio", "9", <<"111">>), Candidate("2", "host"), Mid("0"),
       Attr("sendrecv", <<>>)>>,
     <<Media("audio", "0", <<"0">>), Connection>>,
     <<Media("audio", "0", <<"0">>), Connection, Mid("a"),
       Attr("inactive", <<>>)>>,
     <<Media("video", "0", <<>>)>>,
     <<Media("video", "0", <<"0">>), Connection>>,
     <<Media("video", "0", <<"0">>), Connection, Attr("sendonly", <<>>),
       Attr("rtpmap", <<"102", "H264/90000">>), Mid("1")>>,
     <<Media("video", "0", <<"96">>), Attr("recvonly", <<>>)>>}

MCValidCandidates == {Candidate("1", "host"), Candidate("2", "host")}
=============================================================================
