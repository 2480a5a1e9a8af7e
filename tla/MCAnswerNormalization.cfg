\* Offers of up to three media sections.
CONSTANTS
    Preamble <- MCPreamble
    OfferSections <- MCOfferSections
    AnswerSections <- MCAnswerSections
    ValidCandidates <- MCValidCandidates
    OpusCodecs = {"opus/48000", "opus/48000/2"}
    MaxSections = 3
SPECIFICATION Spec
INVARIANTS
    TypeOK
    AcceptedMediaUntouched
    RejectedVideoEchoesOffer
    RejectedMediaHasMid
PROPERTY VideoLoopAdvances
