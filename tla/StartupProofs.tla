---------------------------- MODULE StartupProofs ----------------------------
(***************************************************************************)
(* Proofs about Startup.  For every environment: a gateway that starts has *)
(* a valid configuration, the one that it was given, the write probe       *)
(* leaves no file, and a recording has a safe name.                        *)
(*                                                                         *)
(* That the eighteen prefixes leave exactly the public intervals is a fact *)
(* about all 2^32 addresses, of which a run tries a few.                   *)
(***************************************************************************)
EXTENDS Startup, SequenceFacts, FunctionTheorems, FiniteSetTheorems, TLAPS

-----------------------------------------------------------------------------
(* Addresses *)

Octets == [1..4 -> 0..255]

\* AtMost without its quantifiers: the first octet that differs decides.
InOrder4(a, b) ==
    \/ a[1] < b[1]
    \/ a[1] = b[1] /\ a[2] < b[2]
    \/ a[1] = b[1] /\ a[2] = b[2] /\ a[3] < b[3]
    \/ a[1] = b[1] /\ a[2] = b[2] /\ a[3] = b[3] /\ a[4] <= b[4]

\* An address is before another, or is it, when the first octet in which
\* they differ is less.
LEMMA AtMostByOctet ==
    ASSUME NEW a \in Octets, NEW b \in Octets, InOrder4(a, b)
    PROVE  AtMost(a, b)
<1>1. CASE a[1] < b[1]
  <2>1. 1 \in 1..4 /\ \A j \in 1..(1 - 1) : a[j] = b[j]
    BY SMT
  <2>2. QED
    BY <1>1, <2>1 DEF AtMost
<1>2. CASE a[1] = b[1] /\ a[2] < b[2]
  <2>1. 2 \in 1..4 /\ \A j \in 1..(2 - 1) : a[j] = b[j]
    BY <1>2, SMT
  <2>2. QED
    BY <1>2, <2>1 DEF AtMost
<1>3. CASE a[1] = b[1] /\ a[2] = b[2] /\ a[3] < b[3]
  <2>1. 3 \in 1..4 /\ \A j \in 1..(3 - 1) : a[j] = b[j]
    BY <1>3, SMT
  <2>2. QED
    BY <1>3, <2>1 DEF AtMost
<1>4. CASE a[1] = b[1] /\ a[2] = b[2] /\ a[3] = b[3] /\ a[4] <= b[4]
  <2>1. CASE a[4] < b[4]
    <3>1. 4 \in 1..4 /\ \A j \in 1..(4 - 1) : a[j] = b[j]
      BY <1>4, SMT
    <3>2. QED
      BY <2>1, <3>1 DEF AtMost
  <2>2. CASE a[4] = b[4]
    <3>1. \A j \in 1..4 : a[j] = b[j]
      BY <1>4, <2>2, SMT
    <3>2. a = b
      BY <3>1 DEF Octets
    <3>3. QED
      BY <3>2 DEF AtMost
  <2>3. a[4] \in Int /\ b[4] \in Int
    BY DEF Octets
  <2>4. QED
    BY <1>4, <2>1, <2>2, <2>3
<1>5. QED
  BY <1>1, <1>2, <1>3, <1>4 DEF InOrder4

\* And it is less in the first octet in which they differ.
LEMMA OctetsInOrder ==
    ASSUME NEW a \in Octets, NEW b \in Octets, AtMost(a, b)
    PROVE  InOrder4(a, b)
<1>1. a[4] \in Int /\ b[4] \in Int
  BY DEF Octets
<1>2. CASE a = b
  BY <1>1, <1>2 DEF InOrder4
<1>3. CASE \E k \in 1..4 : a[k] < b[k] /\ \A j \in 1..(k - 1) : a[j] = b[j]
  <2>1. PICK k \in 1..4 : a[k] < b[k] /\ \A j \in 1..(k - 1) : a[j] = b[j]
    BY <1>3
  <2>2. k = 1 \/ k = 2 \/ k = 3 \/ k = 4
    BY SMT
  <2>3. CASE k = 1
    BY <2>1, <2>3 DEF InOrder4
  <2>4. CASE k = 2
    <3>1. 1 \in 1..(k - 1)
      BY <2>4, SMT
    <3>2. QED
      BY <2>1, <2>4, <3>1 DEF InOrder4
  <2>5. CASE k = 3
    <3>1. 1 \in 1..(k - 1) /\ 2 \in 1..(k - 1)
      BY <2>5, SMT
    <3>2. QED
      BY <2>1, <2>5, <3>1 DEF InOrder4
  <2>6. CASE k = 4
    <3>1. 1 \in 1..(k - 1) /\ 2 \in 1..(k - 1) /\ 3 \in 1..(k - 1)
      BY <2>6, SMT
    <3>2. a[4] <= b[4]
      BY <1>1, <2>1, <2>6, SMT
    <3>3. QED
      BY <2>1, <2>6, <3>1, <3>2 DEF InOrder4
  <2>7. QED
    BY <2>2, <2>3, <2>4, <2>5, <2>6
<1>4. QED
  BY <1>2, <1>3 DEF AtMost

\* What netip.Prefix.Contains compares, for the lengths of the table.
LEMMA Bits ==
    /\ 8 \div 8 = 1 /\ 16 \div 8 = 2 /\ 24 \div 8 = 3
    /\ 4 \div 8 = 0 /\ 10 \div 8 = 1 /\ 12 \div 8 = 1 /\ 15 \div 8 = 1
    /\ 2 ^ (8 - (8 % 8)) = 256 /\ 2 ^ (8 - (16 % 8)) = 256
    /\ 2 ^ (8 - (24 % 8)) = 256 /\ 2 ^ (8 - (4 % 8)) = 16
    /\ 2 ^ (8 - (10 % 8)) = 64 /\ 2 ^ (8 - (12 % 8)) = 16
    /\ 2 ^ (8 - (15 % 8)) = 2
BY SMT

\* An octet shifted by eight bits is nothing.
LEMMA OctetShifted ==
    ASSUME NEW octet \in 0..255
    PROVE  octet \div 256 = 0
BY SMT

\* An address outside the table's blocks, octet by octet.
OutsideBlocks(x1, x2, x3) ==
    /\ x1 \notin {0, 10, 127} /\ x1 < 224
    /\ ~(x1 = 100 /\ x2 \in 64..127)
    /\ ~(x1 = 169 /\ x2 = 254)
    /\ ~(x1 = 172 /\ x2 \in 16..31)
    /\ ~(x1 = 192 /\ x2 = 0 /\ x3 = 0)
    /\ ~(x1 = 192 /\ x2 = 0 /\ x3 = 2)
    /\ ~(x1 = 192 /\ x2 = 31 /\ x3 = 196)
    /\ ~(x1 = 192 /\ x2 = 52 /\ x3 = 193)
    /\ ~(x1 = 192 /\ x2 = 88 /\ x3 = 99)
    /\ ~(x1 = 192 /\ x2 = 168)
    /\ ~(x1 = 192 /\ x2 = 175 /\ x3 = 48)
    /\ ~(x1 = 198 /\ x2 \in 18..19)
    /\ ~(x1 = 198 /\ x2 = 51 /\ x3 = 100)
    /\ ~(x1 = 203 /\ x2 = 0 /\ x3 = 113)

\* An address is outside the blocks when no prefix contains it.
LEMMA NoPrefixContains ==
    ASSUME NEW ip \in Octets
    PROVE  (~\E prefix \in NonPublicPrefixes : Contains4(prefix, ip))
             <=> OutsideBlocks(ip[1], ip[2], ip[3])
<1>1. /\ ip[1] \in 0..255 /\ ip[2] \in 0..255
      /\ ip[3] \in 0..255 /\ ip[4] \in 0..255
  BY DEF Octets
<1>2. /\ ip[2] \div 256 = 0 /\ ip[3] \div 256 = 0 /\ ip[4] \div 256 = 0
      /\ 0 \div 256 = 0
  BY <1>1, OctetShifted, SMT
<1>3. QED
  BY <1>1, <1>2, Bits, SMTT(60)
     DEF NonPublicPrefixes, Contains4, OutsideBlocks

\* What is outside the blocks lies in an interval between two of them.
LEMMA GapsBetweenBlocks ==
    ASSUME NEW ip \in Octets
    PROVE  OutsideBlocks(ip[1], ip[2], ip[3])
             <=> \E range \in PublicIntervals :
                   InOrder4(range[1], ip) /\ InOrder4(ip, range[2])
<1>1. /\ ip[1] \in 0..255 /\ ip[2] \in 0..255
      /\ ip[3] \in 0..255 /\ ip[4] \in 0..255
  BY DEF Octets
<1>2. QED
  BY <1>1, SMTT(60) DEF OutsideBlocks, InOrder4, PublicIntervals

\* nonPublicIPv4Prefixes is the complement of the public intervals: no prefix
\* contains an address exactly if it is in one of them.  So Load accepts no
\* special-purpose address and refuses no public one, of all 2^32.
THEOREM PrefixesLeavePublic ==
    ASSUME NEW ip \in Octets
    PROVE  (~\E prefix \in NonPublicPrefixes : Contains4(prefix, ip))
             <=> \E range \in PublicIntervals :
                   AtMost(range[1], ip) /\ AtMost(ip, range[2])
<1>1. \A range \in PublicIntervals : range[1] \in Octets /\ range[2] \in Octets
  BY SMT DEF PublicIntervals, Octets
<1>2. ASSUME NEW range \in PublicIntervals
      PROVE  /\ AtMost(range[1], ip) <=> InOrder4(range[1], ip)
             /\ AtMost(ip, range[2]) <=> InOrder4(ip, range[2])
  BY <1>1, AtMostByOctet, OctetsInOrder
<1>3. QED
  BY <1>2, NoPrefixContains, GapsBetweenBlocks
-----------------------------------------------------------------------------
(* What Load has read *)

\* A whole number of frames, at least one.
WholeFrames(time) == time \in Int /\ time >= Frame /\ time % Frame = 0

Loaded == phase \in {"loaded", "listen", "serving", "recording"}

\* What Load has passed is valid, and stays it: each value from the step that
\* reads it until the recording.  A gateway that NewServer refuses is not
\* reached.
ConfigInv ==
    /\ phase # "serverRefused"
    /\ phase \notin {"ip", "refused"} =>
         /\ publicIP \in RawIPs
         /\ ~\E prefix \in NonPublicPrefixes : Contains4(prefix, publicIP)
    /\ phase \notin {"ip", "portMin", "refused"} => PortValid(portMin)
    /\ phase \notin {"ip", "portMin", "portMax", "refused"} =>
         PortValid(portMax) /\ portMin <= portMax
    /\ phase \in {"flags", "duration", "mode"} \/ Loaded =>
         ttl \in Int /\ ttl > 0
    /\ phase = "mode" \/ Loaded => WholeFrames(duration)
    /\ Loaded => mode \in {"silence", "tone"}
    /\ Started => options = [duration |-> duration, mode |-> mode]

\* A value is read when it is set: then it is a number.
LEMMA RawIsNumber ==
    ASSUME NEW raw \in RawPorts \cup RawTTLs \cup RawDurations, raw # <<>>
    PROVE  raw[1] \in Int
<1>1. raw \in Seq(Int)
  BY RawAssumption
<1>2. QED
  BY <1>1

\* The defaults are valid.
LEMMA DefaultsValid ==
    DefaultTTL \in Int /\ DefaultTTL > 0 /\ WholeFrames(DefaultPrime)
<1>1. DefaultTTL \in Int /\ DefaultTTL > 0
  BY SMT DEF DefaultTTL
<1>2. WholeFrames(DefaultPrime)
  BY SMTT(30) DEF WholeFrames, DefaultPrime, Frame
<1>3. QED
  BY <1>1, <1>2

\* A port is a number of sixteen bits, not 0.
LEMMA PortRange ==
    ASSUME NEW port, PortValid(port)
    PROVE  port \in Int /\ 1 <= port /\ port <= 65535
BY SMTT(30) DEF PortValid

\* NewServer changes nothing of what Load lets through, and accepts it.
LEMMA ValidatorsAgree ==
    ASSUME PortValid(portMin), portMin <= portMax,
           WholeFrames(duration), mode \in {"silence", "tone"}
    PROVE  /\ OptionsValid
           /\ ServerOptions = [duration |-> duration, mode |-> mode]
<1>1. ServerOptions = [duration |-> duration, mode |-> mode]
  <2>1. ~(duration <= 0)
    BY SMT DEF WholeFrames, Frame
  <2>2. mode # ""
    BY Zenon
  <2>3. QED
    BY <2>1, <2>2 DEF ServerOptions
<1>2. ServerOptions.duration = duration /\ ServerOptions.mode = mode
  BY <1>1
<1>3. portMin # 0
  BY PortRange, SMT
<1>4. OptionsValid
  BY <1>2, <1>3 DEF OptionsValid, WholeFrames
<1>5. QED
  BY <1>1, <1>4

\* Every step of the start keeps what has been read valid.
LEMMA ConfigStep ==
    ASSUME ConfigInv, [Next]_vars
    PROVE  ConfigInv'
<1> USE DEF ConfigInv, Started, Loaded
<1>1. CASE ReadPublicIP
  BY <1>1 DEF ReadPublicIP, Refused
<1>2. CASE ReadPortMin
  <2>1. PICK raw \in RawPorts :
          IF PortValid(PortOf(raw, DefaultPortMin))
            THEN phase' = "portMax" /\ portMin' = PortOf(raw, DefaultPortMin)
            ELSE Refused("refused") /\ UNCHANGED portMin
    BY <1>2 DEF ReadPortMin
  <2>2. QED
    BY <1>2, <2>1 DEF ReadPortMin, Refused
<1>3. CASE ReadPortMax
  <2>1. PICK raw \in RawPorts :
          IF /\ PortValid(PortOf(raw, DefaultPortMax))
             /\ portMin <= PortOf(raw, DefaultPortMax)
            THEN phase' = "token" /\ portMax' = PortOf(raw, DefaultPortMax)
            ELSE Refused("refused") /\ UNCHANGED portMax
    BY <1>3 DEF ReadPortMax
  <2>2. QED
    BY <1>3, <2>1 DEF ReadPortMax, Refused
<1>4. CASE MakeProbeFile
  BY <1>4 DEF MakeProbeFile, Refused, network, prime
<1>5. CASE CloseProbeFile
  BY <1>5 DEF CloseProbeFile, Refused, network, prime
<1>6. CASE RemoveProbeFile
  BY <1>6 DEF RemoveProbeFile, Refused, network, prime
<1>7. CASE ReadTTL
  <2>1. PICK raw \in RawTTLs :
          IF raw = <<>> \/ raw[1] > 0
            THEN /\ phase' = "flags"
                 /\ ttl' = IF raw = <<>> THEN DefaultTTL ELSE raw[1]
            ELSE Refused("refused") /\ UNCHANGED ttl
    BY <1>7 DEF ReadTTL
  <2>2. phase' = "flags" => ttl' \in Int /\ ttl' > 0
    BY <1>7, <2>1, RawIsNumber, DefaultsValid DEF ReadTTL, Refused
  <2>3. phase' \in {"flags", "refused"}
    BY <2>1 DEF Refused
  <2>4. QED
    BY <1>7, <2>2, <2>3 DEF ReadTTL, network, prime
<1>8. CASE ReadFlags
  BY <1>8 DEF ReadFlags, network, prime
<1>9. CASE ReadDuration
  <2>1. PICK raw \in RawDurations :
          IF DurationValid(raw)
            THEN /\ phase' = "mode"
                 /\ duration' = IF raw = <<>> THEN DefaultPrime ELSE raw[1]
            ELSE Refused("refused") /\ UNCHANGED duration
    BY <1>9 DEF ReadDuration
  <2>2. phase' \in {"mode", "refused"}
    BY <2>1 DEF Refused
  <2>3. phase' = "mode" => WholeFrames(duration')
    BY <2>1, RawIsNumber, DefaultsValid
       DEF DurationValid, WholeFrames, Refused
  <2>4. QED
    BY <1>9, <2>2, <2>3 DEF ReadDuration, network
<1>10. CASE ReadMode
  BY <1>10 DEF ReadMode, Refused, network
<1>11. CASE NewServer
  <2>1. OptionsValid /\ ServerOptions = [duration |-> duration, mode |-> mode]
    BY <1>11, ValidatorsAgree DEF NewServer
  <2>2. QED
    BY <1>11, <2>1 DEF NewServer, network
<1>12. CASE Listen
  BY <1>12 DEF Listen, network, prime
<1>13. CASE NewRecording
  BY <1>13 DEF NewRecording, network, prime
<1>14. CASE Ended \/ UNCHANGED vars
  BY <1>14 DEF Ended, vars
<1>15. QED
  BY <1>1, <1>2, <1>3, <1>4, <1>5, <1>6, <1>7, <1>8, <1>9, <1>10, <1>11, <1>12,
     <1>13, <1>14 DEF Next

-----------------------------------------------------------------------------
(* The theorems *)

\* What has been read valid is enough to start: the address is public by
\* PrefixesLeavePublic, the frames of the prime are counted.
LEMMA ValidConfiguration == ConfigInv => StartsAsConfigured
<1> SUFFICES ASSUME ConfigInv PROVE StartsAsConfigured
  OBVIOUS
<1>1. CASE ~Started
  BY <1>1 DEF StartsAsConfigured, ConfigInv
<1>2. CASE Started
  <2>1. phase \in {"listen", "serving", "recording"}
    BY <1>2 DEF Started
  <2>2. /\ publicIP \in RawIPs
        /\ ~\E prefix \in NonPublicPrefixes : Contains4(prefix, publicIP)
    BY <2>1 DEF ConfigInv
  <2>3. \E range \in PublicIntervals :
          AtMost(range[1], publicIP) /\ AtMost(publicIP, range[2])
    BY <2>2, RawAssumption, PrefixesLeavePublic DEF Octets
  <2>4. /\ PortValid(portMin) /\ PortValid(portMax) /\ portMin <= portMax
        /\ ttl > 0
    BY <2>1 DEF ConfigInv, Loaded
  <2>5. /\ options = [duration |-> duration, mode |-> mode]
        /\ WholeFrames(duration)
    BY <1>2, <2>1 DEF ConfigInv, Loaded
  <2>6. \E frames \in 1..duration : duration = frames * Frame
    <3>1. duration \div Frame \in 1..duration
      BY <2>5 DEF WholeFrames, Frame
    <3>2. duration = (duration \div Frame) * Frame
      BY <2>5 DEF WholeFrames, Frame
    <3>3. QED
      BY <3>1, <3>2
  <2>7. options.duration = duration
    BY <2>5
  <2>8. 1 <= portMin /\ portMax <= 65535
    BY <2>4, PortRange, SMT
  <2>9. QED
    BY <2>1, <2>3, <2>4, <2>5, <2>6, <2>7, <2>8, SMT DEF StartsAsConfigured
<1>3. QED
  BY <1>1, <1>2

\* Whatever the environment holds, a gateway that serves has a valid
\* configuration, and runs with that one: NewServer's own validation never
\* refuses or replaces what config.Load has accepted.
THEOREM GatewayStartsAsConfigured == Spec => []StartsAsConfigured
<1>1. Init => ConfigInv
  BY DEF Init, ConfigInv, Loaded, Started
<1>2. ConfigInv /\ [Next]_vars => ConfigInv'
  BY ConfigStep
<1>3. QED
  BY <1>1, <1>2, ValidConfiguration, PTL DEF Spec

\* Every step of the start leaves a write probe only where Load is about to
\* remove it, or could not.
LEMMA ProbeFileStep ==
    ASSUME ProbeFileRemoved, [Next]_vars
    PROVE  ProbeFileRemoved'
<1> USE DEF ProbeFileRemoved, Refused, directory
<1>1. CASE MakeProbeFile
  BY <1>1 DEF MakeProbeFile
<1>2. CASE CloseProbeFile
  BY <1>2 DEF CloseProbeFile
<1>3. CASE RemoveProbeFile
  BY <1>3 DEF RemoveProbeFile
<1>4. CASE ReadPublicIP \/ ReadPortMin \/ ReadPortMax
  BY <1>4 DEF ReadPublicIP, ReadPortMin, ReadPortMax
<1>5. CASE ReadTTL \/ ReadFlags \/ ReadDuration \/ ReadMode
  BY <1>5 DEF ReadTTL, ReadFlags, ReadDuration, ReadMode
<1>6. CASE NewServer \/ Listen \/ NewRecording
  BY <1>6 DEF NewServer, Listen, NewRecording
<1>7. CASE Ended \/ UNCHANGED vars
  BY <1>7 DEF Ended, vars
<1>8. QED
  BY <1>1, <1>2, <1>3, <1>4, <1>5, <1>6, <1>7 DEF Next

\* The write probe leaves no file behind, in a gateway that starts and in one
\* that does not, unless the file system refuses to remove it.
THEOREM WriteProbeLeavesNoFile == Spec => []ProbeFileRemoved
<1>1. Init => ProbeFileRemoved
  BY DEF Init, ProbeFileRemoved
<1>2. ProbeFileRemoved /\ [Next]_vars => ProbeFileRemoved'
  BY ProbeFileStep
<1>3. QED
  BY <1>1, <1>2, PTL DEF Spec

-----------------------------------------------------------------------------
(* The loop of sanitizeSessionID *)

\* What the loop writes.
Written == {"a", ".", "_"}

NoDoubled(text) ==
    \A i \in 2..Len(text) : ~(text[i - 1] = "_" /\ text[i] = "_")

\* One turn of the loop writes one character at most, an allowed one, and no
\* second underscore.
LEMMA WithCharType ==
    ASSUME NEW built \in Seq(Written), NEW char \in CharClasses
    PROVE  WithChar(built, char) \in Seq(Written)
<1>1. \A c \in Written : Append(built, c) \in Seq(Written)
  OBVIOUS
<1>2. "_" \in Written /\ (char \in {"a", "."} => char \in Written)
  BY DEF Written
<1>3. QED
  BY <1>1, <1>2 DEF WithChar

LEMMA WithCharShape ==
    ASSUME NEW built \in Seq(Written), NEW char \in CharClasses
    PROVE  \/ WithChar(built, char) = built /\ char # "a"
           \/ \E c \in Written :
                /\ WithChar(built, char) = Append(built, c)
                /\ c = "a" <=> char = "a"
                /\ c = "_" => built = <<>> \/ built[Len(built)] # "_"
BY DEF WithChar, Written, CharClasses, Last

\* The builder after each character of s.
Building(s, built) ==
    built = [n \in 0..Len(s) |->
               IF n = 0 THEN <<>> ELSE WithChar(built[n - 1], s[n])]

\* The loop has a result: the recursive function is well defined.
LEMMA BuildingExists ==
    ASSUME NEW s \in Seq(CharClasses)
    PROVE  \E built : Building(s, built)
<1> DEFINE step == [n \in 1..Len(s) |->
                      [text \in Seq(Written) |-> WithChar(text, s[n])]]
<1>1. Len(s) \in Nat /\ <<>> \in Seq(Written)
  OBVIOUS
<1>2. step \in [1..Len(s) -> [Seq(Written) -> Seq(Written)]]
  <2>1. ASSUME NEW n \in 1..Len(s), NEW text \in Seq(Written)
        PROVE  WithChar(text, s[n]) \in Seq(Written)
    BY WithCharType
  <2>2. QED
    BY <2>1
<1> HIDE DEF step
<1>3. PICK built \in [0..Len(s) -> Seq(Written)] :
        built[0] = <<>> /\ \A n \in 1..Len(s) : built[n] = step[n][built[n - 1]]
  <2>1. Iterable(Len(s), Seq(Written), <<>>, step)
    BY <1>1, <1>2, Iteration
  <2>2. QED
    BY <2>1 DEF Iterable
<1>4. \A n \in 1..Len(s) : built[n] = WithChar(built[n - 1], s[n])
  <2> SUFFICES ASSUME NEW n \in 1..Len(s)
               PROVE  built[n] = WithChar(built[n - 1], s[n])
    OBVIOUS
  <2>1. n - 1 \in 0..Len(s)
    OBVIOUS
  <2>2. built[n - 1] \in Seq(Written)
    BY <1>3, <2>1
  <2>3. QED
    BY <1>3, <2>2 DEF step
<1>5. Building(s, built)
  BY <1>1, <1>3, <1>4 DEF Building
<1>6. QED
  BY <1>5

\* Replaced is the last value of such a function.
LEMMA ReplacedIsBuilt ==
    ASSUME NEW s \in Seq(CharClasses)
    PROVE  \E built : Building(s, built) /\ Replaced(s) = built[Len(s)]
<1> DEFINE b == CHOOSE built : Building(s, built)
<1>1. Building(s, b)
  BY BuildingExists
<1>2. Replaced(s) = b[Len(s)]
  BY DEF Replaced, Building
<1>3. QED
  BY <1>1, <1>2

\* A character more.
LEMMA AppendFacts ==
    ASSUME NEW text \in Seq(Written), NEW c \in Written
    PROVE  /\ Append(text, c) \in Seq(Written)
           /\ Len(Append(text, c)) = Len(text) + 1
           /\ Append(text, c)[Len(text) + 1] = c
           /\ \A i \in 1..Len(text) : Append(text, c)[i] = text[i]
OBVIOUS

\* A character more, a letter more.
LEMMA LettersAppend ==
    ASSUME NEW text \in Seq(Written), NEW c \in Written
    PROVE  /\ IsFiniteSet(Letters(text))
           /\ Cardinality(Letters(Append(text, c))) =
                IF c = "a" THEN Cardinality(Letters(text)) + 1
                           ELSE Cardinality(Letters(text))
<1>1. Len(text) \in Nat /\ DOMAIN text = 1..Len(text)
  OBVIOUS
<1>2. IsFiniteSet(Letters(text))
  <2>1. IsFiniteSet(1..Len(text))
    BY <1>1, FS_Interval
  <2>2. Letters(text) \subseteq 1..Len(text)
    BY <1>1 DEF Letters
  <2>3. QED
    BY <2>1, <2>2, FS_Subset
<1>3. CASE c = "a"
  <2>1. Letters(Append(text, c)) = Letters(text) \cup {Len(text) + 1}
    BY <1>1, <1>3 DEF Letters
  <2>2. Len(text) + 1 \notin Letters(text)
    BY <1>1 DEF Letters
  <2>3. QED
    BY <1>2, <1>3, <2>1, <2>2, FS_AddElement
<1>4. CASE c # "a"
  <2>1. Letters(Append(text, c)) = Letters(text)
    BY <1>1, <1>4 DEF Letters
  <2>2. QED
    BY <1>2, <1>4, <2>1
<1>5. QED
  BY <1>2, <1>3, <1>4

\* The letters among the first n characters.
LettersUpTo(s, n) == {i \in 1..n : s[i] = "a"}

\* The builder after n characters: not longer than these, without a doubled
\* underscore, and with all their letters.
BuiltWell(s, n, text) ==
    /\ text \in Seq(Written) /\ Len(text) <= n /\ NoDoubled(text)
    /\ Cardinality(Letters(text)) = Cardinality(LettersUpTo(s, n))

\* One turn of the loop.
LEMMA LoopTurn ==
    ASSUME NEW s \in Seq(CharClasses), NEW n \in 1..Len(s), NEW text,
           BuiltWell(s, n - 1, text)
    PROVE  BuiltWell(s, n, WithChar(text, s[n]))
<1> DEFINE next == WithChar(text, s[n])
<1>1. /\ s[n] \in CharClasses /\ n \in Nat /\ n - 1 \in Nat
      /\ text \in Seq(Written) /\ Len(text) \in Nat
      /\ Len(text) <= n - 1 /\ NoDoubled(text)
      /\ Cardinality(Letters(text)) = Cardinality(LettersUpTo(s, n - 1))
  BY DEF BuiltWell
<1>2. /\ IsFiniteSet(LettersUpTo(s, n - 1))
      /\ Cardinality(LettersUpTo(s, n)) =
           IF s[n] = "a" THEN Cardinality(LettersUpTo(s, n - 1)) + 1
                         ELSE Cardinality(LettersUpTo(s, n - 1))
  <2>1. IsFiniteSet(LettersUpTo(s, n - 1))
    <3>1. IsFiniteSet(1..(n - 1))
      BY <1>1, FS_Interval
    <3>2. LettersUpTo(s, n - 1) \subseteq 1..(n - 1)
      BY DEF LettersUpTo
    <3>3. QED
      BY <3>1, <3>2, FS_Subset
  <2>2. CASE s[n] = "a"
    <3>1. LettersUpTo(s, n) = LettersUpTo(s, n - 1) \cup {n}
      BY <1>1, <2>2 DEF LettersUpTo
    <3>2. n \notin LettersUpTo(s, n - 1)
      BY <1>1 DEF LettersUpTo
    <3>3. QED
      BY <2>1, <2>2, <3>1, <3>2, FS_AddElement
  <2>3. CASE s[n] # "a"
    <3>1. LettersUpTo(s, n) = LettersUpTo(s, n - 1)
      BY <1>1, <2>3 DEF LettersUpTo
    <3>2. QED
      BY <2>1, <2>3, <3>1
  <2>4. QED
    BY <2>1, <2>2, <2>3
<1>3. CASE next = text /\ s[n] # "a"
  <2>1. Len(text) <= n
    BY <1>1
  <2>2. QED
    BY <1>1, <1>2, <1>3, <2>1 DEF BuiltWell
<1>4. ASSUME NEW c \in Written, next = Append(text, c), c = "a" <=> s[n] = "a",
             c = "_" => text = <<>> \/ text[Len(text)] # "_"
      PROVE  BuiltWell(s, n, next)
  <2> HIDE DEF next
  <2>1. /\ next \in Seq(Written) /\ Len(next) = Len(text) + 1
        /\ next[Len(text) + 1] = c
        /\ \A i \in 1..Len(text) : next[i] = text[i]
    BY <1>1, <1>4, AppendFacts
  <2>2. Len(next) <= n
    BY <1>1, <2>1
  <2>3. NoDoubled(next)
    <3> SUFFICES ASSUME NEW i \in 2..Len(next)
                 PROVE  ~(next[i - 1] = "_" /\ next[i] = "_")
      BY DEF NoDoubled
    <3>1. CASE i \in 2..Len(text)
      <4>1. next[i - 1] = text[i - 1] /\ next[i] = text[i]
        BY <1>1, <2>1, <3>1
      <4>2. QED
        BY <1>1, <3>1, <4>1 DEF NoDoubled
    <3>2. CASE i = Len(text) + 1
      <4>1. text # <<>> /\ next[i - 1] = text[Len(text)] /\ next[i] = c
        BY <1>1, <2>1, <3>2
      <4>2. QED
        BY <1>4, <4>1
    <3>3. i \in 2..Len(text) \/ i = Len(text) + 1
      <4>1. i \in Nat /\ 2 <= i /\ i <= Len(text) + 1
        BY <1>1, <2>1
      <4>2. QED
        BY <1>1, <4>1
    <3>4. QED
      BY <3>1, <3>2, <3>3
  <2>4. Cardinality(Letters(next)) = Cardinality(LettersUpTo(s, n))
    BY <1>1, <1>2, <1>4, LettersAppend
  <2>5. QED
    BY <2>1, <2>2, <2>3, <2>4 DEF BuiltWell
<1>5. \/ next = text /\ s[n] # "a"
      \/ \E c \in Written :
           /\ next = Append(text, c)
           /\ c = "a" <=> s[n] = "a"
           /\ c = "_" => text = <<>> \/ text[Len(text)] # "_"
  BY <1>1, WithCharShape
<1>6. QED
  BY <1>3, <1>4, <1>5

\* After the whole loop.
LEMMA ReplacedWell ==
    ASSUME NEW s \in Seq(CharClasses)
    PROVE  BuiltWell(s, Len(s), Replaced(s))
<1>1. PICK built : Building(s, built) /\ Replaced(s) = built[Len(s)]
  BY ReplacedIsBuilt
<1> DEFINE Well == {n \in 0..Len(s) : BuiltWell(s, n, built[n])}
<1>2. Len(s) \in Nat
  OBVIOUS
<1>3. 0 \in Well
  <2>1. built[0] = <<>>
    BY <1>1, <1>2 DEF Building
  <2>2. Letters(<<>>) = {} /\ LettersUpTo(s, 0) = {}
    BY DEF Letters, LettersUpTo
  <2>3. <<>> \in Seq(Written) /\ Len(<<>>) = 0
    OBVIOUS
  <2>4. NoDoubled(<<>>)
    <3>1. 2..0 = {}
      OBVIOUS
    <3>2. QED
      BY <2>3, <3>1, Zenon DEF NoDoubled
  <2>5. BuiltWell(s, 0, <<>>)
    <3>1. Len(<<>>) <= 0
      BY <2>3
    <3>2. QED
      BY <2>2, <2>3, <2>4, <3>1, Zenon DEF BuiltWell
  <2>6. QED
    BY <1>2, <2>1, <2>5
<1>4. ASSUME NEW n \in 1..Len(s), n - 1 \in Well PROVE n \in Well
  <2>1. built[n] = WithChar(built[n - 1], s[n])
    BY <1>1 DEF Building
  <2>2. BuiltWell(s, n, built[n])
    BY <1>4, <2>1, LoopTurn
  <2>3. QED
    BY <2>2
<1>5. Len(s) \in Well
  <2> HIDE DEF Well
  <2>1. \A n \in 0..Len(s) : n \in Well
    BY <1>2, <1>3, <1>4, Induction
  <2>2. QED
    BY <1>2, <2>1
<1>6. QED
  BY <1>1, <1>5

-----------------------------------------------------------------------------
(* The trimming *)

\* No part of a text has a doubled underscore if the text has none.
LEMMA PartNotDoubled ==
    ASSUME NEW text \in Seq(Written), NoDoubled(text),
           NEW m \in 1..Len(text), NEW k \in m..Len(text)
    PROVE  NoDoubled(SubSeq(text, m, k))
<1> DEFINE part == SubSeq(text, m, k)
<1>1. /\ Len(text) \in Nat /\ m \in Int /\ k \in Int
      /\ 1 <= m /\ m <= k /\ k <= Len(text)
  OBVIOUS
<1>2. /\ Len(part) = k - m + 1
      /\ \A i \in 1..(k - m + 1) : part[i] = text[m + i - 1]
  BY PartOf
<1> HIDE DEF part
<1> SUFFICES ASSUME NEW i \in 2..Len(part)
             PROVE  ~(part[i - 1] = "_" /\ part[i] = "_")
  BY DEF NoDoubled, part
<1>3. i \in Int /\ 2 <= i /\ i <= k - m + 1
  BY <1>1, <1>2
<1> DEFINE j == m + i - 1
<1>4. j \in 2..Len(text) /\ m + (i - 1) - 1 = j - 1
  BY <1>1, <1>3
<1>5. i \in 1..(k - m + 1) /\ i - 1 \in 1..(k - m + 1)
  BY <1>1, <1>3
<1>6. part[i] = text[j] /\ part[i - 1] = text[j - 1]
  BY <1>2, <1>4, <1>5
<1>7. QED
  BY <1>4, <1>6 DEF NoDoubled

\* A part that leaves out no letter has as many.
LEMMA PartKeepsLetters ==
    ASSUME NEW text \in Seq(Written),
           NEW m \in 1..Len(text), NEW k \in m..Len(text),
           Letters(text) \subseteq m..k
    PROVE  Cardinality(Letters(SubSeq(text, m, k))) = Cardinality(Letters(text))
<1> DEFINE part == SubSeq(text, m, k)
           shift == [i \in Letters(part) |-> m + i - 1]
<1>1. /\ Len(text) \in Nat /\ m \in Int /\ k \in Int
      /\ 1 <= m /\ m <= k /\ k <= Len(text)
  OBVIOUS
<1>2. /\ part \in Seq(Written) /\ Len(part) = k - m + 1
      /\ \A i \in 1..(k - m + 1) : part[i] = text[m + i - 1]
  BY PartOf
<1> HIDE DEF part
<1>3. /\ DOMAIN part = 1..(k - m + 1) /\ DOMAIN text = 1..Len(text)
  BY <1>2
<1>4. ASSUME NEW i \in Letters(part)
      PROVE  i \in Int /\ m + i - 1 \in Letters(text)
  <2>1. i \in 1..(k - m + 1) /\ part[i] = "a"
    BY <1>3 DEF Letters
  <2>2. m + i - 1 \in 1..Len(text) /\ text[m + i - 1] = "a"
    BY <1>1, <1>2, <2>1
  <2>3. QED
    BY <1>3, <2>1, <2>2 DEF Letters
<1>5. ASSUME NEW j \in Letters(text)
      PROVE  \E i \in Letters(part) : m + i - 1 = j
  <2>1. j \in Int /\ m <= j /\ j <= k /\ text[j] = "a"
    BY <1>1 DEF Letters
  <2>2. /\ j - m + 1 \in 1..(k - m + 1) /\ m + (j - m + 1) - 1 = j
    BY <1>1, <2>1
  <2>3. part[j - m + 1] = "a"
    BY <1>2, <2>1, <2>2
  <2>4. j - m + 1 \in Letters(part)
    BY <1>3, <2>2, <2>3 DEF Letters
  <2>5. QED
    BY <2>2, <2>4
<1>6. shift \in Bijection(Letters(part), Letters(text))
  <2>1. shift \in [Letters(part) -> Letters(text)]
    BY <1>4
  <2>2. \A i, l \in Letters(part) : shift[i] = shift[l] => i = l
    BY <1>1, <1>4
  <2>3. \A j \in Letters(text) : \E i \in Letters(part) : shift[i] = j
    BY <1>5
  <2> HIDE DEF shift
  <2>4. QED
    BY <2>1, <2>2, <2>3, Fun_IsBij
<1>7. IsFiniteSet(Letters(part))
  <2>1. IsFiniteSet(1..(k - m + 1))
    BY <1>1, FS_Interval
  <2>2. Letters(part) \subseteq 1..(k - m + 1)
    BY <1>3 DEF Letters
  <2>3. QED
    BY <2>1, <2>2, FS_Subset
<1>8. ExistsBijection(Letters(part), Letters(text))
  BY <1>6 DEF ExistsBijection
<1>9. QED
  BY <1>7, <1>8, FS_Bijection DEF part

\* Trimmed keeps all from the first letter to the last.
LEMMA TrimmedWell ==
    ASSUME NEW text \in Seq(Written), NoDoubled(text), Letters(text) # {}
    PROVE  /\ Trimmed(text) \in Seq(Written) /\ NoDoubled(Trimmed(text))
           /\ Len(Trimmed(text)) \in 1..Len(text)
           /\ Trimmed(text)[1] = "a"
           /\ Trimmed(text)[Len(Trimmed(text))] = "a"
           /\ Cardinality(Letters(Trimmed(text))) = Cardinality(Letters(text))
<1> DEFINE m == Min(Letters(text))
           k == Max(Letters(text))
           part == Trimmed(text)
<1>1. Len(text) \in Nat /\ DOMAIN text = 1..Len(text)
  OBVIOUS
<1>2. /\ Letters(text) \subseteq Nat /\ Letters(text) \subseteq 0..Len(text)
      /\ Letters(text) \subseteq 1..Len(text)
  BY <1>1 DEF Letters
<1>3. m \in Letters(text) /\ \A i \in Letters(text) : m <= i
  BY <1>2, MinIsLeast
<1>4. k \in Letters(text) /\ \A i \in Letters(text) : i <= k
  <2>1. \E x \in Letters(text) : \A y \in Letters(text) : y <= x
    BY <1>1, <1>2, GreatestNumber
  <2>2. \E x \in Letters(text) : \A y \in Letters(text) : x >= y
    BY <1>2, <2>1
  <2>3. k \in Letters(text) /\ \A i \in Letters(text) : k >= i
    BY <2>2, Zenon DEF Max
  <2> HIDE DEF k
  <2>4. QED
    BY <1>2, <2>3
<1>5. part = SubSeq(text, m, k)
  BY DEF Trimmed, Letters
<1> HIDE DEF m, k, part
<1>6. /\ m \in 1..Len(text) /\ k \in m..Len(text)
      /\ Letters(text) \subseteq m..k /\ text[m] = "a" /\ text[k] = "a"
  <2>1. m \in 1..Len(text) /\ k \in 1..Len(text) /\ m <= k
    BY <1>2, <1>3, <1>4
  <2>2. Letters(text) \subseteq m..k
    BY <1>2, <1>3, <1>4, <2>1
  <2>3. text[m] = "a" /\ text[k] = "a"
    BY <1>3, <1>4 DEF Letters
  <2>4. QED
    BY <2>1, <2>2, <2>3
<1>7. /\ part \in Seq(Written) /\ Len(part) = k - m + 1
      /\ \A i \in 1..(k - m + 1) : part[i] = text[m + i - 1]
  BY <1>5, <1>6, PartOf
<1>8. /\ 1 \in 1..(k - m + 1) /\ k - m + 1 \in 1..(k - m + 1)
      /\ m + 1 - 1 = m /\ m + (k - m + 1) - 1 = k /\ k - m + 1 \in 1..Len(text)
  BY <1>1, <1>6
<1>9. part[1] = "a" /\ part[Len(part)] = "a"
  BY <1>6, <1>7, <1>8
<1>10. NoDoubled(part) /\ Cardinality(Letters(part)) = Cardinality(Letters(text))
  BY <1>5, <1>6, PartNotDoubled, PartKeepsLetters
<1>11. QED
  BY <1>7, <1>8, <1>9, <1>10 DEF part

-----------------------------------------------------------------------------
(* The sanitised id *)

\* A text of the loop's characters that starts with a letter, and ends with one
\* or is as long as a name may be, is a path element.
LEMMA TextIsPathElement ==
    ASSUME NEW text \in Seq(Written), NoDoubled(text), text[1] = "a",
           Len(text) \in 1..MaxName,
           text[Len(text)] = "a" \/ Len(text) = MaxName
    PROVE  PathElement(text)
<1>1. text # <<>> /\ Len(text) <= MaxName
  BY MaxNameAssumption
<1>2. \A i \in DOMAIN text : text[i] # "/"
  <2>1. \A i \in DOMAIN text : text[i] \in Written
    OBVIOUS
  <2>2. "/" \notin Written
    BY DEF Written
  <2>3. QED
    BY <2>1, <2>2, Zenon
<1>3. \A i \in 2..Len(text) : ~(text[i - 1] = "_" /\ text[i] = "_")
  BY DEF NoDoubled
<1>4. "a" \notin Punctuation
  BY DEF Punctuation
<1>5. QED
  BY <1>1, <1>2, <1>3, <1>4 DEF PathElement

\* The fallback is one, whatever MaxName is.
LEMMA FallbackIsPathElement ==
    PathElement(Fallback)
<1>1. Fallback # <<>> /\ Len(Fallback) = 7 /\ DOMAIN Fallback = 1..7
  BY DEF Fallback
<1>2. \A i \in 1..7 : Fallback[i] \notin Punctuation
  <2>1. \A i \in 1..7 : Fallback[i] \in {"s", "e", "i", "o", "n"}
    BY DEF Fallback
  <2>2. \A c \in {"s", "e", "i", "o", "n"} : c \notin Punctuation
    BY DEF Punctuation
  <2>3. QED
    BY <2>1, <2>2
<1>3. "/" \in Punctuation /\ "_" \in Punctuation
  BY DEF Punctuation
<1>4. \A i \in 2..7 : i \in 1..7
  OBVIOUS
<1>5. 1 \in 1..7 /\ 7 \in 1..7
  OBVIOUS
<1>6. QED
  BY <1>1, <1>2, <1>3, <1>4, <1>5, Zenon DEF PathElement

\* An id that is accepted has a letter, and all of its letters are in the text
\* the loop builds, which is not longer.
LEMMA AcceptedHasLetters ==
    ASSUME NEW s \in Seq(CharClasses), AcceptsId(s)
    PROVE  Letters(Replaced(s)) # {} /\ Len(Replaced(s)) <= MaxName
<1>1. /\ Replaced(s) \in Seq(Written) /\ Len(Replaced(s)) <= Len(s)
      /\ Cardinality(Letters(Replaced(s))) = Cardinality(LettersUpTo(s, Len(s)))
  BY ReplacedWell DEF BuiltWell
<1>2. /\ Len(s) \in Nat /\ Len(s) >= 1 /\ Len(s) <= MaxName /\ s[1] = "a"
      /\ MaxName \in Nat
  BY MaxNameAssumption DEF AcceptsId
<1>3. 1 \in LettersUpTo(s, Len(s))
  BY <1>2 DEF LettersUpTo
<1>4. IsFiniteSet(LettersUpTo(s, Len(s)))
  <2>1. IsFiniteSet(1..Len(s))
    BY <1>2, FS_Interval
  <2>2. LettersUpTo(s, Len(s)) \subseteq 1..Len(s)
    BY DEF LettersUpTo
  <2>3. QED
    BY <2>1, <2>2, FS_Subset
<1>5. Cardinality(LettersUpTo(s, Len(s))) # 0
  BY <1>3, <1>4, FS_EmptySet
<1>6. Letters(Replaced(s)) # {}
  BY <1>1, <1>5, FS_EmptySet
<1>7. Len(Replaced(s)) \in Nat
  BY <1>1
<1>8. QED
  BY <1>1, <1>2, <1>6, <1>7

\* sanitizeSessionID makes a safe name of every id, and of one that the handler
\* accepts a name with all of its letters and digits.
THEOREM SanitizedIsSafe ==
    ASSUME NEW s \in Seq(CharClasses)
    PROVE  SafeName(s, SanitizeSessionID(s))
<1> DEFINE text   == Replaced(s)
           result == Trimmed(text)
           made   == SanitizeSessionID(s)
<1>1. /\ text \in Seq(Written) /\ Len(text) <= Len(s) /\ NoDoubled(text)
      /\ Cardinality(Letters(text)) = Cardinality(LettersUpTo(s, Len(s)))
  BY ReplacedWell DEF BuiltWell
<1>2. Letters(s) = LettersUpTo(s, Len(s))
  BY DEF Letters, LettersUpTo
<1>3. AcceptsId(s) => Letters(text) # {} /\ Len(text) <= MaxName
  BY AcceptedHasLetters
<1>4. made = IF result = <<>> THEN Fallback
             ELSE IF Len(result) > MaxName THEN SubSeq(result, 1, MaxName)
             ELSE result
  BY DEF SanitizeSessionID
<1>5. Letters(text) = {} => result = <<>>
  BY DEF Trimmed, Letters
<1> HIDE DEF text, made
<1>6. CASE Letters(text) = {}
  <2>1. made = Fallback
    BY <1>4, <1>5, <1>6
  <2>2. QED
    BY <1>3, <1>6, <2>1, FallbackIsPathElement DEF SafeName, made
<1>7. CASE Letters(text) # {}
  <2>1. /\ result \in Seq(Written) /\ NoDoubled(result)
        /\ Len(result) \in 1..Len(text)
        /\ result[1] = "a" /\ result[Len(result)] = "a"
        /\ Cardinality(Letters(result)) = Cardinality(Letters(text))
    BY <1>1, <1>7, TrimmedWell
  <2> HIDE DEF result
  <2>2. /\ result # <<>> /\ Len(result) \in Nat /\ Len(result) >= 1
        /\ Len(text) \in Nat /\ Len(result) <= Len(text)
        /\ MaxName \in Nat /\ MaxName >= 1
    BY <1>1, <2>1, MaxNameAssumption
  <2>3. CASE Len(result) > MaxName
    <3>1. made = SubSeq(result, 1, MaxName)
      BY <1>4, <2>2, <2>3
    <3>2. 1 \in 1..Len(result) /\ MaxName \in 1..Len(result)
      BY <2>2, <2>3
    <3>3. /\ made \in Seq(Written) /\ Len(made) = MaxName - 1 + 1
          /\ \A i \in 1..(MaxName - 1 + 1) : made[i] = result[1 + i - 1]
      BY <2>1, <3>1, <3>2, PartOf
    <3>4. Len(made) = MaxName /\ Len(made) \in 1..MaxName /\ made[1] = "a"
      BY <2>1, <2>2, <3>3
    <3>5. NoDoubled(made)
      BY <2>1, <3>1, <3>2, PartNotDoubled
    <3>6. PathElement(made)
      BY <3>3, <3>4, <3>5, TextIsPathElement
    <3>7. ~AcceptsId(s)
      BY <1>3, <2>2, <2>3
    <3>8. QED
      BY <3>6, <3>7 DEF SafeName, made
  <2>4. CASE ~(Len(result) > MaxName)
    <3>1. made = result /\ Len(result) \in 1..MaxName
      BY <1>4, <2>2, <2>4
    <3>2. PathElement(made)
      BY <2>1, <3>1, TextIsPathElement
    <3>3. Cardinality(Letters(made)) = Cardinality(Letters(s))
      BY <1>1, <1>2, <2>1, <3>1
    <3>4. QED
      BY <3>2, <3>3 DEF SafeName, made
  <2>5. QED
    BY <2>3, <2>4
<1>8. QED
  BY <1>6, <1>7

-----------------------------------------------------------------------------
(* The name of a recording *)

\* The ids of the model are sequences.
LEMMA IdIsSequence ==
    ASSUME NEW i \in BoundedSeq(CharClasses, MaxId)
    PROVE  i \in Seq(CharClasses)
<1>1. PICK m \in 0..MaxId : i \in [1..m -> CharClasses]
  BY DEF BoundedSeq, SeqOf
<1>2. QED
  BY <1>1

\* Only NewRecording names a recording, and it names it safely.
LEMMA NameStep ==
    ASSUME NameSafe, [Next]_vars
    PROVE  NameSafe'
<1> USE DEF NameSafe, Refused
<1>1. CASE NewRecording
  <2>1. PICK i \in BoundedSeq(CharClasses, MaxId) :
          id' = i /\ name' = SanitizeSessionID(i)
    BY <1>1 DEF NewRecording
  <2>2. SafeName(i, SanitizeSessionID(i))
    BY IdIsSequence, SanitizedIsSafe
  <2>3. QED
    BY <2>1, <2>2
<1>2. CASE Ended \/ UNCHANGED vars
  BY <1>2 DEF Ended, vars, recording
<1>3. CASE ReadPublicIP \/ ReadPortMin \/ ReadPortMax
  BY <1>3 DEF ReadPublicIP, ReadPortMin, ReadPortMax
<1>4. CASE MakeProbeFile \/ CloseProbeFile \/ RemoveProbeFile
  BY <1>4 DEF MakeProbeFile, CloseProbeFile, RemoveProbeFile
<1>5. CASE ReadTTL \/ ReadFlags \/ ReadDuration \/ ReadMode
  BY <1>5 DEF ReadTTL, ReadFlags, ReadDuration, ReadMode
<1>6. CASE NewServer \/ Listen
  BY <1>6 DEF NewServer, Listen
<1>7. QED
  BY <1>1, <1>2, <1>3, <1>4, <1>5, <1>6 DEF Next

\* Whatever id a recording is made for, its name is a safe path element, and
\* has all letters and digits of an id that the handler lets through.
THEOREM RecordingNamesSafe == Spec => []NameSafe
<1>1. Init => NameSafe
  BY DEF Init, NameSafe
<1>2. NameSafe /\ [Next]_vars => NameSafe'
  BY NameStep
<1>3. QED
  BY <1>1, <1>2, PTL DEF Spec
=============================================================================
