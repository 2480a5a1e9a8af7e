------------------------------- MODULE Startup -------------------------------
(***************************************************************************)
(* How the gateway starts: config.Load (internal/config/config.go), the    *)
(* checks of rtc.NewServer (internal/rtc/server.go) and the listener       *)
(* (cmd/rtc-server/main.go), up to the first recording of a session        *)
(* (internal/recording/recorder.go).                                       *)
(*                                                                         *)
(* Load reads one environment variable after the other and returns at the  *)
(* first that is wrong.  A numeric variable is <<>> when it is not set and *)
(* <<n>> when it is; text that is no number fails like a number out of     *)
(* range does.  Durations are milliseconds.  An address is its octets.     *)
(***************************************************************************)
EXTENDS RecordingName

CONSTANTS
    RawIPs,        \* values of PUBLIC_IP that parse as IPv4
    RawPorts,      \* values of UDP_PORT_MIN and UDP_PORT_MAX
    RawTTLs,       \* values of SESSION_TTL
    RawDurations,  \* values of RTC_AUDIO_PRIME_DURATION
    RawModes,      \* values of RTC_AUDIO_PRIME_MODE, "" when not set
    MaxId          \* bound on the length of a session id

\* What parsing a variable yields: the octets of an address, and at most one
\* number.
ASSUME RawAssumption ==
    /\ RawIPs \subseteq [1..4 -> 0..255]
    /\ \A raw \in RawPorts \cup RawTTLs \cup RawDurations :
         raw \in Seq(Int) /\ Len(raw) <= 1

VARIABLES
    phase,         \* the value Load reads next, or where run is
    publicIP, portMin, portMax, ttl,
    duration, mode,   \* of the audio prime
    options,       \* what NewServer has made of these two
    probeFile,     \* a .write-probe-* file is in the recordings directory
    removeFailed,  \* os.Remove has failed
    id, name       \* the id a recording is made for, and its file name

vars == <<phase, publicIP, portMin, portMax, ttl, duration, mode, options,
          probeFile, removeFailed, id, name>>

network == <<publicIP, portMin, portMax>>
prime == <<duration, mode, options>>
directory == <<probeFile, removeFailed>>
recording == <<id, name>>

Frame == 20
DefaultPrime == 10000
DefaultPortMin == 40000
DefaultPortMax == 40020
DefaultTTL == 600000

Init ==
    /\ phase = "ip"
    /\ publicIP = <<0, 0, 0, 0>> /\ portMin = 0 /\ portMax = 0
    /\ ttl = 0 /\ duration = 0 /\ mode = ""
    /\ options = [duration |-> 0, mode |-> ""]
    /\ probeFile = FALSE /\ removeFailed = FALSE
    /\ id = <<>> /\ name = <<>>

\* An error: run returns it and the process exits.
Refused(where) == phase' = where

-----------------------------------------------------------------------------
(* Load *)

\* nonPublicIPv4Prefixes.
NonPublicPrefixes ==
    {<<<<0, 0, 0, 0>>, 8>>, <<<<10, 0, 0, 0>>, 8>>, <<<<100, 64, 0, 0>>, 10>>,
     <<<<127, 0, 0, 0>>, 8>>, <<<<169, 254, 0, 0>>, 16>>,
     <<<<172, 16, 0, 0>>, 12>>, <<<<192, 0, 0, 0>>, 24>>,
     <<<<192, 0, 2, 0>>, 24>>, <<<<192, 31, 196, 0>>, 24>>,
     <<<<192, 52, 193, 0>>, 24>>, <<<<192, 88, 99, 0>>, 24>>,
     <<<<192, 168, 0, 0>>, 16>>, <<<<192, 175, 48, 0>>, 24>>,
     <<<<198, 18, 0, 0>>, 15>>, <<<<198, 51, 100, 0>>, 24>>,
     <<<<203, 0, 113, 0>>, 24>>, <<<<224, 0, 0, 0>>, 4>>,
     <<<<240, 0, 0, 0>>, 4>>}

\* netip.Prefix.Contains: the first bits agree.
Contains4(prefix, ip) ==
    LET whole == prefix[2] \div 8
        unit == 2 ^ (8 - (prefix[2] % 8))
    IN  /\ \A k \in 1..whole : ip[k] = prefix[1][k]
        /\ whole < 4 =>
             ip[whole + 1] \div unit = prefix[1][whole + 1] \div unit

\* parsePublicIPv4.
ReadPublicIP ==
    /\ phase = "ip"
    /\ \/ /\ Refused("refused")     \* not an IPv4 address
          /\ UNCHANGED publicIP
       \/ \E raw \in RawIPs :
            IF \E prefix \in NonPublicPrefixes : Contains4(prefix, raw)
              THEN Refused("refused") /\ UNCHANGED publicIP
              ELSE phase' = "portMin" /\ publicIP' = raw
    /\ UNCHANGED <<portMin, portMax, ttl, prime, directory, recording>>

\* parsePort: an unsigned number of 16 bits, not 0.
PortOf(raw, fallback) == IF raw = <<>> THEN fallback ELSE raw[1]
PortValid(port) == port \in 1..(2 ^ 16 - 1)

ReadPortMin ==
    /\ phase = "portMin"
    /\ \E raw \in RawPorts :
         IF PortValid(PortOf(raw, DefaultPortMin))
           THEN phase' = "portMax" /\ portMin' = PortOf(raw, DefaultPortMin)
           ELSE Refused("refused") /\ UNCHANGED portMin
    /\ UNCHANGED <<publicIP, portMax, ttl, prime, directory, recording>>

\* The range is checked when both are known, defaults included.
ReadPortMax ==
    /\ phase = "portMax"
    /\ \E raw \in RawPorts :
         IF /\ PortValid(PortOf(raw, DefaultPortMax))
            /\ portMin <= PortOf(raw, DefaultPortMax)
           THEN phase' = "token" /\ portMax' = PortOf(raw, DefaultPortMax)
           ELSE Refused("refused") /\ UNCHANGED portMax
    /\ UNCHANGED <<publicIP, portMin, ttl, prime, directory, recording>>

\* The token, and ensureWritableDirectory up to os.CreateTemp.
MakeProbeFile ==
    /\ phase = "token"
    /\ \/ Refused("refused") /\ UNCHANGED probeFile
       \/ phase' = "probe" /\ probeFile' = TRUE
    /\ UNCHANGED <<network, ttl, prime, removeFailed, recording>>

\* Mutant: the file stays when it cannot be closed.
CloseProbeFileLeaves ==
    /\ phase = "probe"
    /\ phase' \in {"remove", "refused"}
    /\ UNCHANGED <<network, ttl, prime, directory, recording>>

\* A file that cannot be closed is still removed, if it can be.
CloseProbeFile ==
    /\ phase = "probe"
    /\ \/ phase' = "remove" /\ UNCHANGED directory
       \/ /\ Refused("refused")
          /\ probeFile' \in BOOLEAN /\ removeFailed' = probeFile'
    /\ UNCHANGED <<network, ttl, prime, recording>>

RemoveProbeFile ==
    /\ phase = "remove"
    /\ \/ phase' = "ttl" /\ probeFile' = FALSE /\ UNCHANGED removeFailed
       \/ Refused("refused") /\ removeFailed' = TRUE /\ UNCHANGED probeFile
    /\ UNCHANGED <<network, ttl, prime, recording>>

\* SESSION_TTL.
ReadTTL ==
    /\ phase = "ttl"
    /\ \E raw \in RawTTLs :
         IF raw = <<>> \/ raw[1] > 0
           THEN /\ phase' = "flags"
                /\ ttl' = IF raw = <<>> THEN DefaultTTL ELSE raw[1]
           ELSE Refused("refused") /\ UNCHANGED ttl
    /\ UNCHANGED <<network, prime, directory, recording>>

\* LOG_LEVEL, ICE_LITE and RTC_AUDIO_PRIME_ENABLED.
ReadFlags ==
    /\ phase = "flags"
    /\ phase' \in {"duration", "refused"}
    /\ UNCHANGED <<network, ttl, prime, directory, recording>>

\* Mutant: a duration that is not a whole number of frames is let through.
DurationLong(raw) == raw = <<>> \/ raw[1] >= Frame

DurationValid(raw) ==
    raw = <<>> \/ (raw[1] >= Frame /\ raw[1] % Frame = 0)

ReadDuration ==
    /\ phase = "duration"
    /\ \E raw \in RawDurations :
         IF DurationValid(raw)
           THEN /\ phase' = "mode"
                /\ duration' = IF raw = <<>> THEN DefaultPrime ELSE raw[1]
           ELSE Refused("refused") /\ UNCHANGED duration
    /\ UNCHANGED <<network, ttl, mode, options, directory, recording>>

ReadMode ==
    /\ phase = "mode"
    /\ \E raw \in RawModes :
         IF raw \in {"", "silence", "tone"}
           THEN /\ phase' = "loaded"
                /\ mode' = IF raw = "" THEN "silence" ELSE raw
           ELSE Refused("refused") /\ UNCHANGED mode
    /\ UNCHANGED <<network, ttl, duration, options, directory, recording>>

-----------------------------------------------------------------------------
(* NewServer and the listener *)

\* NewServer has defaults and checks of its own for what Load has checked.
ServerOptions ==
    [duration |-> IF duration <= 0 THEN DefaultPrime ELSE duration,
     mode     |-> IF mode = "" THEN "silence" ELSE mode]

OptionsValid ==
    /\ portMin # 0 /\ portMin <= portMax
    /\ ServerOptions.duration >= Frame /\ ServerOptions.duration % Frame = 0
    /\ ServerOptions.mode \in {"silence", "tone"}

NewServer ==
    /\ phase = "loaded"
    /\ IF OptionsValid THEN phase' = "listen" ELSE Refused("serverRefused")
    /\ options' = ServerOptions
    /\ UNCHANGED <<network, ttl, duration, mode, directory, recording>>

\* Pion refuses a setting, or the address cannot be listened on.
Listen ==
    /\ phase = "listen"
    /\ phase' \in {"serving", "refused"}
    /\ UNCHANGED <<network, ttl, prime, directory, recording>>

\* OGGFactory.New for any id; the handler lets only some through.  The name
\* is the sanitised id behind a time stamp: one path element without a
\* separator, so that ensureContained has nothing to refuse.
NewRecording ==
    /\ phase = "serving"
    /\ \E i \in BoundedSeq(CharClasses, MaxId) :
         id' = i /\ name' = SanitizeSessionID(i)
    /\ phase' = "recording"
    /\ UNCHANGED <<network, ttl, prime, directory>>

-----------------------------------------------------------------------------
Ended ==
    phase \in {"refused", "serverRefused", "recording"} /\ UNCHANGED vars

Next ==
    \/ ReadPublicIP \/ ReadPortMin \/ ReadPortMax
    \/ MakeProbeFile \/ CloseProbeFile \/ RemoveProbeFile
    \/ ReadTTL \/ ReadFlags \/ ReadDuration \/ ReadMode
    \/ NewServer \/ Listen \/ NewRecording \/ Ended

Spec == Init /\ [][Next]_vars

-----------------------------------------------------------------------------
(* Properties *)

Started == phase \in {"listen", "serving", "recording"}

\* The public address space as closed intervals, without prefixes: from the
\* first address after one special-purpose block to the last before the next.
PublicIntervals ==
    {<<<<1, 0, 0, 0>>, <<9, 255, 255, 255>>>>,
     <<<<11, 0, 0, 0>>, <<100, 63, 255, 255>>>>,
     <<<<100, 128, 0, 0>>, <<126, 255, 255, 255>>>>,
     <<<<128, 0, 0, 0>>, <<169, 253, 255, 255>>>>,
     <<<<169, 255, 0, 0>>, <<172, 15, 255, 255>>>>,
     <<<<172, 32, 0, 0>>, <<191, 255, 255, 255>>>>,
     <<<<192, 0, 1, 0>>, <<192, 0, 1, 255>>>>,
     <<<<192, 0, 3, 0>>, <<192, 31, 195, 255>>>>,
     <<<<192, 31, 197, 0>>, <<192, 52, 192, 255>>>>,
     <<<<192, 52, 194, 0>>, <<192, 88, 98, 255>>>>,
     <<<<192, 88, 100, 0>>, <<192, 167, 255, 255>>>>,
     <<<<192, 169, 0, 0>>, <<192, 175, 47, 255>>>>,
     <<<<192, 175, 49, 0>>, <<198, 17, 255, 255>>>>,
     <<<<198, 20, 0, 0>>, <<198, 51, 99, 255>>>>,
     <<<<198, 51, 101, 0>>, <<203, 0, 112, 255>>>>,
     <<<<203, 0, 114, 0>>, <<223, 255, 255, 255>>>>}

\* Addresses in their order.
AtMost(a, b) ==
    \/ a = b
    \/ \E k \in 1..4 : a[k] < b[k] /\ \A j \in 1..(k - 1) : a[j] = b[j]

\* The gateway starts only with a valid configuration, and with that one: an
\* address of the public intervals, an ordered range of real ports (defaults
\* included), a positive TTL, a prime of whole frames, at least one.  The two
\* validators agree: what Load accepts NewServer neither refuses nor replaces
\* by a default of its own.  "Invalid configuration prevents server startup."
StartsAsConfigured ==
    /\ phase # "serverRefused"
    /\ Started =>
        /\ \E range \in PublicIntervals :
             AtMost(range[1], publicIP) /\ AtMost(publicIP, range[2])
        /\ 1 <= portMin /\ portMin <= portMax /\ portMax <= 65535
        /\ ttl > 0
        /\ options = [duration |-> duration, mode |-> mode]
        /\ \E frames \in 1..duration : options.duration = frames * Frame

\* The write probe leaves no file: not in a gateway that starts, and in one
\* that does not only if the file system refused to remove it.
ProbeFileRemoved ==
    phase \notin {"probe", "remove"} /\ probeFile =>
        phase = "refused" /\ removeFailed

\* The name of a recording is a safe path element for every id, and the
\* recording of an id the handler lets through can be found by that id.
NameSafe == phase = "recording" => SafeName(id, name)
=============================================================================
