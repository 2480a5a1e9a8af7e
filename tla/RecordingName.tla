---------------------------- MODULE RecordingName ----------------------------
(***************************************************************************)
(* From a session id to the name of its recording: the handler's check of  *)
(* the id (internal/httpapi/handler.go) and sanitizeSessionID              *)
(* (internal/recording/recorder.go).                                       *)
(*                                                                         *)
(* An id is a sequence of characters, of which the code tells four classes *)
(* apart: "a" an ASCII letter or digit, "." a dot or hyphen, "_" the       *)
(* underscore, "/" anything else: separators, control characters, letters  *)
(* that are not ASCII.                                                     *)
(***************************************************************************)
EXTENDS Integers, Sequences, SequencesExt

CONSTANT
    MaxName   \* the longest id accepted and the longest name made, in bytes

ASSUME MaxNameAssumption == MaxName \in Nat \ {0}

CharClasses == {"a", ".", "_", "/"}

\* Mutant: a first character and MaxName more.
AcceptsIdLonger(id) ==
    /\ Len(id) \in 1..(MaxName + 1)
    /\ id[1] = "a"
    /\ \A i \in DOMAIN id : id[i] # "/"

\* sessionIDPattern.
AcceptsId(id) ==
    /\ Len(id) \in 1..MaxName
    /\ id[1] = "a"
    /\ \A i \in DOMAIN id : id[i] # "/"

\* One turn of the loop: a run of characters that are not allowed becomes one
\* underscore.  (The flag previousUnderscore is the last character written.)
WithChar(built, char) ==
    IF char \in {"a", "."} THEN Append(built, char)
    ELSE IF built # <<>> /\ Last(built) = "_" THEN built
    ELSE Append(built, "_")

\* The builder after the last character.
Replaced(id) ==
    LET built[n \in 0..Len(id)] ==
          IF n = 0 THEN <<>> ELSE WithChar(built[n - 1], id[n])
    IN  built[Len(id)]

\* strings.Trim(name, "._-").
Trimmed(name) ==
    LET kept == {i \in DOMAIN name : name[i] = "a"}
    IN  IF kept = {} THEN <<>> ELSE SubSeq(name, Min(kept), Max(kept))

\* The fallback, a word of letters.
Fallback == <<"s", "e", "s", "s", "i", "o", "n">>

\* sanitizeSessionID.
SanitizeSessionID(id) ==
    LET result == Trimmed(Replaced(id))
    IN  IF result = <<>> THEN Fallback
        ELSE IF Len(result) > MaxName THEN SubSeq(result, 1, MaxName)
        ELSE result

-----------------------------------------------------------------------------
(* What is asked of a name *)

Punctuation == {".", "_", "/"}

\* A path element: not empty, not longer than it may be, with no separator
\* and no doubled underscore, and no punctuation at its start or, unless it
\* was cut off, at its end.
PathElement(name) ==
    /\ name # <<>>
    /\ Len(name) <= MaxName \/ name = Fallback
    /\ \A i \in DOMAIN name : name[i] # "/"
    /\ \A i \in 2..Len(name) : ~(name[i - 1] = "_" /\ name[i] = "_")
    /\ name[1] \notin Punctuation
    /\ name[Len(name)] \in Punctuation => Len(name) = MaxName

Letters(text) == {i \in DOMAIN text : text[i] = "a"}

\* All letters and digits of an id the handler lets through are in its name
\* (they are of one class, so that it is enough to count them): it is never
\* cut off and never the fallback.
SafeName(id, name) ==
    /\ PathElement(name)
    /\ AcceptsId(id) => Cardinality(Letters(name)) = Cardinality(Letters(id))
=============================================================================
