-------------------------- MODULE EphemeralFixture ---------------------------
(***************************************************************************)
(* ephemeral_fixture of mkosi/private/secure_boot.py and of                *)
(* sysupdate_signing.py: a test's signer makes its keys in a scratch       *)
(* directory, signs with them, and removes them, whatever happens.         *)
(***************************************************************************)
EXTENDS Integers, Sequences, FiniteSets

CONSTANTS
    Fixtures    \* [keys: sequence of the keys to make, files: number of files to sign,
                \*  enrolls: whether enrollment files are written]
ASSUME FixturesAssumption == \A f \in Fixtures : f.keys \in Seq(STRING)

VARIABLES
    fixture,    \* the fixture that runs
    does,       \* what it does next, or how it ended
    made,       \* keys made so far
    signed,     \* files signed so far
    scratch,    \* the scratch directory: name to content, or removed
    written     \* the outputs: certificates, signed files, enrollment files

fixtureVars == <<fixture, does, made, signed, scratch, written>>

Removed == {}
Content(name, content) == [name |-> name, content |-> content]
\* A step of a tool that may fail: then the cleanup begins.
ToolFails == does' = "wipe after error" /\ UNCHANGED <<fixture, made, signed, scratch, written>>
\* What an earlier run left is removed first.
MakeScratch ==
    /\ does = "start"
    /\ \/ scratch' = Removed /\ does' = "keys"
       \/ does' = "no scratch" /\ UNCHANGED scratch
    /\ UNCHANGED <<fixture, made, signed, written>>
\* A tool may have written a key before it fails.
MakeKey ==
    /\ does = "keys" /\ made < Len(fixture.keys)
    /\ LET key == fixture.keys[made + 1]
       IN \/ /\ scratch' = scratch \cup {Content(key, "private")}
             /\ \/ made' = made + 1 /\ written' = written \cup {Content(key, "certificate")} /\ UNCHANGED does
                \/ does' = "wipe after error" /\ UNCHANGED <<made, written>>
             /\ UNCHANGED <<fixture, signed>>
          \/ ToolFails
KeysMade == /\ does = "keys" /\ made = Len(fixture.keys) /\ does' = "sign"
            /\ UNCHANGED <<fixture, made, signed, scratch, written>>
SignFile ==
    /\ does = "sign" /\ signed < fixture.files
    /\ \/ /\ signed' = signed + 1 /\ written' = written \cup {Content("file", "signed")}
          /\ UNCHANGED <<fixture, does, made, scratch>>
       \/ ToolFails
Enroll ==
    /\ does = "sign" /\ signed = fixture.files
    /\ \/ /\ written' = IF fixture.enrolls THEN written \cup {Content("auth", "signed")} ELSE written
          /\ does' = "wipe" /\ UNCHANGED <<fixture, made, signed, scratch>>
       \/ ToolFails
\* Finally: every key that exists is overwritten, in order, then the directory
\* is removed; an error of the removal is ignored, one of the former is not.
Keys == {fixture.keys[i] : i \in DOMAIN fixture.keys}
\* Mutant: only the keys that were finished are overwritten.
WipeMade == {fixture.keys[i] : i \in 1..made}
ToWipe == Keys
Exposed == {c \in scratch : c.content = "private" /\ c.name \in ToWipe}
Wiping == does \in {"wipe", "wipe after error"}
WipeKey ==
    /\ Wiping /\ Exposed # {}
    /\ \E c \in Exposed :
         \/ scratch' = (scratch \ {c}) \cup {Content(c.name, "zeros")} /\ UNCHANGED does
         \/ scratch' = (scratch \ {c}) \cup {Content(c.name, "truncated")} /\ does' = "cleanup failed"
    /\ UNCHANGED <<fixture, made, signed, written>>
RemoveScratch ==
    /\ Wiping /\ Exposed = {}
    /\ \/ scratch' = Removed
       \/ UNCHANGED scratch
    /\ does' = IF does = "wipe" THEN "done" ELSE "failed"
    /\ UNCHANGED <<fixture, made, signed, written>>

FixtureInit == /\ fixture \in Fixtures /\ does = "start" /\ made = 0 /\ signed = 0 /\ written = {}
               /\ scratch \in {{}, {Content("old", "private")}}
FixtureNext == MakeScratch \/ MakeKey \/ KeysMade \/ SignFile \/ Enroll \/ WipeKey \/ RemoveScratch

\* When a fixture has ended, whether it succeeded or not, no private key can be
\* read, neither in its scratch directory nor in its outputs; unless the disk
\* failed while a key was overwritten ("cleanup failed"), or what an earlier
\* attempt had left could not be cleared, when nothing was begun ("no scratch").
KeysAreGone == does \in {"done", "failed"} =>
    \A c \in scratch \cup written : c.content # "private"
=============================================================================
