------------------------- MODULE DeliberationRecord -------------------------
(***************************************************************************)
(* `make capture-deliberation` (court/capture.py): one reconciliation and  *)
(* one hearing in a disposable database schema, whose sanitized transcript *)
(* becomes a file.  The file is replayed later (court/replay.py) and       *)
(* checked before it is trusted (court/deliberation_check.py); between,    *)
(* people edit it, or save a replay in its place.                          *)
(***************************************************************************)
EXTENDS SemanticCourt

VARIABLES
  capture, \* the capture command: where it is, and why it ended
  scratch, \* its schema in the database
  file,    \* artifacts/replay/sanitized/certification-ready.deliberation.json
  touched  \* history: somebody other than the command wrote the file

recordVars == <<capture, scratch, file, touched>>

NoTranscript == [kind |-> "none"]
TornTranscript == [kind |-> "torn"]
Saved(t) == [kind |-> "whole", transcript |-> t]

-----------------------------------------------------------------------------
(* capture.py, replay.py, deliberation_check.py                            *)

\* sanitize_value redacts identifiers, not words that look like credentials.
Redacted(words) == IF words = "identifier" THEN "redacted" ELSE words

RedactedTurn(turn) == [turn EXCEPT !.voice.words = Redacted(@)]

\* Mutant: the digest of the words before they were redacted is kept.
RedactedUnsealed(t) == [t EXCEPT !.turns = [i \in DOMAIN @ |-> RedactedTurn(@[i])]]

SanitizeTranscript(t) ==
  Sealed([t EXCEPT !.turns = [i \in DOMAIN @ |-> RedactedTurn(@[i])]])

\* DeliberationReplayProvider.transcript.
Replayed(t) == [t EXCEPT !.mode = "replayed"]

SecretShaped(t) ==
  \E i \in DOMAIN t.turns : "keyword" \in {t.turns[i].voice.words, t.turns[i].voice.reason}

CourtRoles == {"orchestrator", "steward", "investigator", "skeptic", "authority"}
CaptureModes == {"live_captured", "deterministic_fallback"}

\* validate_deliberation_artifact.
Accepted(f) ==
  /\ f.kind = "whole"
  /\ LET t == f.transcript IN
       /\ ~SecretShaped(t)
       /\ CourtRoles \subseteq {t.turns[i].draft.role : i \in DOMAIN t.turns}
       /\ t.mode \in CaptureModes
       /\ t.digest = ContentDigest(t)

-----------------------------------------------------------------------------
(* capture_deliberation                                                    *)

RecordInit ==
  /\ capture = [pc |-> "idle", why |-> "none"]
  /\ scratch = "none"
  /\ file = NoTranscript
  /\ touched = FALSE

Ended == [capture EXCEPT !.pc = "ended"]
EndsFor(why) == capture' = [pc |-> "ended", why |-> why]
To(pc) == capture' = [capture EXCEPT !.pc = pc]

CreateSchema ==
  /\ capture.pc = "idle"
  /\ court = NoCourt /\ answer = NoAnswer
  /\ To("setup")
  /\ scratch' = "open"
  /\ UNCHANGED <<file, touched, courtVars>>

\* The tables, the provider and the narrator are made before the try: what
\* raises there leaves the schema.
SetUp ==
  /\ capture.pc = "setup"
  /\ To("run") \/ EndsFor("setup")
  /\ UNCHANGED <<scratch, file, touched, courtVars>>

\* runner.run: the case, or an error.
RunCase ==
  /\ capture.pc = "run"
  /\ \/ To("hearing")
     \/ capture' = [pc |-> "drop", why |-> "run"]
  /\ UNCHANGED <<scratch, file, touched, courtVars>>

\* Mutant: the schema is dropped only after a debate that was heard.
ConcludeHeard ==
  /\ capture.pc = "hearing"
  /\ answer # NoAnswer
  /\ IF answer.kind = "heard" THEN To("drop") ELSE EndsFor("hearing")
  /\ UNCHANGED <<scratch, file, touched, courtVars>>

\* The court sits for the command; its answer, or its error, ends the with.
Deliberate ==
  /\ capture.pc = "hearing"
  /\ answer = NoAnswer
  /\ CourtNext
  /\ UNCHANGED <<recordVars>>

Conclude ==
  /\ capture.pc = "hearing"
  /\ answer # NoAnswer
  /\ capture' = [pc |-> "drop", why |-> IF answer.kind = "heard" THEN "none" ELSE "hearing"]
  /\ UNCHANGED <<scratch, file, touched, courtVars>>

\* _fresh_runner's finally.
DropSchema ==
  /\ capture.pc = "drop"
  /\ \/ /\ scratch' = "none"
        /\ capture' = IF capture.why = "none" THEN [capture EXCEPT !.pc = "open"] ELSE Ended
     \/ /\ EndsFor("drop")
        /\ UNCHANGED scratch
  /\ UNCHANGED <<file, touched, courtVars>>

\* write_text: the file is emptied, then written.
OpenFile ==
  /\ capture.pc = "open"
  /\ To("write")
  /\ file' = TornTranscript
  /\ touched' = FALSE
  /\ UNCHANGED <<scratch, courtVars>>

WriteTranscript ==
  /\ capture.pc = "write"
  /\ To("ended")
  /\ file' = Saved(SanitizeTranscript(answer.transcript))
  /\ UNCHANGED <<scratch, touched, courtVars>>

\* The command is killed.
CaptureDies ==
  /\ capture.pc \notin {"idle", "ended"}
  /\ EndsFor("killed")
  /\ UNCHANGED <<scratch, file, touched, courtVars>>

\* Somebody edits the file, once or again: another sentence, a turn said to be
\* voiced otherwise, another outcome, another mode. The digest is left as it was.
EditFile ==
  /\ file.kind = "whole"
  /\ LET t == file.transcript
         turns == {1, Len(t.turns)} IN
     \/ \E i \in turns : file' = Saved([t EXCEPT !.turns[i].voice.words = "edited"])
     \/ \E i \in turns, g \in BOOLEAN :
          file' = Saved([t EXCEPT !.turns[i].voice.generated = g])
     \/ \E outcome \in {"proposal", "refusal", "no_action"} :
          file' = Saved([t EXCEPT !.outcome = outcome])
     \/ \E mode \in CaptureModes : file' = Saved([t EXCEPT !.mode = mode])
  /\ touched' = TRUE
  /\ UNCHANGED <<capture, scratch, courtVars>>

\* Somebody saves what was replayed as if it had been captured.
SaveReplay ==
  /\ file.kind = "whole"
  /\ file.transcript.mode # "replayed"
  /\ file' = [file EXCEPT !.transcript = Replayed(@)]
  /\ touched' = TRUE
  /\ UNCHANGED <<capture, scratch, courtVars>>

RecordNext ==
  \/ CreateSchema \/ SetUp \/ RunCase \/ Deliberate \/ Conclude \/ DropSchema
  \/ OpenFile \/ WriteTranscript \/ CaptureDies
  \/ EditFile \/ SaveReplay

-----------------------------------------------------------------------------
(* Properties                                                              *)

\* The capture, its schema and its file have their types.
RecordTypeOK ==
  /\ capture \in [pc: {"idle", "setup", "run", "hearing", "drop", "open", "write", "ended"},
                  why: {"none", "setup", "run", "hearing", "drop", "killed"}]
  /\ scratch \in {"none", "open"}
  /\ file.kind \in {"none", "torn", "whole"}
  /\ touched \in BOOLEAN

\* t is the debate h: what content_digest covers is the same, but for the words
\* that were redacted.
SameDebate(t, h) ==
  /\ t.verdict = h.verdict /\ t.outcome = h.outcome /\ t.owner = h.owner
  /\ t.evidence = h.evidence /\ t.trace = h.trace
  /\ DOMAIN t.turns = DOMAIN h.turns
  /\ \A i \in DOMAIN t.turns :
       /\ t.turns[i].no = h.turns[i].no /\ t.turns[i].draft = h.turns[i].draft
       /\ t.turns[i].voice.words = Redacted(h.turns[i].voice.words)

\* Its mode, its rounds and the voice of each turn are those of h.
SameProvenance(t, h) ==
  /\ t.mode = h.mode /\ t.rounds = h.rounds
  /\ \A i \in DOMAIN t.turns :
       /\ t.turns[i].voice.generated = h.turns[i].voice.generated
       /\ t.turns[i].voice.reason = h.turns[i].voice.reason

\* A file the check accepts has the verdict, the outcome, the turns and the words
\* of the debate that was heard, whoever edited it: an edit of those is refused, but
\* not one of mode or provenance.  What the command wrote itself is that debate with
\* its provenance, and is refused only for a secret-shaped word.  No file has an
\* identifier in its words.  A replay says it is one, with the same digest, and would
\* not be accepted as a capture.
ReplayKeepsTheRecord ==
  file.kind = "whole" =>
    LET t == file.transcript
        h == answer.transcript IN
    /\ Accepted(file) => SameDebate(t, h)
    /\ ~touched => /\ SameDebate(t, h) /\ SameProvenance(t, h)
                   /\ ~SecretShaped(t) => Accepted(file)
    /\ \A i \in DOMAIN t.turns : t.turns[i].voice.words # "identifier"
    /\ ~Accepted(Saved(Replayed(t)))
    /\ Replayed(t).digest = ContentDigest(Replayed(t)) <=> t.digest = ContentDigest(t)

\* However a capture ends, its schema is gone, unless making it ready or
\* dropping it failed or the command was killed; and the file is opened only
\* once the debate was heard and the schema dropped.
CaptureCleansUp ==
  /\ capture.pc = "ended" /\ scratch = "open" => capture.why \in {"setup", "drop", "killed"}
  /\ capture.pc \in {"open", "write"} => scratch = "none" /\ answer.kind = "heard"
  /\ file.kind # "none" => answer.kind = "heard" /\ scratch = "none"
=============================================================================
