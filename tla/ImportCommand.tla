---------------------------- MODULE ImportCommand ----------------------------
(***************************************************************************)
(* One `bpbridge songs | text | spotify | interactive` command, from its   *)
(* flags to its exit status: where the rows come from, how the target      *)
(* playlist is resolved, who agrees to the write, and what is reported.    *)
(* The prompts and a source read from stdin share one input: a terminal,   *)
(* or a pipe that ends.  Engine.Run is the module Syncer; here it loads    *)
(* the target, settles the rows, creates and appends.                      *)
(***************************************************************************)
EXTENDS Integers, Sequences, FiniteSets

CONSTANTS
    Playlists,      \* IDs of Beatport playlists
    NoID,           \* no ID: the target is a playlist yet to be created
    Texts,          \* what may be given for a playlist: IDs, URLs, names
    NoText,
    IdOf,           \* parsePlaylistID: the ID a text is or holds, or NoID
    MaxRows,        \* bound: rows of the source
    MaxLines        \* bound: lines a pipe delivers before it ends

ASSUME NamesAssumption ==
    /\ NoID \notin Playlists /\ NoText \notin Texts
    /\ IdOf \in [Texts -> Playlists \cup {NoID}]
ASSUME BoundsAssumption == MaxRows \in Nat /\ MaxLines \in Nat

VARIABLES
    call,           \* flags, settings and input of the command
    left,           \* lines a pipe on stdin still holds
    cancelled,      \* the context: the user pressed Ctrl-C
    pc,
    tracks,         \* rows of the source
    reference, matching,    \* the text to resolve, the playlists so named
    target,
    settled, runErr,        \* Engine.Run: rows with an outcome, and its error
    out,            \* what stdout was given
    file,           \* rows in the report file, NotWritten while it is not this run's
    agreed,         \* history: the target the user said yes to
    written         \* history: the targets something was written to

inputs == <<call, left, cancelled>>
choice == <<reference, matching, target, agreed>>
result == <<settled, runErr, written>>
shown == <<out, file>>
vars == <<inputs, pc, tracks, choice, result, shown>>

NotWritten == -1
Ends == {"ok", "failed", "killed"}
Prompts == {"kind", "link", "paste", "target", "pick", "consent", "choice"}

Calls ==
    {c \in [source : {"given", "spotify", "stdin", "dialogue"}, terminal : BOOLEAN,
            new : BOOLEAN, playlist : Texts \cup {NoText},
            visibility : {"setting", "public", "private"}, publicSetting : BOOLEAN,
            dry : BOOLEAN, yes : BOOLEAN, json : BOOLEAN, nonInteractive : BOOLEAN,
            report : BOOLEAN] :
        ~(c.new /\ c.playlist # NoText)}

Existing(id) == [id |-> id, public |-> FALSE]
Public == call.visibility = "public" \/ (call.visibility = "setting" /\ call.publicSetting)
NewPlaylist == [id |-> NoID, public |-> Public]
NoTarget == [id |-> NoID, public |-> FALSE]

Targets == [id : Playlists \cup {NoID}, public : BOOLEAN]

Init ==
    /\ call \in Calls /\ left \in 0..MaxLines
    /\ cancelled = FALSE /\ pc = "source" /\ tracks = 0
    /\ reference = NoText /\ matching = {} /\ target = NoTarget /\ agreed = NoTarget
    /\ settled = 0 /\ runErr = FALSE /\ written = {}
    /\ out = <<>> /\ file = NotWritten

-----------------------------------------------------------------------------

Quiet == call.nonInteractive \/ call.json
CanPrompt == call.terminal /\ ~Quiet

(* One line of stdin: a pipe that has ended gives a blank for ever.        *)
Hear(blank) ==
    \/ call.terminal /\ UNCHANGED left
    \/ ~call.terminal /\ left > 0 /\ left' = left - 1
    \/ ~call.terminal /\ left = 0 /\ blank /\ UNCHANGED left

Goto(place) == pc' = place /\ UNCHANGED <<call, cancelled>>

(* A command that returns an error before the import has begun.            *)
Fail ==
    /\ Goto("failed")
    /\ UNCHANGED <<left, tracks, choice, result, shown>>

(* An empty source is refused, and so is one whose rows cannot be parsed.  *)
Loaded(number) ==
    /\ tracks' = number
    /\ Goto(IF number = 0 THEN "failed" ELSE "services")
    /\ UNCHANGED <<choice, result, shown>>

ReadGiven ==
    /\ pc = "source" /\ call.source = "given"
    /\ \/ Fail
       \/ \E number \in 0..MaxRows : Loaded(number) /\ UNCHANGED left

FetchSpotify ==
    /\ \/ pc = "source" /\ call.source = "spotify"
       \/ pc = "fetch"
    /\ \/ Fail
       \/ \E number \in 0..MaxRows : ~cancelled /\ Loaded(number) /\ UNCHANGED left

(* `text -` reads its rows up to the end of a pipe, or to Ctrl-D.          *)
ReadStdin ==
    /\ pc = "source" /\ call.source = "stdin"
    /\ \/ Fail
       \/ \E number \in 0..MaxRows :
             /\ IF call.terminal THEN UNCHANGED left ELSE number <= left /\ left' = 0
             /\ Loaded(number)

(* Mutant: the guided import talks whatever the flags say.                 *)
OpenDialogueAnyway ==
    /\ pc = "source" /\ call.source = "dialogue"
    /\ Goto("kind")
    /\ UNCHANGED <<left, tracks, choice, result, shown>>

OpenDialogue ==
    /\ pc = "source" /\ call.source = "dialogue"
    /\ Goto(IF Quiet THEN "failed" ELSE "kind")
    /\ UNCHANGED <<left, tracks, choice, result, shown>>

(* "Input type": a blank answer means text.                                *)
AnswerKind ==
    /\ pc = "kind"
    /\ \E next \in {"paste", "link", "failed"} : Hear(next = "paste") /\ Goto(next)
    /\ UNCHANGED <<tracks, choice, result, shown>>

AnswerLink ==
    /\ pc = "link"
    /\ \E next \in {"fetch", "failed"} : Hear(next = "failed") /\ Goto(next)
    /\ UNCHANGED <<tracks, choice, result, shown>>

(* The paste loop ends with a single "." or with the input.                *)
PasteLine ==
    /\ pc = "paste"
    /\ \/ tracks < MaxRows /\ tracks' = tracks + 1
       \/ UNCHANGED tracks       \* a comment
    /\ Hear(FALSE) /\ Goto("paste")
    /\ UNCHANGED <<choice, result, shown>>

EndPaste ==
    /\ pc = "paste"
    /\ \/ Hear(TRUE) /\ Loaded(tracks)
       \/ Hear(TRUE) /\ Goto("failed") /\ UNCHANGED <<tracks, choice, result, shown>>

(* loadConfig and beatportServices.                                        *)
OpenServices ==
    /\ pc = "services"
    /\ \/ Fail
       \/ Goto("resolve") /\ UNCHANGED <<left, tracks, choice, result, shown>>

-----------------------------------------------------------------------------
(* resolveTarget and approveMutation                                       *)

Choose(t) ==
    /\ target' = t /\ Goto("approve")
    /\ UNCHANGED <<tracks, agreed, result, shown>>

Refer(text) ==
    /\ reference' = text /\ UNCHANGED matching
    /\ IF IdOf[text] # NoID
       THEN Choose(Existing(IdOf[text]))
       ELSE Goto("list") /\ UNCHANGED <<tracks, target, agreed, result, shown>>

ResolveTarget ==
    /\ pc = "resolve"
    /\ UNCHANGED left
    /\ \/ call.new /\ Choose(NewPlaylist) /\ UNCHANGED <<reference, matching>>
       \/ call.playlist # NoText /\ call.visibility # "setting" /\ Fail
       \/ call.playlist # NoText /\ call.visibility = "setting" /\ Refer(call.playlist)
       \/ /\ ~call.new /\ call.playlist = NoText
          /\ Goto(IF CanPrompt THEN "target" ELSE "failed")
          /\ UNCHANGED <<tracks, choice, result, shown>>

(* Blank takes the default, "new:" and the source's name.                  *)
AnswerTarget ==
    /\ pc = "target"
    /\ \/ Hear(TRUE) /\ Choose(NewPlaylist) /\ UNCHANGED <<reference, matching>>
       \/ Hear(FALSE) /\ Goto("failed") /\ UNCHANGED <<tracks, choice, result, shown>>
       \/ \E text \in Texts : Hear(FALSE) /\ Refer(text)

(* A name is looked for among the user's playlists.                        *)
ListPlaylists ==
    /\ pc = "list" /\ UNCHANGED left
    /\ \/ Fail
       \/ ~cancelled /\ \E found \in SUBSET Playlists :
             /\ matching' = found /\ UNCHANGED reference
             /\ \/ \E id \in found : found = {id} /\ Choose(Existing(id))
                \/ /\ ~(\E id \in found : found = {id})
                   /\ Goto(IF found # {} /\ CanPrompt THEN "pick" ELSE "failed")
                   /\ UNCHANGED <<tracks, target, agreed, result, shown>>

Pick ==
    /\ pc = "pick" /\ UNCHANGED <<reference, matching>>
    /\ \/ \E id \in matching : Hear(FALSE) /\ Choose(Existing(id))
       \/ Hear(TRUE) /\ Goto("failed") /\ UNCHANGED <<tracks, target, agreed, result, shown>>

(* Mutant: no terminal, no question.                                       *)
ApproveUnasked ==
    /\ pc = "approve"
    /\ Goto(IF call.dry \/ call.yes \/ ~CanPrompt THEN "load" ELSE "consent")
    /\ UNCHANGED <<left, tracks, choice, result, shown>>

Approve ==
    /\ pc = "approve"
    /\ Goto(IF call.dry \/ call.yes THEN "load"
            ELSE IF CanPrompt THEN "consent" ELSE "failed")
    /\ UNCHANGED <<left, tracks, choice, result, shown>>

Consent ==
    /\ pc = "consent"
    /\ \/ Hear(FALSE) /\ agreed' = target /\ Goto("load")
       \/ Hear(TRUE) /\ Goto("failed") /\ UNCHANGED agreed
    /\ UNCHANGED <<tracks, reference, matching, target, result, shown>>

-----------------------------------------------------------------------------
(* Engine.Run                                                              *)

Return(error) ==
    /\ runErr' = error /\ Goto("report")
    /\ UNCHANGED <<left, tracks, choice>>

(* An existing target is read first; if that fails no row is looked at.    *)
LoadTarget ==
    /\ pc = "load"
    /\ \/ /\ target.id = NoID \/ ~cancelled
          /\ Goto("match") /\ UNCHANGED <<left, tracks, choice, result, shown>>
       \/ target.id # NoID /\ Return(TRUE) /\ UNCHANGED <<settled, written, shown>>

(* A line for every row; all of them are one word here.                    *)
Progress == IF call.json \/ out # <<>> THEN out ELSE <<"progress">>

SettleRow ==
    /\ settled' = settled + 1 /\ out' = Progress
    /\ Goto(IF settled + 1 = tracks THEN "plan" ELSE "match")
    /\ UNCHANGED <<tracks, choice, runErr, written, file>>

(* An ambiguous row is put to the user unless the command is quiet, on a   *)
(* pipe too.                                                               *)
MatchRow ==
    /\ pc = "match"
    /\ \/ SettleRow /\ UNCHANGED left
       \/ /\ ~Quiet /\ Goto("choice")
          /\ UNCHANGED <<left, tracks, choice, result, shown>>

(* Mutant: the dialogue insists on an answer.                              *)
AnswerChoiceInsists ==
    /\ pc = "choice"
    /\ \/ Hear(FALSE) /\ SettleRow
       \/ Hear(TRUE) /\ Goto("choice") /\ UNCHANGED <<tracks, choice, result, shown>>

(* An answer, or the end of the input, settles the row; anything else, a   *)
(* blank line included, asks again.                                        *)
AnswerChoice ==
    /\ pc = "choice"
    /\ \/ Hear(TRUE) /\ SettleRow
       \/ Hear(FALSE) /\ Goto("choice") /\ UNCHANGED <<tracks, choice, result, shown>>

(* A dry run ends here, and so does one with nothing to append.            *)
PlanWrites ==
    /\ pc = "plan"
    /\ \/ Return(FALSE) /\ UNCHANGED <<settled, written, shown>>
       \/ /\ ~call.dry
          /\ Goto(IF target.id = NoID THEN "create" ELSE "append")
          /\ UNCHANGED <<left, tracks, choice, result, shown>>

(* A playlist may exist although its creation was answered by an error.    *)
CreatePlaylist ==
    /\ pc = "create" /\ UNCHANGED settled
    /\ \/ /\ ~cancelled /\ written' = written \cup {target} /\ Goto("append")
          /\ UNCHANGED <<left, tracks, choice, runErr, shown>>
       \/ /\ \/ UNCHANGED written
             \/ ~cancelled /\ written' = written \cup {target}
          /\ Return(TRUE) /\ UNCHANGED shown

(* A failed append is a FAILED row, never an error of the run.             *)
AppendTracks ==
    /\ pc = "append" /\ UNCHANGED settled
    /\ \/ /\ ~cancelled /\ written' = written \cup {target} /\ Goto("append")
          /\ UNCHANGED <<left, tracks, choice, runErr, shown>>
       \/ Return(FALSE) /\ UNCHANGED <<written, shown>>

-----------------------------------------------------------------------------
(* the end of runImport                                                    *)

(* report.WriteFile replaces the file whole, or fails and leaves it.       *)
WriteReport ==
    /\ pc = "report" /\ UNCHANGED <<left, tracks, choice, result, out>>
    /\ \/ ~call.report /\ Goto("output") /\ UNCHANGED file
       \/ call.report /\ file' = settled /\ Goto("output")
       \/ call.report /\ Goto("failed") /\ UNCHANGED file

(* Mutant: only the JSON branch returns the engine's error.                *)
WriteOutputForgets ==
    /\ pc = "output" /\ UNCHANGED <<left, tracks, choice, result, file>>
    /\ \/ out' = Append(out, IF call.json THEN "json" ELSE "summary")
          /\ Goto(IF runErr /\ call.json THEN "failed" ELSE "ok")
       \/ call.json /\ out' = Append(out, "cut") /\ Goto("failed")

WriteOutput ==
    /\ pc = "output" /\ UNCHANGED <<left, tracks, choice, result, file>>
    /\ \/ out' = Append(out, IF call.json THEN "json" ELSE "summary")
          /\ Goto(IF runErr THEN "failed" ELSE "ok")
       \/ call.json /\ out' = Append(out, "cut") /\ Goto("failed")

(* Ctrl-C cancels the calls to the services; a prompt goes on waiting.     *)
Interrupt ==
    /\ ~cancelled /\ pc \notin Ends
    /\ cancelled' = TRUE
    /\ UNCHANGED <<call, left, pc, tracks, choice, result, shown>>

Kill ==
    /\ pc \notin Ends
    /\ pc' = "killed"
    /\ UNCHANGED <<inputs, tracks, choice, result, shown>>

SourceStep ==
    ReadGiven \/ FetchSpotify \/ ReadStdin \/ OpenDialogue \/ AnswerKind \/ AnswerLink
        \/ PasteLine \/ EndPaste \/ OpenServices

TargetStep ==
    ResolveTarget \/ AnswerTarget \/ ListPlaylists \/ Pick \/ Approve \/ Consent

EngineStep ==
    LoadTarget \/ MatchRow \/ AnswerChoice \/ PlanWrites \/ CreatePlaylist \/ AppendTracks

ReportStep == WriteReport \/ WriteOutput

Step == SourceStep \/ TargetStep \/ EngineStep \/ ReportStep

Next == Step \/ Interrupt \/ Kill

Spec == Init /\ [][Next]_vars

(* What waits for a person.                                                *)
Waiting == call.terminal /\ (pc \in Prompts \/ (pc = "source" /\ call.source = "stdin"))

ProgramStep == ~Waiting /\ Step

(* The program runs on, every call to a service ends (the clients have     *)
(* time limits), and whoever writes the pipe goes on writing or closes it. *)
(* Nothing is assumed of a user at a terminal.                             *)
FairSpec == Spec /\ WF_vars(ProgramStep)

-----------------------------------------------------------------------------
(* Properties                                                              *)

(* The playlist the command was asked for: a new one unless one was named, *)
(* and a named one by its ID, or as the only one of its name, or as the    *)
(* user's pick; public only if a flag, or the setting alone, says so.      *)
Asked(t) ==
    IF t.id = NoID
    THEN call.playlist = NoText /\ t.public = Public
    ELSE /\ ~call.new /\ ~t.public
         /\ reference \in Texts /\ call.playlist \in {NoText, reference}
         /\ IF IdOf[reference] # NoID THEN t.id = IdOf[reference]
            ELSE t.id \in matching /\ (CanPrompt \/ matching = {t.id})

(* resolveTarget, approveMutation and Engine.Run together: whatever was    *)
(* written to was asked for, was not a dry run's, and was agreed to, by    *)
(* --yes or by a user at a terminal who was shown this very playlist.      *)
WriteIsConsented ==
    \A t \in written :
        /\ Asked(t) /\ ~call.dry
        /\ call.yes \/ (CanPrompt /\ agreed = t)

(* resolveTarget, approveMutation, newInteractiveCommand and the resolver  *)
(* of the engine each decide for themselves whether to ask: under --json   *)
(* and --non-interactive none of them does, and a pipe is never asked for  *)
(* a playlist or for consent.                                              *)
QuietAsksNothing ==
    /\ Quiet => pc \notin Prompts
    /\ ~call.terminal => pc \notin {"target", "pick", "consent"}

(* The end of runImport: exit status 0 means that every row of the source  *)
(* has an outcome, that the report asked for holds all of them, and that   *)
(* stdout was given all it should, under --json the JSON and nothing else. *)
ExitZeroIsComplete ==
    /\ pc = "ok" => /\ settled = tracks /\ tracks > 0 /\ ~runErr
                    /\ call.report => file = tracks
                    /\ out = IF call.json THEN <<"json">> ELSE <<"progress", "summary">>
    /\ call.json => Len(out) <= 1

(* Every loop over stdin and every failure in between: the command ends,   *)
(* or a user at a terminal owes it an answer.                              *)
CommandEnds == <>(pc \in Ends) \/ <>[]Waiting

(* README.md: "Reports include every source row".                          *)
ReportHasEveryRow == file \in {NotWritten, tracks}

=============================================================================
