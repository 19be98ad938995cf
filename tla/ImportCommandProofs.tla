------------------------- MODULE ImportCommandProofs -------------------------
(***************************************************************************)
(* Proofs about ImportCommand, for every set of playlists and texts, every *)
(* way to read an ID out of a text, and every number of rows and lines.    *)
(***************************************************************************)
EXTENDS ImportCommand, TLAPS

(* Where the command is before its target is chosen, before consent is     *)
(* sought, and before anything is written.                                 *)
Early == {"source", "kind", "link", "fetch", "paste", "services", "resolve",
          "target", "list", "pick"}
Settling == {"load", "match", "choice", "plan"}
Writing == {"create", "append"}
Closing == {"report", "output"}

Places == Early \cup {"approve", "consent"} \cup Settling \cup Writing \cup Closing \cup Ends

-----------------------------------------------------------------------------
(* Consent                                                                 *)

TypeInv ==
    /\ call \in Calls
    /\ reference \in Texts \cup {NoText} /\ matching \subseteq Playlists
    /\ pc \in Places

(* What each place says of the way that led there.                         *)
WayInv ==
    /\ pc = "target" => ~call.new /\ call.playlist = NoText
    /\ pc \in {"list", "pick"} =>
          /\ ~call.new /\ reference \in Texts
          /\ call.playlist \in {NoText, reference} /\ IdOf[reference] = NoID
    /\ pc \in {"target", "pick", "consent"} => CanPrompt

Agreed(t) == call.yes \/ (CanPrompt /\ agreed = t)

(* Once chosen, the target is the one asked for; once consent was sought,  *)
(* it was given for this target, which is the only one written to.         *)
TargetInv ==
    /\ pc \in {"approve", "consent"} \cup Settling \cup Writing => Asked(target)
    /\ pc \in Settling \cup Writing => call.dry \/ Agreed(target)
    /\ pc \in Writing => ~call.dry
    /\ pc \in Early \cup {"approve", "consent"} \cup Settling => written = {}

ConsentInv == TypeInv /\ WayInv /\ TargetInv /\ WriteIsConsented

LEMMA ConsentInit == Init => ConsentInv
BY DEF Init, ConsentInv, TypeInv, WayInv, TargetInv, WriteIsConsented, Early, Settling,
       Writing, Closing, Places, Ends

(* What is asked for only depends on the flags and the resolution.         *)
LEMMA AskedStays ==
    ASSUME UNCHANGED <<call, reference, matching>>
    PROVE  \A t : Asked(t)' <=> Asked(t)
BY DEF Asked, CanPrompt, Quiet, Public

(* Reading the source leaves everything the invariant speaks of alone.     *)
LEMMA SourceKeepsConsent == ConsentInv /\ SourceStep => ConsentInv'
<1> SUFFICES ASSUME ConsentInv, SourceStep PROVE ConsentInv'
    OBVIOUS
<1> USE DEF choice, result, shown, inputs
<1>1. /\ pc \in {"source", "fetch", "kind", "link", "paste", "services"}
      /\ pc' \in {"failed", "fetch", "kind", "link", "paste", "services", "resolve"}
      /\ UNCHANGED <<call, reference, matching, target, agreed, written>>
    BY DEF SourceStep, ReadGiven, FetchSpotify, ReadStdin, OpenDialogue, AnswerKind,
           AnswerLink, PasteLine, EndPaste, OpenServices, Fail, Loaded, Goto
<1>2. written' = {}
    BY <1>1 DEF ConsentInv, TargetInv, Early
<1>3. TypeInv' /\ WayInv' /\ TargetInv'
    BY <1>1, <1>2 DEF ConsentInv, TypeInv, WayInv, TargetInv, Early, Settling, Writing,
                      Closing, Places, Ends
<1>4. WriteIsConsented'
    BY <1>2 DEF WriteIsConsented
<1> QED
    BY <1>3, <1>4 DEF ConsentInv

LEMMA TargetKeepsConsent == ConsentInv /\ TargetStep => ConsentInv'
<1> SUFFICES ASSUME ConsentInv, TargetStep PROVE ConsentInv'
    OBVIOUS
<1> USE NamesAssumption DEF choice, result, shown, inputs
<1>1. call' = call /\ written' = {} /\ written = {}
    BY DEF TargetStep, ResolveTarget, AnswerTarget, ListPlaylists, Pick, Approve, Consent,
           Fail, Goto, Choose, Refer, ConsentInv, TargetInv, Early
<1>2. WriteIsConsented'
    BY <1>1 DEF WriteIsConsented
<1>3. CanPrompt' = CanPrompt /\ Public' = Public
    BY <1>1 DEF CanPrompt, Quiet, Public
<1>4. call.playlist \in Texts \cup {NoText} /\ (call.new => call.playlist = NoText)
    BY DEF ConsentInv, TypeInv, Calls
<1>5. CASE ResolveTarget
  <2>1. TypeInv'
      BY <1>1, <1>4, <1>5 DEF ResolveTarget, Fail, Goto, Choose, Refer, ConsentInv, TypeInv,
         Early, Settling, Writing, Closing, Places, Ends
  <2>2. WayInv'
      BY <1>1, <1>3, <1>4, <1>5 DEF ResolveTarget, Fail, Goto, Choose, Refer, ConsentInv,
         WayInv
  <2>3. pc' = "approve" => Asked(target)'
      BY <1>1, <1>3, <1>4, <1>5 DEF ResolveTarget, Fail, Goto, Choose, Refer, Asked,
         NewPlaylist, Existing
  <2>4. pc' \in {"failed", "list", "target", "approve"}
      BY <1>5 DEF ResolveTarget, Fail, Goto, Choose, Refer
  <2>5. TargetInv'
      BY <1>1, <2>3, <2>4 DEF TargetInv, Settling, Writing
  <2> QED
      BY <1>2, <2>1, <2>2, <2>5 DEF ConsentInv
<1>6. CASE AnswerTarget
  <2>0. ~call.new /\ call.playlist = NoText
      BY <1>6 DEF AnswerTarget, ConsentInv, WayInv
  <2>1. TypeInv'
      BY <1>1, <1>6 DEF AnswerTarget, Goto, Choose, Refer, ConsentInv, TypeInv,
         Early, Settling, Writing, Closing, Places, Ends
  <2>2. WayInv'
      BY <1>1, <1>3, <1>6, <2>0 DEF AnswerTarget, Goto, Choose, Refer, ConsentInv, WayInv
  <2>3. pc' = "approve" => Asked(target)'
    <3> SUFFICES ASSUME pc' = "approve" PROVE Asked(target)'
        OBVIOUS
    <3>1. CASE target' = NewPlaylist
        BY <1>1, <1>3, <2>0, <3>1 DEF Asked, NewPlaylist
    <3>2. CASE \E text \in Texts : /\ reference' = text /\ IdOf[text] # NoID
                                   /\ target' = Existing(IdOf[text])
        BY <1>1, <2>0, <3>2 DEF Asked, Existing
    <3> QED
        BY <1>6, <3>1, <3>2 DEF AnswerTarget, Goto, Choose, Refer
  <2>4. pc' \in {"failed", "list", "approve"}
      BY <1>6 DEF AnswerTarget, Goto, Choose, Refer
  <2>5. TargetInv'
      BY <1>1, <2>3, <2>4 DEF TargetInv, Settling, Writing
  <2> QED
      BY <1>2, <2>1, <2>2, <2>5 DEF ConsentInv
<1>7. CASE ListPlaylists
  <2>0. /\ ~call.new /\ reference \in Texts
        /\ call.playlist \in {NoText, reference} /\ IdOf[reference] = NoID
      BY <1>7 DEF ListPlaylists, ConsentInv, WayInv
  <2>1. TypeInv'
      BY <1>1, <1>7 DEF ListPlaylists, Fail, Goto, Choose, ConsentInv, TypeInv,
         Early, Settling, Writing, Closing, Places, Ends
  <2>2. WayInv'
      BY <1>1, <1>3, <1>7, <2>0 DEF ListPlaylists, Fail, Goto, Choose, WayInv
  <2>3. pc' = "approve" => Asked(target)'
    <3> SUFFICES ASSUME pc' = "approve" PROVE Asked(target)'
        OBVIOUS
    <3>1. PICK id \in Playlists : matching' = {id} /\ target' = Existing(id)
        BY <1>7 DEF ListPlaylists, Fail, Goto, Choose
    <3>2. reference' = reference
        BY <1>7 DEF ListPlaylists, Fail
    <3> QED
        BY <1>1, <2>0, <3>1, <3>2 DEF Asked, Existing
  <2>4. pc' \in {"failed", "pick", "approve"}
      BY <1>7 DEF ListPlaylists, Fail, Goto, Choose
  <2>5. TargetInv'
      BY <1>1, <2>3, <2>4 DEF TargetInv, Settling, Writing
  <2> QED
      BY <1>2, <2>1, <2>2, <2>5 DEF ConsentInv
<1>8. CASE Pick
  <2>0. /\ ~call.new /\ reference \in Texts /\ CanPrompt
        /\ call.playlist \in {NoText, reference} /\ IdOf[reference] = NoID
        /\ matching \subseteq Playlists
      BY <1>8 DEF Pick, ConsentInv, WayInv, TypeInv
  <2>1. TypeInv'
      BY <1>1, <1>8 DEF Pick, Goto, Choose, ConsentInv, TypeInv,
         Early, Settling, Writing, Closing, Places, Ends
  <2>2. WayInv'
      BY <1>1, <1>3, <1>8 DEF Pick, Goto, Choose, WayInv
  <2>3. pc' = "approve" => Asked(target)'
    <3> SUFFICES ASSUME pc' = "approve" PROVE Asked(target)'
        OBVIOUS
    <3>1. PICK id \in matching : target' = Existing(id)
        BY <1>8 DEF Pick, Goto, Choose
    <3>2. matching' = matching /\ reference' = reference
        BY <1>8 DEF Pick
    <3> QED
        BY <1>1, <1>3, <2>0, <3>1, <3>2 DEF Asked, Existing
  <2>4. pc' \in {"failed", "approve"}
      BY <1>8 DEF Pick, Goto, Choose
  <2>5. TargetInv'
      BY <1>1, <2>3, <2>4 DEF TargetInv, Settling, Writing
  <2> QED
      BY <1>2, <2>1, <2>2, <2>5 DEF ConsentInv
<1>9. CASE Approve \/ Consent
  <2>1. UNCHANGED <<call, reference, matching, target>>
      BY <1>9 DEF Approve, Consent, Goto
  <2>2. /\ pc \in {"approve", "consent"} /\ pc' \in {"load", "consent", "failed"}
        /\ pc' = "consent" => CanPrompt
        /\ pc' = "load" => call.dry \/ call.yes \/ (CanPrompt /\ agreed' = target)
      BY <1>9 DEF Approve, Consent, Goto, ConsentInv, WayInv
  <2>3. Asked(target)'
      BY <2>1, <2>2, AskedStays DEF ConsentInv, TargetInv
  <2>4. TypeInv'
      BY <2>1, <2>2 DEF ConsentInv, TypeInv, Early, Settling, Writing, Closing, Places, Ends
  <2>5. WayInv'
      BY <1>3, <2>2 DEF WayInv
  <2>6. TargetInv'
      BY <1>1, <1>3, <2>1, <2>2, <2>3 DEF TargetInv, Agreed, Early, Settling, Writing
  <2> QED
      BY <1>2, <2>4, <2>5, <2>6 DEF ConsentInv
<1> QED
    BY <1>5, <1>6, <1>7, <1>8, <1>9 DEF TargetStep

(* The rest of the command never touches the choice; it writes only to the *)
(* target, and only where TargetInv says that it was agreed to.            *)
LEMMA LaterKeepsConsent == ConsentInv /\ (EngineStep \/ ReportStep) => ConsentInv'
<1> SUFFICES ASSUME ConsentInv, EngineStep \/ ReportStep PROVE ConsentInv'
    OBVIOUS
<1> USE DEF choice, result, shown, inputs
<1>1. UNCHANGED <<call, reference, matching, target, agreed>>
    BY DEF EngineStep, ReportStep, LoadTarget, MatchRow, AnswerChoice, PlanWrites,
           CreatePlaylist, AppendTracks, WriteReport, WriteOutput, SettleRow, Return, Goto
<1>2. CanPrompt' = CanPrompt
    BY <1>1 DEF CanPrompt, Quiet
<1>3. /\ pc \in Settling \cup Writing \cup Closing
      /\ pc' \in Settling \cup Writing \cup Closing \cup Ends
      /\ pc' \in Settling => pc \in Settling
      /\ pc' \in Writing => pc \in Writing \/ (pc \in Settling /\ ~call.dry)
    BY DEF EngineStep, ReportStep, LoadTarget, MatchRow, AnswerChoice, PlanWrites,
           CreatePlaylist, AppendTracks, WriteReport, WriteOutput, SettleRow, Return, Goto,
           Settling, Writing, Closing, Ends
<1>4. \/ written' = written
      \/ pc \in Writing /\ written' = written \cup {target}
    BY DEF EngineStep, ReportStep, LoadTarget, MatchRow, AnswerChoice, PlanWrites,
           CreatePlaylist, AppendTracks, WriteReport, WriteOutput, SettleRow, Return,
           Writing
<1>5. \A t : (Asked(t)' <=> Asked(t)) /\ (Agreed(t)' <=> Agreed(t))
    BY <1>1, <1>2, AskedStays DEF Agreed
<1>6. TypeInv'
    BY <1>1, <1>3 DEF ConsentInv, TypeInv, Places
<1>7. WayInv'
    BY <1>3 DEF WayInv, Settling, Writing, Closing, Ends
<1>8. TargetInv'
  <2>1. pc' \notin Early \cup {"approve", "consent"}
      BY <1>3 DEF Early, Settling, Writing, Closing, Ends
  <2>2. pc' \in Settling => written' = {}
      BY <1>3, <1>4 DEF ConsentInv, TargetInv, Settling, Writing
  <2>3. pc' \in Settling \cup Writing => Asked(target)' /\ (call'.dry \/ Agreed(target)')
      BY <1>1, <1>3, <1>5 DEF ConsentInv, TargetInv
  <2>4. pc' \in Writing => ~call'.dry
      BY <1>1, <1>3 DEF ConsentInv, TargetInv
  <2> QED
      BY <1>1, <2>1, <2>2, <2>3, <2>4 DEF TargetInv
<1>9. WriteIsConsented'
  <2> SUFFICES ASSUME NEW t \in written' PROVE Asked(t)' /\ ~call'.dry /\ Agreed(t)'
      BY DEF WriteIsConsented, Agreed
  <2>1. CASE t \in written
      BY <1>1, <1>5, <2>1 DEF ConsentInv, WriteIsConsented, Agreed
  <2>2. CASE t = target /\ pc \in Writing
      BY <1>1, <1>5, <2>2 DEF ConsentInv, TargetInv
  <2> QED
      BY <1>4, <2>1, <2>2
<1> QED
    BY <1>6, <1>7, <1>8, <1>9 DEF ConsentInv

LEMMA ConsentNext == ConsentInv /\ [Next]_vars => ConsentInv'
<1> SUFFICES ASSUME ConsentInv, [Next]_vars PROVE ConsentInv'
    OBVIOUS
<1>1. CASE Step
    BY <1>1, SourceKeepsConsent, TargetKeepsConsent, LaterKeepsConsent DEF Step
<1>2. CASE Interrupt \/ Kill \/ UNCHANGED vars
  <2>1. /\ UNCHANGED <<call, reference, matching, target, agreed, written>>
        /\ pc' = pc \/ pc' = "killed"
      BY <1>2 DEF Interrupt, Kill, vars, choice, result, inputs
  <2>2. \A t : (Asked(t)' <=> Asked(t)) /\ (Agreed(t)' <=> Agreed(t))
      BY <2>1, AskedStays DEF Agreed, CanPrompt, Quiet
  <2>3. TypeInv' /\ WayInv'
      BY <2>1 DEF ConsentInv, TypeInv, WayInv, Places, Ends, CanPrompt, Quiet
  <2>4. TargetInv'
      BY <2>1, <2>2 DEF ConsentInv, TargetInv, Early, Settling, Writing
  <2>5. WriteIsConsented'
      BY <2>1, <2>2 DEF ConsentInv, WriteIsConsented, Agreed
  <2> QED
      BY <2>3, <2>4, <2>5 DEF ConsentInv
<1> QED
    BY <1>1, <1>2 DEF Next

(* resolveTarget, approveMutation and Engine.Run: nothing is written that  *)
(* was not asked for and agreed to.                                        *)
THEOREM NothingWithoutConsent == Spec => []WriteIsConsented
<1>1. ConsentInv => WriteIsConsented
    BY DEF ConsentInv
<1> QED
    BY <1>1, ConsentInit, ConsentNext, PTL DEF Spec

-----------------------------------------------------------------------------
(* Silence                                                                 *)

(* Every place that waits for an answer is reached past the test that the  *)
(* command may ask.                                                        *)
SilenceInv ==
    /\ pc \in Prompts => ~Quiet
    /\ pc \in {"target", "pick", "consent"} => CanPrompt

LEMMA SilenceNext == SilenceInv /\ [Next]_vars => SilenceInv'
<1> SUFFICES ASSUME SilenceInv, [Next]_vars PROVE SilenceInv'
    OBVIOUS
<1> USE DEF choice, result, shown, inputs
<1>0. call' = call
    BY DEF Next, Step, SourceStep, TargetStep, EngineStep, ReportStep, ReadGiven,
       FetchSpotify, ReadStdin, OpenDialogue, AnswerKind, AnswerLink, PasteLine, EndPaste,
       OpenServices, ResolveTarget, AnswerTarget, ListPlaylists, Pick, Approve, Consent,
       LoadTarget, MatchRow, AnswerChoice, PlanWrites, CreatePlaylist, AppendTracks,
       WriteReport, WriteOutput, Interrupt, Kill, Fail, Loaded, Goto, Choose, Refer,
       SettleRow, Return, vars
<1>1. (Quiet' <=> Quiet) /\ (CanPrompt' <=> CanPrompt) /\ (CanPrompt => ~Quiet)
    BY <1>0 DEF Quiet, CanPrompt
<1>2. CASE SourceStep
    BY <1>1, <1>2 DEF SilenceInv, Prompts, SourceStep, ReadGiven, FetchSpotify, ReadStdin,
       OpenDialogue, AnswerKind, AnswerLink, PasteLine, EndPaste, OpenServices, Fail,
       Loaded, Goto
<1>3. CASE TargetStep
    BY <1>1, <1>3 DEF SilenceInv, Prompts, TargetStep, ResolveTarget, AnswerTarget,
       ListPlaylists, Pick, Approve, Consent, Fail, Goto, Choose, Refer
<1>4. CASE EngineStep \/ ReportStep
    BY <1>1, <1>4 DEF SilenceInv, Prompts, EngineStep, ReportStep, LoadTarget, MatchRow,
       AnswerChoice, PlanWrites, CreatePlaylist, AppendTracks, WriteReport, WriteOutput,
       SettleRow, Return, Goto
<1>5. CASE Interrupt \/ Kill \/ UNCHANGED vars
    BY <1>1, <1>5 DEF SilenceInv, Prompts, Interrupt, Kill, vars
<1> QED
    BY <1>2, <1>3, <1>4, <1>5 DEF Next, Step

(* Of canPrompt and the flags: quiet commands never wait at a prompt, and  *)
(* a pipe is never asked for a playlist or for consent.                    *)
THEOREM QuietNeverAsks == Spec => []QuietAsksNothing
<1>1. Init => SilenceInv
    BY DEF Init, SilenceInv, Prompts
<1>2. SilenceInv => QuietAsksNothing
    BY DEF SilenceInv, QuietAsksNothing, CanPrompt
<1> QED
    BY <1>1, <1>2, SilenceNext, PTL DEF Spec

-----------------------------------------------------------------------------
(* Completeness                                                            *)

Before == {"approve", "consent", "load"}
Settled == {"plan", "create", "append"}

Lines == IF call.json THEN <<>> ELSE <<"progress">>

(* How far the rows, the report and stdout are at each place.              *)
RowsInv ==
    /\ tracks \in Nat /\ settled \in Nat /\ runErr \in BOOLEAN
    /\ pc \in Early \cup Before => settled = 0 /\ ~runErr
    /\ pc \in {"services", "resolve", "target", "list", "pick"} \cup Before => tracks > 0
    /\ pc \in {"match", "choice"} => settled < tracks /\ ~runErr
    /\ pc \in Settled => settled = tracks /\ tracks > 0 /\ ~runErr
    /\ pc \in Closing => runErr \/ (settled = tracks /\ tracks > 0)

OutInv ==
    /\ pc \in Early \cup Before => out = <<>>
    /\ pc \in {"match", "choice"} => out = IF settled = 0 THEN <<>> ELSE Lines
    /\ pc \in Settled => out = Lines
    /\ pc \in Closing => out = Lines \/ (runErr /\ out = <<>>)

FileInv == pc = "output" => (call.report => file = settled)

CompleteInv == RowsInv /\ OutInv /\ FileInv /\ ExitZeroIsComplete /\ call \in Calls /\ pc \in Places

LEMMA CompleteInit == Init => CompleteInv
<1> SUFFICES ASSUME Init PROVE CompleteInv
    OBVIOUS
<1>1. RowsInv /\ OutInv /\ FileInv
    BY DEF Init, RowsInv, OutInv, FileInv, Early, Before, Settled, Closing
<1>2. ExitZeroIsComplete
  <2>1. Len(<<>>) <= 1
      OBVIOUS
  <2> QED
      BY <2>1, Zenon DEF Init, ExitZeroIsComplete
<1> QED
    BY <1>1, <1>2 DEF Init, CompleteInv, Places, Early

(* Up to the engine no row is settled and nothing is shown.                *)
LEMMA EarlyKeepsComplete == CompleteInv /\ (SourceStep \/ TargetStep) => CompleteInv'
<1> SUFFICES ASSUME CompleteInv, SourceStep \/ TargetStep PROVE CompleteInv'
    OBVIOUS
<1> USE DEF choice, result, shown, inputs
<1>1. /\ UNCHANGED <<call, settled, runErr, out, file>>
      /\ pc \in Early \cup Before
    BY DEF SourceStep, TargetStep, ReadGiven, FetchSpotify, ReadStdin, OpenDialogue,
       AnswerKind, AnswerLink, PasteLine, EndPaste, OpenServices, ResolveTarget,
       AnswerTarget, ListPlaylists, Pick, Approve, Consent, Fail, Loaded, Goto, Choose,
       Refer, Early, Before
<1>2. CASE SourceStep
  <2>1. pc' \in Early \cup {"failed"}
      BY <1>2 DEF SourceStep, ReadGiven, FetchSpotify, ReadStdin, OpenDialogue, AnswerKind,
         AnswerLink, PasteLine, EndPaste, OpenServices, Fail, Loaded, Goto, Early
  <2>2. tracks' \in Nat
    <3>1. tracks \in Nat
        BY DEF CompleteInv, RowsInv
    <3>2. \/ tracks' \in {tracks, tracks + 1}
          \/ \E number \in 0..MaxRows : tracks' = number
        BY <1>2 DEF SourceStep, ReadGiven, FetchSpotify, ReadStdin, OpenDialogue,
           AnswerKind, AnswerLink, PasteLine, EndPaste, OpenServices, Fail, Loaded
    <3> QED
        BY <3>1, <3>2, BoundsAssumption
  <2>3. pc' \in {"services", "resolve", "target", "list", "pick"} => tracks' # 0
    <3>1. ASSUME NEW number, Loaded(number), pc' # "failed" PROVE tracks' # 0
        BY <3>1 DEF Loaded, Goto
    <3>2. OpenServices => tracks' = tracks /\ tracks # 0
        BY DEF OpenServices, Fail, Goto, CompleteInv, RowsInv
    <3> QED
        BY <1>2, <3>1, <3>2 DEF SourceStep, ReadGiven, FetchSpotify, ReadStdin,
           OpenDialogue, AnswerKind, AnswerLink, PasteLine, EndPaste, Fail, Goto
  <2>4. RowsInv' /\ OutInv' /\ FileInv' /\ pc' \in Places
      BY <1>1, <2>1, <2>2, <2>3 DEF CompleteInv, RowsInv, OutInv, FileInv, Early, Before,
         Settled, Closing, Places, Ends
  <2>5. ExitZeroIsComplete'
      BY <1>1, <2>1 DEF CompleteInv, ExitZeroIsComplete, Early
  <2> QED
      BY <1>1, <2>4, <2>5 DEF CompleteInv
<1>3. CASE TargetStep
  <2>1. /\ pc \in {"resolve", "target", "list", "pick", "approve", "consent"}
        /\ pc' \in {"target", "list", "pick", "failed"} \cup Before
        /\ tracks' = tracks
      BY <1>3 DEF TargetStep, ResolveTarget, AnswerTarget, ListPlaylists, Pick, Approve,
         Consent, Fail, Goto, Choose, Refer, Before
  <2>2. RowsInv' /\ OutInv' /\ FileInv' /\ pc' \in Places
      BY <1>1, <2>1 DEF CompleteInv, RowsInv, OutInv, FileInv, Early, Before,
         Settled, Closing, Places, Ends, Settling
  <2>3. ExitZeroIsComplete'
      BY <1>1, <2>1 DEF CompleteInv, ExitZeroIsComplete, Before
  <2> QED
      BY <1>1, <2>2, <2>3 DEF CompleteInv
<1> QED
    BY <1>2, <1>3

(* The engine settles the rows one by one, or returns early with an error. *)
LEMMA EngineKeepsComplete == CompleteInv /\ EngineStep => CompleteInv'
<1> SUFFICES ASSUME CompleteInv, EngineStep PROVE CompleteInv'
    OBVIOUS
<1> USE DEF choice, result, shown, inputs
<1>1. /\ UNCHANGED <<call, tracks, file>>
      /\ pc \in {"load", "match", "choice", "plan", "create", "append"}
      /\ pc' \in {"match", "choice", "plan", "create", "append", "report"}
    BY DEF EngineStep, LoadTarget, MatchRow, AnswerChoice, PlanWrites, CreatePlaylist,
           AppendTracks, SettleRow, Return, Goto
<1>2. Lines' = Lines /\ (Lines = <<>> \/ Lines = <<"progress">>)
    BY <1>1 DEF Lines
<1>3. CASE SettleRow /\ pc \in {"match", "choice"}
  <2>1. settled < tracks /\ settled \in Nat /\ tracks \in Nat /\ runErr = FALSE
      BY <1>3 DEF CompleteInv, RowsInv
  <2>2. /\ settled' = settled + 1 /\ runErr' = runErr
        /\ pc' = IF settled + 1 = tracks THEN "plan" ELSE "match"
      BY <1>3 DEF SettleRow, Goto
  <2>3. RowsInv'
    <3>1. runErr' \in BOOLEAN /\ ~runErr'
        BY <2>1, <2>2
    <3>2. /\ settled' \in Nat /\ tracks' \in Nat /\ tracks' > 0
          /\ pc' = "match" => settled' < tracks'
          /\ pc' = "plan" => settled' = tracks'
          /\ pc' \in {"plan", "match"}
        BY <1>1, <2>1, <2>2
    <3> QED
        BY <3>1, <3>2 DEF RowsInv, Early, Before, Settled, Closing
  <2>4. out' = Lines /\ (call.json => out = <<>>)
    <3>1. out = <<>> \/ out = Lines
        BY <1>3 DEF CompleteInv, OutInv
    <3> QED
        BY <1>3, <3>1 DEF SettleRow, Progress, Lines
  <2>5. OutInv'
      BY <1>2, <2>1, <2>2, <2>4 DEF OutInv, Early, Before, Settled, Closing
  <2>6. ExitZeroIsComplete'
      BY <1>1, <2>2, <2>4 DEF CompleteInv, ExitZeroIsComplete, Lines
  <2>7. FileInv' /\ pc' \in Places
      BY <2>2 DEF FileInv, Places, Settling
  <2> QED
      BY <1>1, <2>3, <2>5, <2>6, <2>7 DEF CompleteInv
<1>4. CASE UNCHANGED <<settled, runErr, out>>
  <2>1. \/ pc = "load" /\ pc' = "match"
        \/ pc \in {"match", "choice"} /\ pc' = "choice"
        \/ pc \in Settled /\ pc' \in {"create", "append", "report"}
        \/ runErr /\ pc' = "report"
        \/ SettleRow /\ pc \in {"match", "choice"}
      BY <1>4 DEF EngineStep, LoadTarget, MatchRow, AnswerChoice, PlanWrites,
         CreatePlaylist, AppendTracks, Return, Goto, Settled
  <2>2. CASE SettleRow /\ pc \in {"match", "choice"}
      BY <1>3, <2>2
  <2>3. CASE ~(SettleRow /\ pc \in {"match", "choice"})
    <3>1. RowsInv'
        BY <1>1, <1>4, <2>1, <2>3 DEF CompleteInv, RowsInv, Early, Before, Settled, Closing
    <3>2. pc = "load" => out = <<>> /\ settled = 0 /\ ~runErr
        BY DEF CompleteInv, OutInv, RowsInv, Before
    <3>3. pc \in {"match", "choice"} => ~runErr
        BY DEF CompleteInv, RowsInv
    <3>4. OutInv'
        BY <1>1, <1>2, <1>4, <2>1, <2>3, <3>2, <3>3 DEF CompleteInv, OutInv, RowsInv,
           Early, Before, Settled, Closing
    <3>5. ExitZeroIsComplete'
        BY <1>1, <1>4 DEF CompleteInv, ExitZeroIsComplete
    <3>6. FileInv' /\ pc' \in Places
        BY <1>1 DEF FileInv, Places, Settling, Writing, Closing
    <3> QED
        BY <1>1, <3>1, <3>4, <3>5, <3>6 DEF CompleteInv
  <2> QED
      BY <2>2, <2>3
<1>5. CASE UNCHANGED <<settled, out>> /\ runErr' /\ pc' = "report"
  <2>1. out = <<>> \/ out = Lines
      BY <1>1 DEF CompleteInv, OutInv, Early, Before, Settled
  <2>2. RowsInv' /\ OutInv' /\ FileInv' /\ pc' \in Places
      BY <1>1, <1>2, <1>5, <2>1 DEF CompleteInv, RowsInv, OutInv, FileInv, Early, Before,
         Settled, Closing, Places
  <2>3. ExitZeroIsComplete'
      BY <1>1, <1>5 DEF CompleteInv, ExitZeroIsComplete
  <2> QED
      BY <1>1, <2>2, <2>3 DEF CompleteInv
<1>6. pc \in {"plan", "create", "append"} => runErr = FALSE
    BY DEF CompleteInv, RowsInv, Settled
<1>7. \/ SettleRow /\ pc \in {"match", "choice"}
      \/ UNCHANGED <<settled, runErr, out>>
      \/ UNCHANGED <<settled, out>> /\ runErr' /\ pc' = "report"
  <2>1. CASE LoadTarget
      BY <2>1, Zenon DEF LoadTarget, Return, Goto
  <2>2. CASE MatchRow \/ AnswerChoice
      BY <2>2, Zenon DEF MatchRow, AnswerChoice
  <2>3. CASE PlanWrites
      BY <1>6, <2>3, Zenon DEF PlanWrites, Return, Goto
  <2>4. CASE CreatePlaylist
      BY <2>4, Zenon DEF CreatePlaylist, Return, Goto
  <2>5. CASE AppendTracks
      BY <1>6, <2>5, Zenon DEF AppendTracks, Return, Goto
  <2> QED
      BY <2>1, <2>2, <2>3, <2>4, <2>5 DEF EngineStep
<1> QED
    BY <1>3, <1>4, <1>5, <1>7

LEMMA ReportKeepsComplete == CompleteInv /\ ReportStep => CompleteInv'
<1> SUFFICES ASSUME CompleteInv, ReportStep PROVE CompleteInv'
    OBVIOUS
<1> USE DEF choice, result, shown, inputs
<1>1. UNCHANGED <<call, tracks, settled, runErr>> /\ pc \in Closing
    BY DEF ReportStep, WriteReport, WriteOutput, Goto, Closing
<1>2. /\ runErr \/ (settled = tracks /\ tracks > 0 /\ out = Lines)
      /\ call.json => out = <<>>
      /\ out = <<>> \/ out = <<"progress">>
    BY <1>1 DEF CompleteInv, RowsInv, OutInv, Lines
<1>3. CASE WriteReport
  <2>1. out' = out /\ pc' \in {"output", "failed"}
      BY <1>3 DEF WriteReport, Goto
  <2>2. pc' = "output" => (call.report => file' = settled)
      BY <1>3 DEF WriteReport, Goto
  <2>3. RowsInv' /\ OutInv' /\ FileInv' /\ pc' \in Places
      BY <1>1, <2>1, <2>2 DEF CompleteInv, RowsInv, OutInv, FileInv, Lines, Early, Before,
         Settled, Closing, Places, Ends
  <2>4. ExitZeroIsComplete'
      BY <1>1, <2>1 DEF CompleteInv, ExitZeroIsComplete
  <2> QED
      BY <1>1, <2>3, <2>4 DEF CompleteInv
<1>4. CASE WriteOutput
  <2>1. /\ file' = file /\ pc' \in {"ok", "failed"} /\ pc = "output"
        /\ pc' = "ok" => ~runErr
      BY <1>4 DEF WriteOutput, Goto
  <2>2. /\ call.json => out' = <<"json">> \/ out' = <<"cut">>
        /\ pc' = "ok" => out' = Append(out, IF call.json THEN "json" ELSE "summary")
      BY <1>2, <1>4 DEF WriteOutput, Goto
  <2>3. RowsInv' /\ OutInv' /\ FileInv' /\ pc' \in Places
      BY <1>1, <2>1 DEF CompleteInv, RowsInv, OutInv, FileInv, Early, Before,
         Settled, Closing, Places, Ends
  <2>4. pc' = "ok" => out' = IF call.json THEN <<"json">> ELSE <<"progress", "summary">>
      BY <1>2, <2>1, <2>2 DEF Lines
  <2>5. call.report /\ pc = "output" => file = settled
      BY DEF CompleteInv, FileInv
  <2>6. call.json => Len(out') <= 1
    <3>1. Len(<<"json">>) = 1 /\ Len(<<"cut">>) = 1
        OBVIOUS
    <3>2. call.json => Len(out') = 1
        BY <2>2, <3>1, Zenon
    <3>3. 1 <= 1
        OBVIOUS
    <3> QED
        BY <3>2, <3>3, Zenon
  <2>7. ExitZeroIsComplete'
      BY <1>1, <1>2, <2>1, <2>4, <2>5, <2>6 DEF ExitZeroIsComplete
  <2> QED
      BY <1>1, <2>3, <2>7 DEF CompleteInv
<1> QED
    BY <1>3, <1>4 DEF ReportStep

LEMMA CompleteNext == CompleteInv /\ [Next]_vars => CompleteInv'
<1> SUFFICES ASSUME CompleteInv, [Next]_vars PROVE CompleteInv'
    OBVIOUS
<1>1. CASE Step
    BY <1>1, EarlyKeepsComplete, EngineKeepsComplete, ReportKeepsComplete DEF Step
<1>2. CASE Interrupt \/ Kill \/ UNCHANGED vars
  <2>1. /\ UNCHANGED <<call, tracks, settled, runErr, out, file>>
        /\ pc' = pc \/ pc' = "killed"
      BY <1>2 DEF Interrupt, Kill, vars, choice, result, shown, inputs
  <2>2. RowsInv' /\ OutInv' /\ FileInv' /\ pc' \in Places
      BY <2>1 DEF CompleteInv, RowsInv, OutInv, FileInv, Lines, Early, Before,
         Settled, Closing, Places, Ends
  <2>3. ExitZeroIsComplete'
      BY <2>1 DEF CompleteInv, ExitZeroIsComplete
  <2> QED
      BY <2>1, <2>2, <2>3 DEF CompleteInv
<1> QED
    BY <1>1, <1>2 DEF Next

(* The end of runImport: exit status 0 means settled, reported and shown.  *)
THEOREM ExitZeroMeansDone == Spec => []ExitZeroIsComplete
<1>1. CompleteInv => ExitZeroIsComplete
    BY DEF CompleteInv
<1> QED
    BY <1>1, CompleteInit, CompleteNext, PTL DEF Spec

=============================================================================
