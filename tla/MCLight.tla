-------------------------------- MODULE MCLight --------------------------------
(***************************************************************************)
(* One run looks at a light from two sides that share no variable: "move", *)
(* LightTransition, and "save", LightSave, whose levels are model values.    *)
(***************************************************************************)
EXTENDS LightTransition

CONSTANTS SaveTime, SaveLevels, Off, Full

VARIABLES part, durable, save, phase, ghost, timer, target, upMode, heard, blur

setting == <<durable, save, phase, ghost, timer, target, upMode, heard, blur>>

Saving == INSTANCE LightSave
  WITH Level <- SaveLevels, LEVEL_OFF <- Off, Defaults <- SaveLevels \ {Full}

ASSUME SavingAssumption == Saving!LightSaveAssumption

\* One step off the middle, the top, and off.
MCAsked == {LEVEL_OFF, -1, 1, Top}

\* The whole range and one that leaves out the middle.
MCRanges == {FullRange, [min |-> 1, max |-> Top - 1]}

OfMove(A) == part = "move" /\ A /\ UNCHANGED <<part, setting>>
OfSave(A) == part = "save" /\ A /\ UNCHANGED <<part, vars>>

MCInit ==
  /\ Init /\ Saving!Init
  /\ part \in {"move", "save"} /\ (part = "save" => trans.present = Top)

MCNext ==
  \/ part = "move" /\ Next /\ UNCHANGED <<part, setting>>
  \/ part = "save" /\ Saving!Next /\ UNCHANGED <<part, vars>>

all == <<part, vars, setting>>

MCSpec ==
  /\ MCInit /\ [][MCNext]_all
  /\ WF_all(OfMove(Ms)) /\ WF_all(OfMove(EndRun))
  /\ WF_all(OfSave(Saving!Tick)) /\ WF_all(OfSave(Saving!SaveProc))
  /\ WF_all(OfSave(Saving!StoreCommit)) /\ WF_all(OfSave(Saving!StoreReturn))
  /\ WF_all(OfSave(Saving!PowerOn))

\* Properties of LightSave.
SavedWhenIdle   == Saving!SavedWhenIdle
RestoresTarget  == Saving!RestoresTarget

\* Both sides, left alone, come to rest: the transition ends, and what was set
\* is in flash.
ComesToRest == Settles /\ (part = "save" => Saving!EventuallySaved)
================================================================================
