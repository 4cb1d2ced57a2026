------------------------------- MODULE Events -------------------------------
(***************************************************************************)
(* Event sinks and their dispatch (events.c).                              *)
(*                                                                         *)
(* A callback may add sinks, remove any sink, also its own, and fire       *)
(* another event, so dispatches nest: stack is the C stack of calls of     *)
(* events_fire.  A removed sink is freed when no call is left that may     *)
(* stand on it.  A sink is added at the tail with the next generation, so  *)
(* the order of the list is that of the generations and the list is a set. *)
(***************************************************************************)
EXTENDS Naturals, Sequences

CONSTANTS Sinks,        \* sinks, each a piece of memory that may be used again
          NoSink,       \* the NULL at the end of the list
          Names,        \* event names
          MaxDepth,     \* bound: nested calls of events_fire
          MaxGeneration \* bound: sinks added

ASSUME EventsAssumption ==
  /\ NoSink \notin Sinks
  /\ MaxDepth \in Nat /\ MaxGeneration \in Nat

VARIABLES
  sinks,        \* events_sinks
  named,        \* es->name
  dead,         \* es->dead
  generation,   \* es->generation
  latest,       \* events_generation
  stack,        \* the calls of events_fire, the outermost first
  \* history
  wrong         \* a callback ran that its call did not owe

dispatchVars == <<sinks, named, dead, generation, latest, stack, wrong>>

(* A call of events_fire stands on a sink, inside its callback or not.     *)
(* History: owed are the sinks whose callback it still has to run.         *)
Calls == [name : Names, generation : Nat,
          at : Sinks \cup {NoSink}, inside : BOOLEAN, owed : SUBSET Sinks]

DispatchInit ==
  /\ sinks = {} /\ dead = {} /\ latest = 0 /\ stack = <<>> /\ wrong = FALSE
  /\ named \in [Sinks -> Names]
  /\ generation = [e \in Sinks |-> 0]
-----------------------------------------------------------------------------
(* Definitions named X_slip are X as a plausible mistake would have it: no  *)
(* specification uses them, they show that a property notices the mistake. *)

Top == stack[Len(stack)]
SetTop(call) == [stack EXCEPT ![Len(stack)] = call]

(* Code runs outside a dispatch or inside the callback of the innermost.   *)
Running == stack # <<>> => Top.inside
Looping == stack # <<>> /\ ~Top.inside

(* TAILQ_FIRST of some sinks, and TAILQ_NEXT of a sink of the list: what   *)
(* they return, in a set of one.                                           *)
FirstOf(S) ==
  IF S = {} THEN {NoSink}
  ELSE {e \in S : \A f \in S : generation[e] <= generation[f]}
After(e) == FirstOf({f \in sinks : generation[f] > generation[e]})

(* events_add_sink                                                         *)
Add(e, name) ==
  /\ Running /\ e \notin sinks /\ latest < MaxGeneration
  /\ latest' = latest + 1
  /\ generation' = [generation EXCEPT ![e] = latest + 1]
  /\ named' = [named EXCEPT ![e] = name]
  /\ sinks' = sinks \cup {e}
  /\ UNCHANGED <<dead, stack, wrong>>

(* events_remove_sink: the owner then frees the data of the callback, so   *)
(* no call owes it any more.                                               *)
FreesNow == stack = <<>>
Remove(e) ==
  /\ Running /\ e \in sinks \ dead
  /\ IF FreesNow
     THEN sinks' = sinks \ {e} /\ dead' = dead
     ELSE sinks' = sinks /\ dead' = dead \cup {e}
  /\ stack' = [k \in DOMAIN stack |-> [stack[k] EXCEPT !.owed = @ \ {e}]]
  /\ UNCHANGED <<named, generation, latest, wrong>>

(* events_fire: a call, for the sinks there are now.                       *)
Fire(name) ==
  /\ Running /\ Len(stack) < MaxDepth
  /\ \E first \in FirstOf(sinks) :
       stack' = Append(stack,
         [name |-> name, generation |-> latest, at |-> first, inside |-> FALSE,
          owed |-> {e \in sinks \ dead : named[e] = name}])
  /\ UNCHANGED <<sinks, named, dead, generation, latest, wrong>>

(* The loop of events_fire.                                                *)
Skips_slip(call) == call.at \in dead \/ named[call.at] # call.name
Skips(call) ==
  \/ call.at \in dead \/ generation[call.at] > call.generation
  \/ named[call.at] # call.name

Skip ==
  /\ Looping /\ Top.at # NoSink /\ Skips(Top)
  /\ \E next \in After(Top.at) : stack' = SetTop([Top EXCEPT !.at = next])
  /\ UNCHANGED <<sinks, named, dead, generation, latest, wrong>>

Call ==
  /\ Looping /\ Top.at # NoSink /\ ~Skips(Top)
  /\ wrong' = (wrong \/ Top.at \notin Top.owed)
  /\ stack' = SetTop([Top EXCEPT !.inside = TRUE, !.owed = @ \ {Top.at}])
  /\ UNCHANGED <<sinks, named, dead, generation, latest>>

Return ==
  /\ stack # <<>> /\ Top.inside
  /\ \E next \in After(Top.at) :
       stack' = SetTop([Top EXCEPT !.inside = FALSE, !.at = next])
  /\ UNCHANGED <<sinks, named, dead, generation, latest, wrong>>

(* The end of events_fire, with events_free_dead by the outermost call.    *)
FreesDead_slip == TRUE
FreesDead == Len(stack) = 1
End ==
  /\ Looping /\ Top.at = NoSink
  /\ stack' = SubSeq(stack, 1, Len(stack) - 1)
  /\ IF FreesDead
     THEN sinks' = sinks \ dead /\ dead' = {}
     ELSE UNCHANGED <<sinks, dead>>
  /\ UNCHANGED <<named, generation, latest, wrong>>

DispatchNext ==
  \/ \E e \in Sinks, name \in Names : Add(e, name)
  \/ \E e \in Sinks : Remove(e)
  \/ \E name \in Names : Fire(name)
  \/ Skip
  \/ Call
  \/ Return
  \/ End

DispatchSpec == DispatchInit /\ [][DispatchNext]_dispatchVars
-----------------------------------------------------------------------------
DispatchTypeOK ==
  /\ sinks \subseteq Sinks /\ dead \subseteq sinks
  /\ named \in [Sinks -> Names]
  /\ generation \in [Sinks -> Nat] /\ latest \in Nat
  /\ stack \in Seq(Calls)
  /\ wrong \in BOOLEAN

(* The sinks of the list have the generations that order it: no two have   *)
(* the same, and none has one that is still to come.                       *)
ListOrdered ==
  \A e, f \in sinks :
    generation[e] <= latest /\ (generation[e] = generation[f] => e = f)

(* A call of events_fire never stands on a sink that has been freed.       *)
StandsOnListed == \A k \in DOMAIN stack : stack[k].at \in sinks \cup {NoSink}

(* A call runs the callbacks of the sinks there were when the event was    *)
(* fired, once each, and of none that was removed since: the owner of a    *)
(* removed sink has freed the data of its callback.                        *)
OnlyOwedCalled == ~wrong

(* and it misses none of them.                                             *)
NoneMissed ==
  \A k \in DOMAIN stack : stack[k].at = NoSink => stack[k].owed = {}

(* Removed sinks are freed once no call of events_fire is left.            *)
DeadFreed == stack = <<>> => dead = {}

(* The list is safe to walk however dispatches nest, a sink that is dead is *)
(* freed once, and none is kept for ever.                                  *)
SinksSafe == DispatchTypeOK /\ StandsOnListed /\ DeadFreed

(* Each event calls the sinks there were when it was fired, but for those  *)
(* removed since, and no other.                                            *)
CalledAsOwed == OnlyOwedCalled /\ NoneMissed
=============================================================================
