----------------------------- MODULE PluginHooks -----------------------------
(***************************************************************************)
(* One actor of one clustered host with plugins: the hooks they register   *)
(* run around an activation, between the placement's claim of the          *)
(* directory entry and its release (host/app.ts, compositePlacement and    *)
(* mergeBindings; host/local-host.ts, the activation and the deactivation  *)
(* of a slot; cluster/placement.ts, the bindings).                         *)
(*                                                                         *)
(* Every hook is awaited, so calls and deactivations come between any two. *)
(* `hooksRan` is the history: the plugin hooks of an attempt, in order.    *)
(***************************************************************************)
EXTENDS Naturals, Sequences, FiniteSets

CONSTANTS
    Plugins,       \* plugins with both hooks, in registration order: a sequence
    HookCalls,     \* calls to the actor
    MaxAttempts,   \* bound: activations begun
    MaxHookFaults  \* bound: hooks and loads that throw, and lost releases

ASSUME HooksAssumption ==
    Plugins \in Seq(STRING) /\ MaxAttempts \in Nat /\ MaxHookFaults \in Nat

VARIABLES
    slot,      \* the LocalHost's slot: [phase, n], n the attempt in it
    chain,     \* chain[n]: what attempt n still has to run, and which way
    entry,     \* the directory's entry: the attempt that holds it, 0 for none
    claimed,   \* the placement's #claimed entry, 0 for none
    waiting,     \* [HookCalls -> [st, on]]: parked on an attempt, or answered
    hooksRan,       \* ran[n]: plugin hooks run, <<kind, plugin>>
    begun,     \* attempts so far
    hookFaults
hooksVars == <<slot, chain, entry, claimed, waiting, hooksRan, begun, hookFaults>>

Attempts == 1..MaxAttempts
Placement == "placement"
Empty == [phase |-> "none", n |-> 0]
Done == [way |-> "over", todo |-> <<>>]

HooksInit ==
    /\ slot = Empty
    /\ chain = [n \in Attempts |-> Done]
    /\ entry = 0 /\ claimed = 0
    /\ waiting = [c \in HookCalls |-> [st |-> "idle", on |-> 0]]
    /\ hooksRan = [n \in Attempts |-> <<>>]
    /\ begun = 0 /\ hookFaults = 0

HookFault == hookFaults < MaxHookFaults /\ hookFaults' = hookFaults + 1
Flipped(s) == [i \in 1..Len(s) |-> s[Len(s) + 1 - i]]

\* mergeBindings: the placement's claim runs first,
Before == <<Placement>> \o Plugins

\* ... its release last, the plugins' hooks in reverse.
After == Flipped(Plugins) \o <<Placement>>

AnswerAll(n, how) == [c \in HookCalls |-> IF waiting[c].on = n THEN [st |-> how, on |-> 0]
                                       ELSE waiting[c]]

------------------------------------------------------------------------------
(* LocalHost                                                               *)

\* A call finds the slot: it rides or joins what is there, parks until a
\* deactivation is over, or reserves the slot and starts an attempt.
Arrives(c) ==
    /\ waiting[c].st = "idle"
    /\ CASE slot.phase = "active" ->
              /\ waiting' = [waiting EXCEPT ![c].st = "ok"]
              /\ UNCHANGED <<slot, chain, begun>>
         [] slot.phase \in {"activating", "deactivating"} ->
              /\ waiting' = [waiting EXCEPT ![c] = [st |-> "parked", on |-> slot.n]]
              /\ UNCHANGED <<slot, chain, begun>>
         [] OTHER ->
              /\ begun < MaxAttempts
              /\ begun' = begun + 1
              /\ slot' = [phase |-> "activating", n |-> begun']
              /\ chain' = [chain EXCEPT ![begun'] = [way |-> "before", todo |-> Before]]
              /\ waiting' = [waiting EXCEPT ![c] = [st |-> "parked", on |-> begun']]
    /\ UNCHANGED <<entry, claimed, hooksRan, hookFaults>>

\* A rejected attempt: every caller parked on it is told, and the slot is
\* dropped if it is still the attempt's.  Nothing else is undone.
SlotRejected(n, how) ==
    /\ chain' = [chain EXCEPT ![n] = Done]
    /\ slot' = IF slot = [phase |-> "activating", n |-> n] THEN Empty ELSE slot
    /\ waiting' = AnswerAll(n, how)

\* The directory's answer to a claim of attempt n: its own, unless another
\* attempt holds the entry - one nobody here stands behind is evicted.
Winner(n) == IF entry = 0 \/ claimed = 0 THEN n ELSE entry

ClaimRuns(n) ==
    /\ chain[n].way = "before" /\ chain[n].todo # <<>> /\ Head(chain[n].todo) = Placement
    /\ IF Winner(n) = n
       THEN /\ entry' = n /\ claimed' = n
            /\ chain' = [chain EXCEPT ![n].todo = Tail(@)]
            /\ UNCHANGED <<slot, waiting>>
       ELSE /\ SlotRejected(n, "wronghost")
            /\ UNCHANGED <<entry, claimed>>
    /\ UNCHANGED <<hooksRan, begun, hookFaults>>

\* A plugin's onBeforeActivate: a throw refuses the activation.
BeforeRuns(n) ==
    /\ chain[n].way = "before" /\ chain[n].todo # <<>> /\ Head(chain[n].todo) # Placement
    /\ \/ /\ hooksRan' = [hooksRan EXCEPT ![n] = Append(@, <<"before", Head(chain[n].todo)>>)]
          /\ chain' = [chain EXCEPT ![n].todo = Tail(@)]
          /\ UNCHANGED <<slot, waiting, hookFaults>>
       \/ /\ HookFault
          /\ SlotRejected(n, "refused")
          /\ UNCHANGED hooksRan
    /\ UNCHANGED <<entry, claimed, begun>>

\* Activation.create, and the slot made active if it is still the attempt's.
SlotCreated(n) ==
    /\ chain[n] = [way |-> "before", todo |-> <<>>]
    /\ \/ /\ slot' = IF slot.n = n THEN [phase |-> "active", n |-> n] ELSE slot
          /\ chain' = [chain EXCEPT ![n] = [way |-> "active", todo |-> <<>>]]
          /\ waiting' = AnswerAll(n, "ok")
          /\ UNCHANGED hookFaults
       \/ HookFault /\ SlotRejected(n, "refused")
    /\ UNCHANGED <<entry, claimed, hooksRan, begun>>

\* #deactivateById of an active slot (idle, migrated, stopped).
Deactivates ==
    /\ slot.phase = "active"
    /\ slot' = [slot EXCEPT !.phase = "deactivating"]
    /\ chain' = [chain EXCEPT ![slot.n] = [way |-> "draining", todo |-> <<>>]]
    /\ UNCHANGED <<entry, claimed, waiting, hooksRan, begun, hookFaults>>

\* deactivate() is over: the slot goes first, then the hooks run.
SlotDrained(n) ==
    /\ chain[n].way = "draining"
    /\ slot' = IF slot = [phase |-> "deactivating", n |-> n] THEN Empty ELSE slot
    /\ chain' = [chain EXCEPT ![n] = [way |-> "after", todo |-> After]]
    /\ UNCHANGED <<entry, claimed, waiting, hooksRan, begun, hookFaults>>

\* A throw that ends the chain.
AfterThrowEnds(n) == <<>>
\* Each hook is tried, whatever the one before it did.
AfterThrow(n) == Tail(chain[n].todo)

\* A plugin's onAfterDeactivate.
AfterRuns(n) ==
    /\ chain[n].way = "after" /\ chain[n].todo # <<>> /\ Head(chain[n].todo) # Placement
    /\ hooksRan' = [hooksRan EXCEPT ![n] = Append(@, <<"after", Head(chain[n].todo)>>)]
    /\ \/ /\ chain' = [chain EXCEPT ![n].todo = Tail(@)]
          /\ UNCHANGED hookFaults
       \/ /\ HookFault
          /\ chain' = [chain EXCEPT ![n].todo = AfterThrow(n)]
    /\ UNCHANGED <<slot, entry, claimed, waiting, begun>>

\* The placement's afterDeactivate: #claimed first, the release on its way.
ReleaseSent(n) ==
    /\ chain[n].way = "after" /\ chain[n].todo # <<>> /\ Head(chain[n].todo) = Placement
    /\ claimed' = 0
    /\ chain' = [chain EXCEPT ![n] = [way |-> "releasing", todo |-> Tail(chain[n].todo)]]
    /\ UNCHANGED <<slot, entry, waiting, hooksRan, begun, hookFaults>>

\* release(): only an entry that is still the attempt's goes.
EntryAfter(n) == IF entry = n THEN 0 ELSE entry

ReleaseLands(n) ==
    /\ chain[n].way = "releasing"
    /\ \/ entry' = EntryAfter(n) /\ UNCHANGED hookFaults
       \/ HookFault /\ UNCHANGED entry
    /\ chain' = [chain EXCEPT ![n].way = "after"]
    /\ UNCHANGED <<slot, claimed, waiting, hooksRan, begun>>

\* `drained` settles: whoever parked on it resolves the target again.
AfterDone(n) ==
    /\ chain[n] = [way |-> "after", todo |-> <<>>]
    /\ chain' = [chain EXCEPT ![n] = Done]
    /\ waiting' = AnswerAll(n, "idle")
    /\ UNCHANGED <<slot, entry, claimed, hooksRan, begun, hookFaults>>

HooksNext ==
    \/ \E c \in HookCalls : Arrives(c)
    \/ Deactivates
    \/ \E n \in Attempts : \/ ClaimRuns(n) \/ BeforeRuns(n) \/ SlotCreated(n) \/ SlotDrained(n)
                           \/ AfterRuns(n) \/ ReleaseSent(n) \/ ReleaseLands(n)
                           \/ AfterDone(n)
HooksSpec == HooksInit /\ [][HooksNext]_hooksVars

------------------------------------------------------------------------------
(* Properties                                                              *)

Running(n) == chain[n].way \in {"active", "draining"}

\* The state has its type; the slot is of the attempt that runs, one at a time
\* (host/local-host.ts:479-498, 704-735).
HooksTypeOK ==
    /\ slot.phase \in {"none", "activating", "active", "deactivating"}
    /\ slot.n \in 0..begun
    /\ entry \in 0..begun /\ claimed \in 0..begun
    /\ \A n \in Attempts : Running(n) => slot.n = n
    /\ slot.phase = "activating" => chain[slot.n].way = "before"
    /\ \A c \in HookCalls : waiting[c].on # 0 => chain[waiting[c].on].way # "over"
    /\ hookFaults \in 0..MaxHookFaults

InPlugins(n) ==
    \/ chain[n].way = "before" /\ hooksRan[n] # <<>>
    \/ Running(n)
    \/ chain[n].way = "after" /\ chain[n].todo # <<>>

\* A plugin's hook only ever sees an activation the cluster already owns, and
\* still does: the entry is the attempt's from before the first onBeforeActivate
\* until after the last onAfterDeactivate, whatever else tries the directory
\* meanwhile (host/app.ts:1012-1017).
HooksSeeOwned == \A n \in Attempts : InPlugins(n) => entry = n /\ claimed = n

BeforeOf(n) == SelectSeq(hooksRan[n], LAMBDA h : h[1] = "before")
AfterOf(n) == SelectSeq(hooksRan[n], LAMBDA h : h[1] = "after")

\* What a plugin's hook set up is taken down in reverse order, by hooks that run
\* once each for an activation that really ran, even when one of them throws,
\* and never stop short of the placement's release (host/app.ts:1026-1029,
\* 1043-1054).
HooksMirror ==
    \A n \in Attempts :
        /\ AfterOf(n) # <<>> => BeforeOf(n) = [i \in 1..Len(Plugins) |-> <<"before", Plugins[i]>>]
        /\ chain[n].way = "releasing" =>
             AfterOf(n) = [i \in 1..Len(Plugins) |-> <<"after", Flipped(Plugins)[i]>>]
        /\ chain[n] = [way |-> "after", todo |-> <<>>] => claimed # n

\* Whoever still holds the entry while it runs: the release of an attempt never
\* takes the claim of the next one, which may have been made while it was on
\* its way (cluster/placement.ts:808-820, 830-837).
ReleaseIsOwn == \A n \in Attempts : Running(n) => entry = n

\* A call to an actor being deactivated waits and does not fail.  (The slot is
\* dropped before the hooks run: a call that comes while they do starts an
\* attempt, and the placement refuses it with this host as the owner.)
CallsWaitNotFail == \A c \in HookCalls : waiting[c].st # "wronghost"
==============================================================================
