------------------------------ MODULE Broadcasts ------------------------------
(***************************************************************************)
(* The start of a relay process with several broadcasts: main (main.go),   *)
(* resolveBroadcasts, claimXUID, runExtraBroadcast and what runBroadcast   *)
(* does before its loop (broadcasts.go).  The primary broadcast runs on the *)
(* main goroutine, each extra one on its own; two token files may hold one *)
(* account.                                                                *)
(*                                                                         *)
(* A broadcast is known by its place in the configuration, 0 for the       *)
(* primary one.                                                            *)
(***************************************************************************)
EXTENDS Integers, Sequences

CONSTANTS
    Entries,    \* extra_broadcasts: the lists of [name, file] to start with
    Files,      \* token files; "token.json" is the primary broadcast's
    Accounts,   \* Xbox accounts
    MaxExtras,  \* bound: extra broadcasts in a list
    MaxFaults   \* bound: steps that fail

VARIABLES
    entries,   \* cfg.ExtraBroadcasts
    account,   \* account[f]: the account that token file f is signed in to
    next,      \* the entry that resolveBroadcasts has come to
    kept,      \* the entries it has kept
    ctx,       \* the process's context is not canceled
    process,   \* "sign-in", "setup", "extras", "up", "exited"
    pc,        \* pc[b]: where broadcast b is
    owners,    \* owners[a]: xuidOwners, -1 for none
    faults

bcVars == <<entries, account, next, kept, ctx, process, pc, owners, faults>>

Places == 0..MaxExtras

-----------------------------------------------------------------------------
(* resolveBroadcasts.                                                      *)

\* An entry without a name (<<>>) is called after its place: extra-1, extra-2.
NameOf(i) == IF entries[i].name = <<>> THEN <<"extra", i>> ELSE entries[i].name

\* Mutant of Usable: the names are not compared.
UsableNamed(i) ==
    /\ entries[i].file # "" /\ entries[i].file # "token.json"
    /\ \A k \in kept : entries[i].file # entries[k].file

\* Neither the name nor the file is taken by the primary broadcast or by an
\* entry before that was kept.
Usable(i) ==
    /\ NameOf(i) # <<"primary">>
    /\ entries[i].file # "" /\ entries[i].file # "token.json"
    /\ \A k \in kept : NameOf(i) # NameOf(k) /\ entries[i].file # entries[k].file

Broadcasters == {0} \cup kept

File(b) == IF b = 0 THEN "token.json" ELSE entries[b].file

TypeOK ==
    /\ entries \in Entries /\ account \in [Files -> Accounts]
    /\ next \in 1..MaxExtras + 1 /\ kept \in SUBSET (1..MaxExtras)
    /\ ctx \in BOOLEAN /\ process \in {"sign-in", "setup", "extras", "up", "exited"}
    /\ pc \in [Places -> {"off", "sign-in", "identity", "claim", "rta", "serving",
                          "failed", "ended"}]
    /\ owners \in [Accounts -> Places \cup {-1}] /\ faults \in 0..MaxFaults

Init ==
    /\ entries \in Entries /\ account \in [Files -> Accounts]
    /\ next = 1 /\ kept = {}
    /\ ctx = TRUE /\ process = "sign-in" /\ pc = [b \in Places |-> "off"]
    /\ owners = [a \in Accounts |-> -1] /\ faults = 0

-----------------------------------------------------------------------------
(* main.                                                                   *)

Alive == process # "exited"

\* A step fails, as every request does once the context is canceled.
Fault ==
    \/ faults < MaxFaults /\ faults' = faults + 1
    \/ ~ctx /\ UNCHANGED faults

\* tokenSource and SessionFromTokenSource for token.json, then the
\* backend's transport and the direct-IP door: os.Exit for what is wrong.  A control
\* port that cannot be opened is only logged.
SetUp ==
    /\ process \in {"sign-in", "setup"}
    /\ \/ /\ process' = IF process = "sign-in" THEN "setup" ELSE "extras"
          /\ UNCHANGED faults
       \/ process' = "exited" /\ Fault
    /\ UNCHANGED <<entries, account, next, kept, ctx, pc, owners>>

\* resolveBroadcasts looks at the next entry: the first of several with one name
\* or one file is kept.
Resolve ==
    /\ process = "extras" /\ next \in DOMAIN entries
    /\ next' = next + 1
    /\ kept' = IF Usable(next) THEN kept \cup {next} ELSE kept
    /\ UNCHANGED <<entries, account, ctx, process, pc, owners, faults>>

\* Mutant of StartExtras: after runBroadcast has returned, which is never.
StartExtrasLast ==
    /\ process = "extras" /\ next \notin DOMAIN entries
    /\ process' = "up"
    /\ pc' = [pc EXCEPT ![0] = "identity"]
    /\ UNCHANGED <<entries, account, next, kept, ctx, owners, faults>>

\* The extra broadcasts are started, then the primary one goes on.
StartExtras ==
    /\ process = "extras" /\ next \notin DOMAIN entries
    /\ process' = "up"
    /\ pc' = [b \in Places |->
                IF b = 0 THEN "identity" ELSE IF b \in kept THEN "sign-in" ELSE pc[b]]
    /\ UNCHANGED <<entries, account, next, kept, ctx, owners, faults>>

-----------------------------------------------------------------------------
(* runExtraBroadcast and runBroadcast.                                     *)

\* The end of a broadcast that cannot get going: the primary one's is the end
\* of the process.
Fails(b) ==
    /\ pc' = [pc EXCEPT ![b] = "failed"]
    /\ process' = IF b = 0 THEN "exited" ELSE process

\* Mutant of Progress: the wait for the connection ID has neither the context
\* nor a limit.
ProgressWaits(b) ==
    /\ Alive /\ pc[b] \in {"sign-in", "identity", "rta"}
    /\ \/ /\ ctx
          /\ pc' = [pc EXCEPT ![b] = CASE @ = "sign-in" -> "identity"
                                       [] @ = "identity" -> "claim"
                                       [] @ = "rta" -> "serving"]
          /\ UNCHANGED <<process, faults>>
       \/ pc[b] # "rta" /\ Fault /\ Fails(b)
    /\ UNCHANGED <<entries, account, next, kept, ctx, owners>>

\* Sign-in, RequestXBLToken and ConnectionID, each of which may fail.
Progress(b) ==
    /\ Alive /\ pc[b] \in {"sign-in", "identity", "rta"}
    /\ \/ /\ ctx
          /\ pc' = [pc EXCEPT ![b] = CASE @ = "sign-in" -> "identity"
                                       [] @ = "identity" -> "claim"
                                       [] @ = "rta" -> "serving"]
          /\ UNCHANGED <<process, faults>>
       \/ Fault /\ Fails(b)
    /\ UNCHANGED <<entries, account, next, kept, ctx, owners>>

\* Mutant of ClaimXUID: the last to come owns the account.
ClaimXUIDLast(b) ==
    /\ Alive /\ pc[b] = "claim"
    /\ owners' = [owners EXCEPT ![account[File(b)]] = b]
    /\ pc' = [pc EXCEPT ![b] = "rta"]
    /\ UNCHANGED <<entries, account, next, kept, ctx, process, faults>>

ClaimXUID(b) ==
    /\ Alive /\ pc[b] = "claim"
    /\ LET a == account[File(b)] IN
       \/ /\ owners[a] = -1 /\ owners' = [owners EXCEPT ![a] = b]
          /\ pc' = [pc EXCEPT ![b] = "rta"] /\ UNCHANGED process
       \/ owners[a] # -1 /\ Fails(b) /\ UNCHANGED owners
    /\ UNCHANGED <<entries, account, next, kept, ctx, faults>>

\* A signal cancels the context of every broadcast.
Interrupt ==
    /\ Alive /\ ctx /\ ctx' = FALSE
    /\ UNCHANGED <<entries, account, next, kept, process, pc, owners, faults>>

\* main returns when the primary broadcast does, whatever the others do.
Ends(b) ==
    /\ Alive /\ ~ctx /\ pc[b] = "serving"
    /\ pc' = [pc EXCEPT ![b] = "ended"]
    /\ process' = IF b = 0 THEN "exited" ELSE process
    /\ UNCHANGED <<entries, account, next, kept, ctx, owners, faults>>

Next ==
    \/ SetUp \/ Resolve \/ StartExtras \/ Interrupt
    \/ \E b \in Broadcasters: Progress(b) \/ ClaimXUID(b) \/ Ends(b)

Spec == Init /\ [][Next]_bcVars

\* Requests end, by their time limit at the latest.
Fairness ==
    /\ WF_bcVars(SetUp) /\ WF_bcVars(Resolve \/ StartExtras)
    /\ \A b \in Places: WF_bcVars(b \in Broadcasters
                                 /\ (Progress(b) \/ ClaimXUID(b) \/ Ends(b)))

FairSpec == Spec /\ Fairness

-----------------------------------------------------------------------------
(* Properties.                                                             *)

\* Two broadcasts never host one account, also if two token files are signed in
\* to it and whichever of them comes first.
OneBroadcastPerAccount ==
    \A b, c \in Broadcasters:
        pc[b] = "serving" /\ pc[c] = "serving"
        /\ account[File(b)] = account[File(c)] => b = c

\* The broadcasts that run have names of their own, under which the control
\* port keeps their routes.
NamesApart ==
    \A b, c \in kept: NameOf(b) # <<"primary">> /\ (NameOf(b) = NameOf(c) => b = c)

\* With no failure and no signal every broadcast that is configured correctly
\* comes up, the extra ones while the primary one runs; one whose account is
\* taken gives way to the one that has it, and the process with the primary one.
AllServe ==
    \A b \in Places:
        []<>(\/ process # "up" \/ b \notin Broadcasters
             \/ pc[b] = "serving" \/ ~ctx \/ faults > 0
             \/ owners[account[File(b)]] \notin {-1, b})

\* A signal ends the process, at whatever point of its start it comes.
StopEnds == []<>(ctx \/ process = "exited")
=============================================================================
