------------------------------- MODULE MCLoop -------------------------------
(***************************************************************************)
(* One broadcast: its start among the other broadcasts of the process, its *)
(* rebuild loop, and the tokens of its account.                            *)
(*                                                                         *)
(* These parts share no state: one of them, focus, runs, and the others stay *)
(* in an initial state.  To interleave them would add no behaviour of any. *)
(***************************************************************************)
EXTENDS SessionLoop, Integers, Sequences

CONSTANTS
    Entries, Files, Accounts, MaxExtras, MaxFaults,           \* of Broadcasts
    Callers, Nobody, LiveLife, IdentityLife, McLife, MaxTime, MaxFailures  \* of TokenCache

VARIABLES
    focus,
    entries, account, next, kept, startCtx, process, startPc, owners, faults,
    mu, tok, identity, mcToken, signedIn, op, cachePc, panicked, clock, cacheFailures

Extra(name, file) == [name |-> name, file |-> file]

\* extra_broadcasts as somebody may write it: none, two, a name that is also the
\* default one of another, one file twice, the primary broadcast's name or file,
\* and no file.
Lists ==
    {<<>>,
     <<Extra(<<"a">>, "t1"), Extra(<<>>, "t2")>>,
     <<Extra(<<"extra", 2>>, "t1"), Extra(<<>>, "t2")>>,
     <<Extra(<<>>, "t1"), Extra(<<"b">>, "t1")>>,
     <<Extra(<<"primary">>, "t1"), Extra(<<"b">>, "")>>,
     <<Extra(<<"b">>, "token.json"), Extra(<<"b">>, "t2")>>}

\* The lists have at most MaxExtras entries, with a token file or none; a
\* new Minecraft token is good for a while.
ASSUME LoopAssumption ==
    /\ MaxExtras \in Nat /\ "token.json" \in Files
    /\ \A e \in Entries :
         /\ Len(e) \in 0..MaxExtras /\ DOMAIN e = 1..Len(e)
         /\ \A i \in 1..Len(e) : e[i].file \in Files \cup {""}
    /\ Nobody \notin Callers
    /\ McLife \in Nat \ {0}

B == INSTANCE Broadcasts WITH
    ctx <- startCtx, pc <- startPc

startVars == <<entries, account, next, kept, startCtx, process, startPc, owners, faults>>

T == INSTANCE TokenCache WITH
    pc <- cachePc, failures <- cacheFailures

cacheVars == <<mu, tok, identity, mcToken, signedIn, op, cachePc, panicked, clock,
               cacheFailures>>

MCInit ==
    /\ focus \in {"loop", "broadcasts", "tokens"}
    /\ Init
    /\ B!Init /\ (focus # "broadcasts" =>
            /\ entries = <<>>
            /\ account = [f \in Files |-> CHOOSE a \in Accounts : TRUE])
    /\ T!Init

MCNext ==
    \/ /\ focus = "loop" /\ Next
       /\ UNCHANGED <<focus, startVars, cacheVars>>
    \/ /\ focus = "broadcasts" /\ B!Next
       /\ UNCHANGED <<focus, vars, cacheVars>>
    \/ /\ focus = "tokens" /\ T!Next
       /\ UNCHANGED <<focus, vars, startVars>>

mcVars == <<focus, vars, startVars, cacheVars>>

MCSafe == MCInit /\ [][MCNext]_mcVars

MCSpec ==
    /\ MCSafe
    /\ WF_vars(focus = "loop" /\ Rta)
    /\ WF_vars(focus = "loop" /\ (Broadcast \/ (~Live /\ ServeEnds)))
    /\ WF_vars(focus = "loop" /\ RenewalFires)
    /\ WF_vars(focus = "loop" /\ PresencePropagates)
    /\ WF_startVars(focus = "broadcasts" /\ B!SetUp)
    /\ WF_startVars(focus = "broadcasts" /\ (B!Resolve \/ B!StartExtras))
    /\ \A b \in B!Places :
        WF_startVars(focus = "broadcasts" /\ b \in B!Broadcasters
                   /\ (B!Progress(b) \/ B!ClaimXUID(b) \/ B!Ends(b)))
    /\ \A c \in Callers : WF_cacheVars(focus = "tokens" /\ T!Work(c))
    /\ \A c \in Callers : SF_cacheVars(focus = "tokens" /\ (T!Lock(c) \/ T!Cache(c)))

-----------------------------------------------------------------------------
(* Properties: those of the parts, which hold of a part at rest as well.    *)

\* Once faults cease a broadcast that runs serves again; at the start every one that
\* is configured correctly comes up, and a signal ends them all.
ServesUntilStopped ==
    /\ <>[][~Fault]_vars => []<>(focus = "loop" => Serves)
    /\ B!AllServe /\ B!StopEnds

\* Two broadcasts never host one account, nor go by one name.
BroadcastsApart == B!OneBroadcastPerAccount /\ B!NamesApart

\* A token that another caller has renewed meanwhile is not exchanged, and one that
\* cannot be renewed is kept.
TokensSpared == T!NoNeedlessExchange /\ T!McTokenKept

\* Every call on a Session returns.
CallsReturn == T!CallsReturn

=============================================================================
