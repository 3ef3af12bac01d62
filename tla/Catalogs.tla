------------------------------ MODULE Catalogs ------------------------------
(***************************************************************************)
(* The two catalogs the daemon asks others for and keeps for a while: what *)
(* Open Design offers (comCache, one entry for each route) and the models  *)
(* of a CLI (ModelDiscovery, one entry for each runner).  Calls that come  *)
(* while one asks wait for its answer.                                     *)
(*                                                                         *)
(* A catalog is the version of what its source held when it was read.  One *)
(* entry is followed, of a kind chosen once.  What a source writes and how *)
(* it is parsed are left out, up to whether the list says of a model which *)
(* efforts it has.                                                         *)
(***************************************************************************)
EXTENDS Naturals, Sequences, FiniteSets
LOCAL INSTANCE FiniteSetsExt
LOCAL INSTANCE SequencesExt

CONSTANTS
    CtKinds,        \* subset of {"open_design", "opencode", "codex", "dsh", "line", "local"}
    CtMaxCalls,     \* bound on calls
    CtMaxChanges,   \* bound on changes of the source
    CtMaxExpiries   \* bound on times the TTL runs out

ASSUME CtAssumption == CtMaxCalls \in Nat /\ CtMaxChanges \in Nat /\ CtMaxExpiries \in Nat

VARIABLE ct

CtVars == <<ct>>

Waiting == -1
Failed == 0

(* ver counts the changes of the source, some says whether its model has   *)
(* variants now; entry: the cache, val = Failed for the catalog of an      *)
(* error; flight: the call that asks, 0 if none; known: the registry of    *)
(* variants; confirmed: what a parsed block said last.                     *)
CtInit ==
    \E kind \in CtKinds :
       ct = [kind |-> kind, ver |-> 1, some |-> TRUE, entry |-> [val |-> Failed, has |-> FALSE, fresh |-> FALSE],
             flight |-> 0, calls |-> <<>>, known |-> FALSE, confirmed |-> FALSE, expiries |-> 0]

Cached(s) == s.entry.has /\ s.entry.fresh

(* The call that asks for the others. *)
MutVoando == 0
Voando == ct.flight

(* of: the call whose answer this one waits for; hit: what the cache held  *)
(* when a call began to ask; read: what the source told it, some of the    *)
(* efforts too; floor: the newest catalog anybody had been given before.   *)
CtCall(of, got) ==
    [of |-> of, hit |-> IF ct.entry.has THEN ct.entry.val ELSE Failed, stage |-> "asked", read |-> Failed,
     some |-> FALSE, got |-> got,
     floor |-> Max({Failed} \cup {ct.calls[i].got : i \in DOMAIN ct.calls})]

CtRoom == Len(ct.calls) < CtMaxCalls

(* comCache, where nothing is forced; the entry lasts TTL_CATALOGO_MS. *)
ComCache ==
    /\ ct.kind = "open_design" /\ CtRoom
    /\ LET n == Len(ct.calls) + 1 IN
       ct' = IF Cached(ct) THEN [ct EXCEPT !.calls = Append(@, CtCall(n, ct.entry.val))]
             ELSE IF Voando # 0 THEN [ct EXCEPT !.calls = Append(@, CtCall(Voando, Waiting))]
             ELSE [ct EXCEPT !.calls = Append(@, CtCall(n, Waiting)), !.flight = n]

(* The models of qwen are those of its settings.json, if it can be read. *)
Settings == {ct.ver, Failed}

(* discover: a forced call passes the cache by, not the one that asks.  A  *)
(* CLI that is not there, that lists nothing, or whose settings are a file *)
(* is answered for within the call, and that is cached as well.            *)
Discover ==
    /\ ct.kind # "open_design" /\ CtRoom
    /\ \E force \in BOOLEAN, found \in Settings :
          LET n == Len(ct.calls) + 1 IN
          ct' = IF ~force /\ Cached(ct) THEN [ct EXCEPT !.calls = Append(@, CtCall(n, ct.entry.val))]
                ELSE IF Voando # 0 THEN [ct EXCEPT !.calls = Append(@, CtCall(Voando, Waiting))]
                ELSE IF ct.kind = "local"
                THEN [ct EXCEPT !.calls = Append(@, CtCall(n, found)), !.entry = [val |-> found, has |-> TRUE, fresh |-> TRUE]]
                ELSE [ct EXCEPT !.calls = Append(@, CtCall(n, Waiting)), !.flight = n]

Asking(i) == ct.calls[i].got = Waiting /\ ct.calls[i].of = i

(* codex is initialized before it is asked for the list; dsh too, and its  *)
(* list comes with a new session.                                          *)
CtInitialized ==
    /\ ct.kind \in {"codex", "dsh"}
    /\ \E i \in DOMAIN ct.calls : Asking(i) /\ ct.calls[i].stage = "asked" /\ ct' = [ct EXCEPT !.calls[i].stage = "initialized"]

(* The source answers; what it says later, or to a call that has given up, *)
(* is not heard.                                                           *)
SourceAnswers ==
    \E i \in DOMAIN ct.calls :
       /\ Asking(i) /\ ct.calls[i].read = Failed
       /\ ct.kind \in {"codex", "dsh"} => ct.calls[i].stage = "initialized"
       /\ ct' = [ct EXCEPT !.calls[i].read = ct.ver, !.calls[i].some = ct.some]

(* All that wait for call i are answered at once. *)
Give(s, i, got) ==
    [s EXCEPT !.calls = [j \in DOMAIN @ |-> IF @[j].of = i /\ @[j].got = Waiting THEN [@[j] EXCEPT !.got = got] ELSE @[j]],
              !.flight = 0]

Keep(s, got) == [s EXCEPT !.entry = [val |-> got, has |-> TRUE, fresh |-> TRUE]]

CtArrives(kind) ==
    /\ ct.kind = kind
    /\ \E i \in DOMAIN ct.calls :
          /\ Asking(i) /\ ct.calls[i].read # Failed
          /\ ct' = Keep(Give(ct, i, ct.calls[i].read), ct.calls[i].read)

OdArrives == CtArrives("open_design")
CodexArrives == CtArrives("codex")
DshArrives == CtArrives("dsh")
LineArrives == CtArrives("line")

(* An error, a timeout or an answer that is no catalog: what the cache     *)
(* held when the call began is shown in its stead, and stays expired.      *)
OdFails ==
    /\ ct.kind = "open_design"
    /\ \E i \in DOMAIN ct.calls : Asking(i) /\ ct' = Give(ct, i, ct.calls[i].hit)

(* registerOpenCodeVariants takes what a block confirms; of a block that   *)
(* is cut short it learns nothing, and the catalog shows what was known.   *)
MutRegister(s, some, whole) == IF whole THEN [s EXCEPT !.known = some, !.confirmed = some] ELSE [s EXCEPT !.known = FALSE]
Register(s, some, whole) == IF whole THEN [s EXCEPT !.known = some, !.confirmed = some] ELSE s

VerboseArrives ==
    /\ ct.kind = "opencode"
    /\ \E i \in DOMAIN ct.calls, whole \in BOOLEAN :
          /\ Asking(i) /\ ct.calls[i].stage = "asked" /\ ct.calls[i].read # Failed
          /\ ct' = Keep(Give(Register(ct, ct.calls[i].some, whole), i, ct.calls[i].read), ct.calls[i].read)

(* An old CLI knows no --verbose, a slow one runs out of its 40 s: the     *)
(* plain list is asked for.                                                *)
VerboseFails ==
    /\ ct.kind = "opencode"
    /\ \E i \in DOMAIN ct.calls :
          Asking(i) /\ ct.calls[i].stage = "asked" /\ ct' = [ct EXCEPT !.calls[i].stage = "plain", !.calls[i].read = Failed]

PlainArrives ==
    /\ ct.kind = "opencode"
    /\ \E i \in DOMAIN ct.calls :
          /\ Asking(i) /\ ct.calls[i].stage = "plain" /\ ct.calls[i].read # Failed
          /\ ct' = Keep(Give(ct, i, ct.calls[i].read), ct.calls[i].read)

(* The models of a runner that cannot be asked are none, for a TTL. *)
DiscoveryFails ==
    /\ ct.kind \in {"codex", "dsh", "line", "opencode"}
    /\ \E i \in DOMAIN ct.calls :
          /\ Asking(i) /\ (ct.kind = "opencode" => ct.calls[i].stage = "plain")
          /\ ct' = Keep(Give(ct, i, Failed), Failed)

SourceChanges ==
    ct.ver <= CtMaxChanges /\ \E some \in BOOLEAN : ct' = [ct EXCEPT !.ver = @ + 1, !.some = some]

Expire ==
    /\ ct.entry.fresh /\ ct.expiries < CtMaxExpiries
    /\ ct' = [ct EXCEPT !.entry.fresh = FALSE, !.expiries = @ + 1]

CtNext ==
    \/ ComCache \/ Discover \/ SourceAnswers \/ OdArrives \/ OdFails
    \/ CtInitialized \/ CodexArrives \/ DshArrives \/ LineArrives
    \/ VerboseArrives \/ VerboseFails \/ PlainArrives \/ DiscoveryFails \/ SourceChanges \/ Expire

CtSpec == CtInit /\ [][CtNext]_CtVars

-----------------------------------------------------------------------------
CtTypeOK ==
    /\ ct.kind \in CtKinds /\ ct.flight \in 0 .. Len(ct.calls) /\ ct.expiries \in 0 .. CtMaxExpiries
    /\ {ct.some, ct.known, ct.confirmed, ct.entry.has, ct.entry.fresh} \subseteq BOOLEAN
    /\ ct.ver \in 1 .. CtMaxChanges + 1 /\ ct.entry.val \in Failed .. ct.ver
    /\ \A call \in Range(ct.calls) : call.got \in Waiting .. ct.ver /\ call.read \in Failed .. ct.ver

(* Nobody is shown an older catalog after a newer one, whatever was joined *)
(* or forced, failed or ran out in between (open-design-client.ts:132,     *)
(* model-discovery.ts:498).                                                *)
CtForward == \A call \in Range(ct.calls) : call.got > Failed => call.got >= call.floor

(* Who had been shown what Open Design offers is not shown an error        *)
(* instead: "fallback para o valor vencido" (open-design-client.ts:113).   *)
CtFallsBack == ct.kind = "open_design" => \A call \in Range(ct.calls) : call.got = Failed => call.floor = Failed

(* The variants of a model once confirmed are known until a whole block    *)
(* takes them back (opencode-effort.ts:22).                                *)
CtKnown == ct.known = ct.confirmed

CatalogsKept == CtForward /\ CtFallsBack /\ CtKnown
=============================================================================
