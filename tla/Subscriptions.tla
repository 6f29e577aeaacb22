--------------------------- MODULE Subscriptions ---------------------------
(***************************************************************************)
(* The part of the router's state store that publications pass through:    *)
(* the open sessions of one realm and its subscriptions.  A subscription   *)
(* is kept in three places: by id with its subscribers, by pattern in the  *)
(* atlas that publications are matched with, and as an id at each          *)
(* subscribed session.  The store executes one command at a time; Broker   *)
(* turns the commands into steps of the workers' handlers.                 *)
(*                                                                         *)
(* A pattern is a topic string together with its match policy: the atlas   *)
(* has one map per policy.                                                 *)
(***************************************************************************)
EXTENDS Naturals

CONSTANTS Session,  (* session ids, never reused                            *)
          Pattern,  (* what sessions subscribe to                           *)
          MaxSub    (* bound: subscription ids the store hands out          *)

ASSUME SubscriptionsAssumption == MaxSub \in Nat /\ Pattern # {}

VARIABLES open,        (* realm.sessions                                    *)
          entry,       (* keys of realm.subscriptionsById                   *)
          pattern,     (* the topic and policy of an entry                  *)
          subscribers, (* the subscribers of an entry                       *)
          atlas,       (* realm.subscriptionAtlas: the entry of a pattern   *)
          subIds,      (* subscriptionIds of a session                      *)
          nextSub      (* ids.subscription                                  *)

storeVars == <<open, entry, pattern, subscribers, atlas, subIds, nextSub>>

SubId == 1..MaxSub
NoEntry == 0

StoreInit ==
    /\ open = Session
    /\ entry = {}
    /\ pattern = [i \in SubId |-> CHOOSE p \in Pattern : TRUE]
    /\ subscribers = [i \in SubId |-> {}]
    /\ atlas = [p \in Pattern |-> NoEntry]
    /\ subIds = [s \in Session |-> {}]
    /\ nextSub = 1

StoreTypeOK ==
    /\ open \subseteq Session
    /\ entry \subseteq SubId
    /\ pattern \in [SubId -> Pattern]
    /\ subscribers \in [SubId -> SUBSET Session]
    /\ atlas \in [Pattern -> SubId \cup {NoEntry}]
    /\ subIds \in [Session -> SUBSET SubId]
    /\ nextSub \in 1..(MaxSub + 1)
-----------------------------------------------------------------------------
(* findOrCreateSubscription *)
FindOrCreateSubscription(p) == IF atlas[p] # NoEntry THEN atlas[p] ELSE nextSub

(* _addSubscription: an id is drawn even if the pattern has its entry. *)
AddSubscription(s, p) ==
    LET i == FindOrCreateSubscription(p) IN
    /\ s \in open
    /\ nextSub <= MaxSub
    /\ nextSub' = nextSub + 1
    /\ entry' = entry \cup {i}
    /\ pattern' = [pattern EXCEPT ![i] = p]
    /\ subscribers' = [subscribers EXCEPT ![i] = @ \cup {s}]
    /\ atlas' = [atlas EXCEPT ![p] = i]
    /\ subIds' = [subIds EXCEPT ![s] = @ \cup {i}]
    /\ UNCHANGED open

(* The entries in ids that s leaves empty go from both maps. *)
DropEmpty(s, ids) ==
    LET empty == {i \in ids : subscribers[i] \subseteq {s}} IN
    /\ entry' = entry \ empty
    /\ atlas' = [p \in Pattern |-> IF atlas[p] \in empty THEN NoEntry
                                                         ELSE atlas[p]]

Leave(s, ids) ==
    subscribers' = [i \in SubId |-> IF i \in ids THEN subscribers[i] \ {s}
                                                 ELSE subscribers[i]]

(* Mutant of RemoveSubscription: the entry goes with its other subscribers. *)
RemoveSubscriptionAll(s, i) ==
    /\ subscribers' = [subscribers EXCEPT ![i] = {}]
    /\ entry' = entry \ {i}
    /\ atlas' = [p \in Pattern |-> IF atlas[p] = i THEN NoEntry ELSE atlas[p]]
    /\ subIds' = [t \in Session |-> subIds[t] \ {i}]
    /\ UNCHANGED <<open, pattern, nextSub>>

(* _removeSubscription, of any session and id. *)
RemoveSubscription(s, i) ==
    /\ Leave(s, {i} \cap entry)
    /\ DropEmpty(s, {i} \cap entry)
    /\ subIds' = IF i \in entry /\ s \in open
                 THEN [subIds EXCEPT ![s] = @ \ {i}] ELSE subIds
    /\ UNCHANGED <<open, pattern, nextSub>>

(* Mutant of CloseStoreSession: its subscriptions stay. *)
CloseStoreSessionOnly(s) ==
    /\ open' = open \ {s}
    /\ subIds' = [subIds EXCEPT ![s] = {}]
    /\ UNCHANGED <<entry, pattern, subscribers, atlas, nextSub>>

(* _closeSession, which removes the subscriptions of the session. *)
CloseStoreSession(s) ==
    LET ids == IF s \in open THEN subIds[s] \cap entry ELSE {} IN
    /\ open' = open \ {s}
    /\ Leave(s, ids)
    /\ DropEmpty(s, ids)
    /\ subIds' = [subIds EXCEPT ![s] = {}]
    /\ UNCHANGED <<pattern, nextSub>>

StoreNext ==
    \E s \in Session : \/ \E p \in Pattern : AddSubscription(s, p)
                       \/ \E i \in SubId : RemoveSubscription(s, i)
                       \/ CloseStoreSession(s)

StoreSpec == StoreInit /\ [][StoreNext]_storeVars
-----------------------------------------------------------------------------
(* The three places agree: an open session lists exactly the entries it is *)
(* a subscriber of, only open sessions are subscribers, an entry has one,  *)
(* and the atlas leads to each entry by its pattern and to nothing else.   *)
SubscriptionsAgree ==
    /\ \A s \in open : subIds[s] = {i \in entry : s \in subscribers[i]}
    /\ \A i \in entry : /\ subscribers[i] # {}
                        /\ subscribers[i] \subseteq open
                        /\ atlas[pattern[i]] = i
    /\ \A p \in Pattern : atlas[p] # NoEntry =>
          atlas[p] \in entry /\ pattern[atlas[p]] = p
=============================================================================
