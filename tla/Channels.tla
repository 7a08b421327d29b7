------------------------------ MODULE Channels ------------------------------
(***************************************************************************)
(* The models of one provider channel and which of them is its default:    *)
(* ChannelService (backend/services/channel_service.py) and its handlers   *)
(* in backend/api/system.py, each a transaction of its own, with the       *)
(* discovery of the provider's models (provider_discovery_service.py)      *)
(* awaited in the middle of one.                                           *)
(*                                                                         *)
(* The default is kept twice: provider_channels.default_model_name, which  *)
(* may name a model that is not listed, and the is_default flag of the     *)
(* rows of provider_channel_models, which the settings pages offer first.  *)
(***************************************************************************)
EXTENDS Naturals, FiniteSets

CONSTANTS
  Admins,        \* requests that run at the same time
  Models,        \* names of models
  MaxLists       \* bound: lists of models ever written

ASSUME ChannelsAssumption == MaxLists \in Nat /\ Models # {}

VARIABLES
  channelDefault, \* provider_channels.default_model_name, as committed
  listed,         \* [model -> [list, flag]]: the row of the list it belongs to, 0 for none
  admin,          \* the transaction of each request
  channelInfo     \* [lists, overlapped]: lists written so far; history

channelVars == <<channelDefault, listed, admin, channelInfo>>

ListedRow == [list : 0..MaxLists, flag : BOOLEAN]
NotListed == [list |-> 0, flag |-> FALSE]
Flagged == {m \in Models : listed[m].flag}
\* wanted: the default asked for; found: the models that come; chosen: the one to flag;
\* rows: those to delete or to flag anew, as they were read
IdleAdmin == [pc |-> "idle", loaded |-> CHOOSE m \in Models : TRUE, wanted |-> {},
              found |-> {}, chosen |-> {}, rows |-> {}, holdsRow |-> FALSE, list |-> 0]
AdminPhase == {"idle", "loaded", "flagging", "flagged", "discovering", "deleting", "replacing"}
ListedName == Models \X (1..MaxLists)
AdminRow == [pc : AdminPhase, loaded : Models, wanted : SUBSET Models, found : SUBSET Models,
             chosen : SUBSET Models, rows : SUBSET ListedName, holdsRow : BOOLEAN,
             list : 0..MaxLists]

\* row locks: the channel's after an UPDATE of its default, those of the list after an
\* UPDATE of their flags or a DELETE
ChannelRowFree(a) == \A b \in Admins \ {a} : ~ admin[b].holdsRow
RowsFree(a) == \A b \in Admins \ {a} :
                 admin[b].pc \in {"flagged", "replacing"} => admin[b].rows \cap admin[a].rows = {}
RowsOf(S) == {<<m, listed[m].list>> : m \in {n \in S : listed[n].list > 0}}
StillThere(rows) == rows \cap RowsOf(Models)
At(phases, a) == \E b \in Admins \ {a} : admin[b].pc \in phases
Overlaps(phases, a) == channelInfo' = [channelInfo EXCEPT !.overlapped = @ \/ At(phases, a)]

ChannelsInit ==
  /\ channelDefault = CHOOSE m \in Models : TRUE
  /\ listed = [m \in Models |-> NotListed]
  /\ admin = [a \in Admins |-> IdleAdmin]
  /\ channelInfo = [lists |-> 0, overlapped |-> FALSE]

\* update_channel is given a default; with a list of models it replaces the list as well,
\* without one only the flags
UpdateLoads(a) ==
  /\ admin[a].pc = "idle"
  /\ \E m \in Models :
       admin' = [admin EXCEPT ![a] = [IdleAdmin EXCEPT !.pc = "loaded", !.wanted = {m},
                                                       !.loaded = channelDefault]]
  /\ UNCHANGED <<channelDefault, listed, channelInfo>>

\* its flush writes the channel's row only if the default differs from the one loaded;
\* try_set_default_model then reads the list and looks for the model in it
UpdateReads(a) ==
  /\ admin[a].pc = "loaded"
  /\ LET changes == admin[a].wanted # {admin[a].loaded}
         known == {m \in admin[a].wanted : listed[m].list > 0}
         stale == {m \in Models : known # {} /\ listed[m].list > 0
                                    /\ listed[m].flag # (m \in known)}
     IN  /\ changes => ChannelRowFree(a)
         /\ admin' = [admin EXCEPT ![a].pc = "flagging", ![a].chosen = known,
                                   ![a].holdsRow = changes, ![a].rows = RowsOf(stale)]
  /\ Overlaps({"flagging", "flagged"}, a)
  /\ UNCHANGED <<channelDefault, listed>>

\* the flush of the flags; a row that was deleted meanwhile is a StaleDataError
UpdateFlags(a) ==
  /\ admin[a].pc = "flagging" /\ RowsFree(a)
  /\ StillThere(admin[a].rows) = admin[a].rows
  /\ admin' = [admin EXCEPT ![a].pc = "flagged"]
  /\ UNCHANGED <<channelDefault, listed, channelInfo>>

Finish(a) == admin' = [admin EXCEPT ![a] = IdleAdmin]
WriteDefault(a) ==
  channelDefault' = IF admin[a].holdsRow THEN CHOOSE m \in admin[a].wanted : TRUE
                    ELSE channelDefault

(* Mutant: the model is flagged and the others keep their flags. *)
FlagOnly(a) ==
  /\ admin[a].pc = "flagged"
  /\ listed' = [m \in Models |-> [listed[m] EXCEPT !.flag = @ \/ m \in admin[a].chosen]]
  /\ WriteDefault(a)
  /\ Finish(a)
  /\ UNCHANGED channelInfo

UpdateCommits(a) ==
  /\ admin[a].pc = "flagged"
  /\ listed' = [m \in Models |->
                  IF <<m, listed[m].list>> \in admin[a].rows
                  THEN [listed[m] EXCEPT !.flag = m \in admin[a].chosen] ELSE listed[m]]
  /\ WriteDefault(a)
  /\ Finish(a)
  /\ UNCHANGED channelInfo

\* refresh_channel_models reads the channel and waits for the provider; a provider that
\* cannot be reached ends it
RefreshLoads(a) ==
  /\ admin[a].pc = "idle"
  /\ admin' = [admin EXCEPT ![a] = [IdleAdmin EXCEPT !.pc = "discovering",
                                                     !.loaded = channelDefault]]
  /\ UNCHANGED <<channelDefault, listed, channelInfo>>

DiscoveryFails(a) ==
  /\ admin[a].pc = "discovering"
  /\ Finish(a)
  /\ UNCHANGED <<channelDefault, listed, channelInfo>>

\* the DELETE of the old list finds the rows it will delete
ReplaceBegins(a, default, models, holds) ==
  /\ channelInfo.lists < MaxLists
  /\ admin' = [admin EXCEPT ![a].pc = "deleting", ![a].wanted = default, ![a].found = models,
                 ![a].chosen = default \cap models, ![a].rows = RowsOf(Models),
                 ![a].holdsRow = holds, ![a].list = channelInfo.lists + 1]
  /\ channelInfo' = [lists |-> channelInfo.lists + 1,
                     overlapped |-> channelInfo.overlapped \/ At({"deleting", "replacing"}, a)]
  /\ UNCHANGED <<channelDefault, listed>>

\* the provider answers: the default that was loaded before the discovery is kept if it is
\* still offered, else the one discovery suggests is taken
RefreshReplaces(a) ==
  /\ admin[a].pc = "discovering"
  /\ \E models \in SUBSET Models :
       IF admin[a].loaded \in models
       THEN ReplaceBegins(a, {admin[a].loaded}, models, FALSE)
       ELSE IF models = {} THEN ReplaceBegins(a, {admin[a].loaded}, {}, FALSE)
       ELSE \E suggested \in models : ReplaceBegins(a, {suggested}, models, FALSE)

\* create_channel and update_channel with the models the form discovered before; the
\* channel's row is flushed first
ListReplaces(a) ==
  /\ admin[a].pc = "loaded"
  /\ LET changes == admin[a].wanted # {admin[a].loaded}
     IN  /\ changes => ChannelRowFree(a)
         /\ \E models \in SUBSET Models : ReplaceBegins(a, admin[a].wanted, models, changes)

\* the DELETE has its locks, the default and the new rows are flushed
ReplaceFlushes(a) ==
  /\ admin[a].pc = "deleting" /\ RowsFree(a)
  /\ LET changes == admin[a].wanted # {admin[a].loaded}
     IN  /\ changes => ChannelRowFree(a)
         /\ admin' = [admin EXCEPT ![a].pc = "replacing", ![a].holdsRow = changes]
  /\ UNCHANGED <<channelDefault, listed, channelInfo>>

\* the commit; a name that another list has inserted meanwhile violates
\* uq_channel_model_name
ReplaceCommits(a) ==
  /\ admin[a].pc = "replacing"
  /\ LET kept == {m \in Models : listed[m].list > 0 /\ <<m, listed[m].list>> \notin admin[a].rows}
     IN  IF kept \cap admin[a].found # {}
         THEN UNCHANGED <<channelDefault, listed>>
         ELSE /\ listed' = [m \in Models |->
                   IF m \in admin[a].found
                   THEN [list |-> admin[a].list, flag |-> m \in admin[a].chosen]
                   ELSE IF m \in kept THEN listed[m] ELSE NotListed]
              /\ WriteDefault(a)
  /\ Finish(a)
  /\ UNCHANGED channelInfo

\* an error of the provider, the database or the client: the transaction is rolled back
RequestDies(a) ==
  /\ admin[a].pc \in {"loaded", "flagging", "flagged", "deleting", "replacing"}
  /\ Finish(a)
  /\ UNCHANGED <<channelDefault, listed, channelInfo>>

ChannelsNext ==
  \E a \in Admins :
    \/ UpdateLoads(a) \/ UpdateReads(a) \/ UpdateFlags(a) \/ UpdateCommits(a)
    \/ RefreshLoads(a) \/ DiscoveryFails(a) \/ RefreshReplaces(a) \/ ListReplaces(a)
    \/ ReplaceFlushes(a) \/ ReplaceCommits(a) \/ RequestDies(a)
ChannelsSpec == ChannelsInit /\ [][ChannelsNext]_channelVars

(****************************** properties ********************************)

ChannelsTypeOK ==
  /\ channelDefault \in Models
  /\ listed \in [Models -> ListedRow]
  /\ admin \in [Admins -> AdminRow]
  /\ channelInfo \in [lists : 0..MaxLists, overlapped : BOOLEAN]

\* A channel has one default: as long as no two requests replaced its list, and no two
\* moved its flags, at the same time, at most one model is flagged, and
\* get_default_channel_model finds at most one row -- however changes of the default are
\* interleaved with refreshes that wait for the provider and replace the list under them.
OneDefault == ~ channelInfo.overlapped => Cardinality(Flagged) <= 1
=============================================================================
