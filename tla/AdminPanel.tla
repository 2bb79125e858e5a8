----------------------------- MODULE AdminPanel -----------------------------
(***************************************************************************)
(* Admin panels (public/admin.html) at work on the content API of Content. *)
(* A panel loads a section through the public, cached GET, shows it for    *)
(* editing, puts the whole section back and loads again; visitors use the  *)
(* same GETs meanwhile. Nothing tells a panel how old the content is that  *)
(* it shows, and a save stores all of it.                                  *)
(*                                                                         *)
(* A section is the set of those items in it that are kept track of: edits *)
(* add some, so that an item which is gone again was not meant to go. A    *)
(* panel does one thing at a time, and its bodies can be read.             *)
(***************************************************************************)
EXTENDS Content

CONSTANTS
  Panels,  \* the requests that come from admin panels, one at a time each
  Items,   \* what is edited into the section and kept track of
  Page,    \* the endpoint that panels load the section from
  Edited   \* the section that they edit

Place == CHOOSE i \in DOMAIN Reads(Page) : Reads(Page)[i] = Edited

ASSUME PanelAssumption ==
  /\ Panels \subseteq Requests
  /\ Page \in Keys \ {"languages"}
  /\ Edited \in Range(Reads(Page)) /\ Edited \notin Lists
  /\ Bodies = SUBSET Items /\ ZeroValue = {}

VARIABLES
  phase,      \* phase[p]: "closed", "open", or "reload" after a save
  page,       \* page[p]: the section as p has it in its state
  pending,    \* pending[p]: the edits typed into p since page[p] was loaded
  announced,  \* history: the edits announced as saved and in the database since
  relied      \* history: those of them that page[p] should show

panelVars == <<phase, page, pending>>
noteVars == <<announced, relied>>
allVars == <<vars, panelVars, noteVars>>

PanelTypeOK ==
  /\ phase \in [Panels -> {"closed", "open", "reload"}]
  /\ page \in [Panels -> SUBSET Items]
  /\ pending \in [Panels -> SUBSET Items]
  /\ announced \subseteq Items
  /\ relied \in [Panels -> SUBSET Items]

PanelInit ==
  /\ Init
  /\ phase = [p \in Panels |-> "closed"]
  /\ page = [p \in Panels |-> {}]
  /\ pending = [p \in Panels |-> {}]
  /\ announced = {}
  /\ relied = [p \in Panels |-> {}]

RelyOn(p, edits) == relied' = [relied EXCEPT ![p] = edits]

-----------------------------------------------------------------------------
(* A wrong variant of Show below, in no specification: the page shows what *)
(* came, without a default for what did not come.                          *)
ShowRaw(p, v) ==
  /\ page' = [page EXCEPT ![p] = v]
  /\ phase' = [phase EXCEPT ![p] = "open"]
  /\ pending' = [pending EXCEPT ![p] = {}]
  /\ RelyOn(p, relied[p])
  /\ UNCHANGED announced

-----------------------------------------------------------------------------
(* fetchAllData: a GET, after a login and after every save. *)

(* If there is an entry that a GET filled with what it had read before a   *)
(* Flush, nothing can be relied on.                                        *)
Load(p) ==
  /\ phase[p] \in {"closed", "reload"}
  /\ StartGet(p, Page)
  /\ RelyOn(p, IF Place \in tainted[Page] THEN {} ELSE announced)
  /\ UNCHANGED <<panelVars, announced>>

LoadMisses(p) ==
  /\ Miss(p)
  /\ RelyOn(p, announced)
  /\ UNCHANGED <<panelVars, announced>>

LoadReads(p) ==
  /\ QueryOk(p) \/ QueryFails(p)
  /\ UNCHANGED <<panelVars, noteVars>>

(* The page is rendered anew with what came. A failed query that the       *)
(* handler ignored looks like an empty section.                            *)
Show(p, v) ==
  /\ page' = [page EXCEPT ![p] = IF v = Lost THEN ZeroValue ELSE v]
  /\ phase' = [phase EXCEPT ![p] = "open"]
  /\ pending' = [pending EXCEPT ![p] = {}]
  /\ RelyOn(p, IF v = Lost THEN {} ELSE relied[p])
  /\ UNCHANGED announced

LoadHits(p) == AnswerFromCache(p) /\ \E e \in held[p] : Show(p, e.value[Place])

LoadFills(p) == Fill(p) /\ Show(p, got[p][Place])

(* "Error loading data": one of the three GETs that are sent together was  *)
(* refused, failed or lost. What was shown and typed stays.                *)
LoadFails(p) ==
  /\ AnswerFromCache(p) \/ Fill(p)
  /\ phase' = [phase EXCEPT ![p] = IF @ = "reload" THEN "open" ELSE @]
  /\ RelyOn(p, {})
  /\ UNCHANGED <<page, pending, announced>>

-----------------------------------------------------------------------------
(* saveSite to saveSidepanel: everything on the page is put back. *)

Save(p, edits) ==
  /\ phase[p] = "open"
  /\ StartPut(p, Edited, page[p] \cup pending[p] \cup edits)
  /\ pending' = [pending EXCEPT ![p] = @ \cup edits]
  /\ UNCHANGED <<phase, page, noteVars>>

(* What is no longer in the database is not relied on any more. *)
Notice ==
  /\ announced' = announced \cap db'[Edited]
  /\ relied' = [p \in Panels |-> relied[p] \cap db'[Edited]]

SaveCommits(p) ==
  /\ WriteOk(p) \/ WriteUnreported(p)
  /\ Notice
  /\ UNCHANGED panelVars

(* apiCall throws and no save catches it: nothing is shown, neither an     *)
(* error nor "saved", and the page and the editor stay as they are.        *)
SaveFails(p) ==
  /\ WriteFails(p)
  /\ UNCHANGED <<panelVars, noteVars>>

(* The save is answered 200 and announced; fetchAllData comes next. *)
SaveAnnounced(p) ==
  /\ FlushCache(p)
  /\ announced' = announced \cup (pending[p] \cap db[Edited])
  /\ phase' = [phase EXCEPT ![p] = "reload"]
  /\ UNCHANGED <<page, pending, relied>>

(* The answer is lost, and the panel shows an error. *)
SaveUnheard(p) ==
  /\ FlushCache(p)
  /\ UNCHANGED <<panelVars, noteVars>>

-----------------------------------------------------------------------------
(* Another tab and back, or an element added or removed: the editor is     *)
(* rendered anew from the panel's state, without what was typed.           *)
Rerender(p) ==
  /\ phase[p] = "open" /\ At(p, "idle")
  /\ pending[p] # {}
  /\ pending' = [pending EXCEPT ![p] = {}]
  /\ UNCHANGED <<vars, phase, page, noteVars>>

(* Logout, a 401 for an expired token, or the browser's page is closed. *)
Leave(p) ==
  /\ phase[p] = "open" /\ At(p, "idle")
  /\ phase' = [phase EXCEPT ![p] = "closed"]
  /\ page' = [page EXCEPT ![p] = {}]
  /\ pending' = [pending EXCEPT ![p] = {}]
  /\ RelyOn(p, {})
  /\ UNCHANGED <<vars, announced>>

Panel(p) ==
  \/ Load(p)
  \/ LoadHits(p)
  \/ LoadMisses(p)
  \/ LoadReads(p)
  \/ LoadFills(p)
  \/ LoadFails(p)
  \/ \E edits \in SUBSET Items : Save(p, edits)
  \/ SaveCommits(p)
  \/ SaveFails(p)
  \/ SaveAnnounced(p)
  \/ SaveUnheard(p)
  \/ Rerender(p)
  \/ Leave(p)

Others ==
  /\ (\E r \in Requests \ Panels : Get(r)) \/ Evict \/ Elapse
  /\ UNCHANGED <<panelVars, noteVars>>

PanelNext == (\E p \in Panels : Panel(p)) \/ Others

PanelSpec == PanelInit /\ [][PanelNext]_allVars

-----------------------------------------------------------------------------
(* A save takes no edit out of the database that was announced before its  *)
(* panel asked for the page it shows, unless the panel kept an older page  *)
(* because that load failed, was given an ignored failure of the query, or *)
(* an entry that a GET had read before a Flush and stored after it. The    *)
(* other ways in which the cache is stale never reach the database         *)
(* (admin.html, fetchAllData and the saves; handlers.go, adminPUT, which   *)
(* flushes before it answers).                                             *)
UndoneOnlyIfExcused ==
  [][\A p \in Panels :
       At(p, "write") /\ ~At(p, "write")' => relied[p] \subseteq db'[Edited]]_allVars

(* public/admin.html:154: "Side panel saved", and saved it stays while     *)
(* nobody takes it out again.                                              *)
SavedStays == [][announced \subseteq announced']_allVars
=============================================================================
