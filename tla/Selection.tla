------------------------------ MODULE Selection -----------------------------
(***************************************************************************)
(* Messages to the actors a path selects: src/actor/selection.rs (new, the *)
(* walks of try_tell and sys_tell), `select` of ActorSystem and Context,   *)
(* and what the walk meets in src/actor/actor_ref.rs and actor_cell.rs.    *)
(* The walk holds no lock for long: actors end and are created under it.   *)
(*                                                                         *)
(* A path is a sequence of tokens: "/", "..", "*", "!" for text that is    *)
(* not allowed, and words.  A name is a sequence of words, for taking a    *)
(* part out of a path joins what was before and after it.                  *)
(***************************************************************************)
EXTENDS Naturals, Sequences, SequencesExt

CONSTANTS Actor,        \* references, each for one life of an actor
          BigBang,      \* the parent of root, which has no kernel
          Root,         \* the parent of the guardians
          User, Sysm, Temp,  \* SysActors: /user, /system and /temp
          Parent,       \* [Actor \ {BigBang} -> Actor]
          Name,         \* [Actor \ {BigBang} -> names]
          MsgType,      \* [Actor -> the type of message an actor takes]
          Alive,        \* actors that are up in the initial state
          Selectors,    \* who selects: "system", or an actor in a callback
          Paths,        \* the paths they select
          Types         \* the types of message they try to tell

TopLevel == {User, Sysm, Temp}
Guardians == {BigBang, Root} \cup TopLevel

ASSUME TreeAssumption ==
    /\ Guardians \subseteq Alive /\ Alive \subseteq Actor
    /\ Parent \in [Actor \ {BigBang} -> Actor]
    /\ Parent[Root] = BigBang /\ \A a \in TopLevel : Parent[a] = Root
    /\ Root # BigBang /\ BigBang \notin TopLevel /\ Root \notin TopLevel
    /\ \A a \in Actor \ Guardians : Parent[a] \notin {BigBang, Root}
    /\ \A a \in Alive \ {BigBang} : Parent[a] \in Alive
    /\ \A a, b \in Alive \ {BigBang, Root} :
          Parent[a] = Parent[b] /\ Name[a] = Name[b] => a = b
    /\ \A a \in Guardians : MsgType[a] = "SystemMsg"

(* validate_name, and the name that create_root gives.                     *)
ASSUME NameAssumption ==
    /\ Name[User] = <<"user">>
    /\ \A a \in Actor \ {BigBang} : Name[a] # <<>>

ASSUME PathAssumption == Paths \subseteq Seq(STRING)

ASSUME SelectorAssumption ==
    /\ Selectors \subseteq {"system"} \cup (Actor \ Guardians)
    /\ "system" \notin Actor

(* The actors that parent may list; nothing lists root.                    *)
ChildrenOf(parent) == {c \in Actor \ {BigBang, Root} : Parent[c] = parent}
Names == {Name[c] : c \in Actor \ {BigBang, Root}}

-----------------------------------------------------------------------------
(* The parts of a path                                                     *)

Absolute(path) == path # <<>> /\ Head(path) = "/"

(* format!("{}/", anchor.path()) for the guardian of /user.                *)
AnchorPath == <<"/", "user", "/">>

(* path.replace(&anchor_path, ""): every occurrence goes, from the left,   *)
(* and none is found across a former one.  `kept` is what is left of the   *)
(* path up to the last occurrence, `text` what has been read since.        *)
Replace(before, token) ==
    LET text == Append(before.text, token)
    IN  IF IsSuffix(AnchorPath, text)
           THEN [kept |-> before.kept \o SubSeq(text, 1, Len(text) - Len(AnchorPath)),
                 text |-> <<>>]
           ELSE [kept |-> before.kept, text |-> text]

WithoutAnchor(path) ==
    LET read[n \in 0..Len(path)] ==
            IF n = 0 THEN [kept |-> <<>>, text |-> <<>>]
                     ELSE Replace(read[n - 1], path[n])
    IN  read[Len(path)].kept \o read[Len(path)].text

(* split('/'): a "/" begins a part, anything else goes on with the last.   *)
Cut(segs, token) ==
    IF token = "/" THEN Append(segs, <<>>)
                   ELSE Append(Front(segs), Append(Last(segs), token))

Split(path) ==
    LET read[n \in 0..Len(path)] ==
            IF n = 0 THEN << <<>> >> ELSE Cut(read[n - 1], path[n])
    IN  read[Len(path)]

(* split_terminator('/'): an empty last part does not count.               *)
Segments(path) == LET segs == Split(path)
                  IN  IF Last(segs) = <<>> THEN Front(segs) ELSE segs

IsParent(seg) == seg = <<"..">>
IsAllChildren(seg) == seg = <<"*">>
IsChildName(seg) == ~IsParent(seg) /\ ~IsAllChildren(seg)

(* validate_path                                                           *)
ValidPath(path) == path # <<>> /\ "!" \notin ToSet(path)

-----------------------------------------------------------------------------
VARIABLES
    born,       \* the actors created so far
    open,       \* those whose mailbox is open
    freed,      \* open ones that are ending, their path free already
    children,   \* Children.actors: the references an actor lists
    ended,      \* closed actors whose parent has not handled the event yet
    pc,         \* of the selector: none, invalid, selected, then the walk:
                \* walk, all, named, done or panicked
    selection,  \* ActorSelection, and the path and the selector it is from
    op,         \* try_tell of a type of message, or sys_tell
    anchor, path_vec,  \* the walk: where it is, and the segments ahead
    unvisited,  \* names whose place in the map is still to be visited
    child,      \* the child found by name
    told,       \* messages put into the mailboxes of each actor
    stable      \* history: actors up, and listed, since the walk began

tree == <<born, open, freed, children, ended>>
walk == <<anchor, path_vec, unvisited, child>>
vars == <<tree, pc, selection, op, walk, told, stable>>

NotTold == [a \in Actor |-> [user |-> 0, sys |-> 0]]

Init ==
    /\ born = Alive /\ open = Alive /\ freed = {}
    /\ children = [a \in Actor |-> ChildrenOf(a) \cap Alive]
    /\ ended = {}
    /\ pc = "none"
    /\ selection = [anchor |-> User, path_vec |-> <<>>, path |-> <<>>, by |-> "system"]
    /\ op = [how |-> "try_tell", type |-> "SystemMsg"]
    /\ anchor = User /\ path_vec = <<>> /\ unvisited = {} /\ child = User
    /\ told = NotTold
    /\ stable = {}

-----------------------------------------------------------------------------
(* The tree meanwhile                                                      *)

(* create_actor under a path that is free; a former bearer may still be    *)
(* listed, and its mailbox open: the new actor takes its place.            *)
Create(c) ==
    /\ c \notin born
    /\ \A d \in open \ (freed \cup {BigBang}) :
          <<Parent[d], Name[d]>> # <<Parent[c], Name[c]>>
    /\ Parent[c] \in open \ freed
    /\ born' = born \cup {c}
    /\ open' = open \cup {c}
    /\ children' = [children EXCEPT ![Parent[c]] =
                        {d \in @ : Name[d] # Name[c]} \cup {c}]
    /\ UNCHANGED <<freed, ended, pc, selection, op, walk, told, stable>>

(* terminate_actor, when the children are gone: the path is free ...       *)
Unregister(a) ==
    /\ a \in open \ (freed \cup Guardians)
    /\ children[a] = {}
    /\ freed' = freed \cup {a}
    /\ stable' = stable \ {a}
    /\ UNCHANGED <<born, open, children, ended, pc, selection, op, walk, told>>

(* ... then the mailbox is dropped ...                                     *)
End(a) ==
    /\ a \in freed
    /\ freed' = freed \ {a}
    /\ open' = open \ {a}
    /\ ended' = ended \cup {a}
    /\ UNCHANGED <<born, children, pc, selection, op, walk, told, stable>>

(* ... and in time the parent's death_watch removes whoever has the name.  *)
DeathWatch(a) ==
    /\ a \in ended
    /\ ended' = ended \ {a}
    /\ LET gone == {d \in children[Parent[a]] : Name[d] = Name[a]}
       IN  /\ children' = [children EXCEPT ![Parent[a]] = @ \ gone]
           /\ stable' = stable \ gone
    /\ UNCHANGED <<born, open, freed, pc, selection, op, walk, told>>

-----------------------------------------------------------------------------
(* select and ActorSelection::new                                          *)

(* An absolute path hangs from /user and loses its prefix; a relative one  *)
(* hangs from /user, or from the actor that selects (Context::select).     *)
AnchorFor(by, path) == IF Absolute(path) \/ by = "system" THEN User ELSE by

(* A select that leaves an absolute path as it is.                         *)
PathStr_whole(path) == path

PathStr(path) == IF Absolute(path) THEN WithoutAnchor(path) ELSE path

(* One selection per behaviour: selections share nothing but the tree.     *)
Select(by, path) ==
    /\ pc = "none"
    /\ by = "system" \/ by \in open \ freed
    /\ \/ /\ ~ValidPath(PathStr(path))
          /\ pc' = "invalid"
          /\ UNCHANGED selection
       \/ /\ ValidPath(PathStr(path))
          /\ pc' = "selected"
          /\ selection' = [anchor |-> AnchorFor(by, path),
                           path_vec |-> Segments(PathStr(path)),
                           path |-> path, by |-> by]
    /\ UNCHANGED <<tree, op, walk, told, stable>>

-----------------------------------------------------------------------------
(* try_tell and sys_tell: two walks that differ in how they deliver        *)

TryTellWalk == [Parent |-> "try_tell", AllChildren |-> "try_tell"]

(* A sys_tell that is a copy of try_tell.                                  *)
SysTellWalk_tries == [Parent |-> "try_tell", AllChildren |-> "try_tell"]

SysTellWalk == [Parent |-> "sys_tell", AllChildren |-> "sys_tell"]

Delivery(kind) == IF op.how = "try_tell" THEN TryTellWalk[kind] ELSE SysTellWalk[kind]

(* AnyMessage::take: the message is of the type the actor's mailbox holds. *)
Takes(a) == MsgType[a] = op.type

(* BasicActorRef::try_tell of the message at hand returns Ok.              *)
TryTellOk(a) == a \in open /\ Takes(a)

(* A try_tell whose result is not looked at, or a sys_tell.                *)
Deliver(a, how) ==
    told' = CASE how = "try_tell" /\ TryTellOk(a) -> [told EXCEPT ![a].user = @ + 1]
              [] how = "sys_tell" /\ a \in open -> [told EXCEPT ![a].sys = @ + 1]
              [] OTHER -> told

(* Listed by its parent, open and not about to end.                        *)
IsUp(a) == a \in open \ freed /\ (a \in Guardians \/ a \in children[Parent[a]])

Tell(how, type) ==
    /\ pc \in {"selected", "done"}
    /\ op' = [how |-> how, type |-> type]
    /\ anchor' = selection.anchor
    /\ path_vec' = selection.path_vec
    /\ pc' = "walk"
    /\ told' = NotTold
    /\ stable' = {a \in Actor : IsUp(a)}
    /\ child' = selection.anchor
    /\ UNCHANGED <<tree, selection, unvisited>>

TryTell(type) == Tell("try_tell", type)

SysTell == Tell("sys_tell", "SystemMsg")

(* The children of the anchor that bear the name: one at most.             *)
Listed(name) == {c \in children[anchor] : Name[c] = name}

AtSegment == pc = "walk" /\ path_vec # <<>>
IsLast == Len(path_vec) = 1

(* Some(Selection::Parent): only BigBang has no parent, and only BigBang   *)
(* has no kernel to tell.                                                  *)
WalkParent ==
    /\ AtSegment /\ IsParent(Head(path_vec))
    /\ \/ /\ anchor = BigBang \/ (anchor = Root /\ IsLast)
          /\ pc' = "panicked"
          /\ UNCHANGED <<anchor, path_vec, told>>
       \/ /\ anchor # BigBang /\ anchor # Root /\ IsLast
          /\ Deliver(Parent[anchor], Delivery("Parent"))
          /\ pc' = "done"
          /\ UNCHANGED <<anchor, path_vec>>
       \/ /\ anchor # BigBang /\ ~IsLast
          /\ anchor' = Parent[anchor]
          /\ path_vec' = Tail(path_vec)
          /\ UNCHANGED <<pc, told>>
    /\ UNCHANGED <<tree, selection, op, unvisited, child, stable>>

(* Some(Selection::AllChildren): what is ahead in the path is not used.    *)
WalkAllChildren ==
    /\ AtSegment /\ IsAllChildren(Head(path_vec))
    /\ unvisited' = Names
    /\ pc' = "all"
    /\ UNCHANGED <<tree, selection, op, anchor, path_vec, child, told, stable>>

(* A walk that unwraps the result for each of the children.                *)
VisitChild_unwraps(name) ==
    /\ pc = "all" /\ name \in unvisited
    /\ unvisited' = unvisited \ {name}
    /\ LET found == Listed(name)
       IN  \/ found = {} /\ UNCHANGED <<pc, told>>
           \/ \E c \in found :
                 \/ TryTellOk(c) /\ Deliver(c, "try_tell") /\ UNCHANGED pc
                 \/ ~TryTellOk(c) /\ pc' = "panicked" /\ UNCHANGED told
    /\ UNCHANGED <<tree, selection, op, anchor, path_vec, child, stable>>

(* An iteration in which an actor may be met again.                        *)
VisitChild_again(name) ==
    /\ pc = "all" /\ name \in unvisited
    /\ LET found == Listed(name)
       IN  \/ unvisited' = unvisited \ {name} /\ UNCHANGED told
           \/ \E c \in found : Deliver(c, Delivery("AllChildren")) /\ UNCHANGED unvisited
    /\ UNCHANGED <<tree, pc, selection, op, anchor, path_vec, child, stable>>

(* The iterator goes over the map part by part: it visits the place of     *)
(* each name once, under the lock of that part, and tells the child it     *)
(* finds there.                                                            *)
VisitChild(name) ==
    /\ pc = "all" /\ name \in unvisited
    /\ unvisited' = unvisited \ {name}
    /\ LET found == Listed(name)
       IN  \/ found = {} /\ UNCHANGED told
           \/ \E c \in found : Deliver(c, Delivery("AllChildren"))
    /\ UNCHANGED <<tree, pc, selection, op, anchor, path_vec, child, stable>>

(* An iteration that is repeated until every child took the message.       *)
AllVisited_retries ==
    /\ pc = "all" /\ unvisited = {}
    /\ LET untold == {c \in children[anchor] : told[c].user + told[c].sys = 0}
       IN  /\ unvisited' = {Name[c] : c \in untold}
           /\ pc' = IF untold = {} THEN "done" ELSE "all"
    /\ UNCHANGED <<tree, selection, op, anchor, path_vec, child, told, stable>>

AllVisited ==
    /\ pc = "all" /\ unvisited = {}
    /\ pc' = "done"
    /\ UNCHANGED <<tree, selection, op, walk, told, stable>>

(* A lookup that takes any child.                                          *)
WalkChildName_any ==
    /\ AtSegment /\ IsChildName(Head(path_vec))
    /\ LET found == children[anchor]
       IN  \/ found = {} /\ pc' = "done" /\ UNCHANGED <<anchor, path_vec, child>>
           \/ \E c \in found :
                 \/ IsLast /\ pc' = "named" /\ child' = c
                    /\ UNCHANGED <<anchor, path_vec>>
                 \/ ~IsLast /\ anchor' = c /\ path_vec' = Tail(path_vec)
                    /\ UNCHANGED <<pc, child>>
    /\ UNCHANGED <<tree, selection, op, unvisited, told, stable>>

(* Some(Selection::ChildName): the child that bears the name now, if any.  *)
WalkChildName ==
    /\ AtSegment /\ IsChildName(Head(path_vec))
    /\ LET found == Listed(Head(path_vec))
       IN  \/ found = {} /\ pc' = "done" /\ UNCHANGED <<anchor, path_vec, child>>
           \/ \E c \in found :
                 \/ IsLast /\ pc' = "named" /\ child' = c
                    /\ UNCHANGED <<anchor, path_vec>>
                 \/ ~IsLast /\ anchor' = c /\ path_vec' = Tail(path_vec)
                    /\ UNCHANGED <<pc, child>>
    /\ UNCHANGED <<tree, selection, op, unvisited, told, stable>>

(* try_tell(msg).unwrap(), of a system message too: the lookup let go of   *)
(* the map, and the child may have ended since.                            *)
TellNamed ==
    /\ pc = "named"
    /\ \/ TryTellOk(child) /\ Deliver(child, "try_tell") /\ pc' = "done"
       \/ ~TryTellOk(child) /\ pc' = "panicked" /\ UNCHANGED told
    /\ UNCHANGED <<tree, selection, op, walk, stable>>

WalkStep == \/ WalkParent \/ WalkAllChildren \/ WalkChildName \/ TellNamed
            \/ AllVisited \/ \E name \in Names : VisitChild(name)

Next == \/ \E a \in Actor : Create(a) \/ Unregister(a) \/ End(a) \/ DeathWatch(a)
        \/ \E by \in Selectors, path \in Paths : Select(by, path)
        \/ \E type \in Types : TryTell(type)
        \/ SysTell
        \/ WalkStep

(* The thread inside a walk goes on.                                       *)
Fairness == WF_vars(WalkStep)

Spec == Init /\ [][Next]_vars /\ Fairness

-----------------------------------------------------------------------------
(* What lies between two "/" is text.                                      *)
Part == Seq(STRING)

(* Types: an actor that is stable is up, and nobody is told twice in one   *)
(* walk, although actors come and go under the iterator (selection.rs).    *)
TypeOK ==
    /\ open \subseteq born /\ born \subseteq Actor /\ ended \subseteq born \ open
    /\ children \in [Actor -> SUBSET Actor]
    /\ pc \in {"none", "invalid", "selected", "walk", "all", "named", "done", "panicked"}
    /\ selection \in [anchor : Actor \ {BigBang}, path_vec : Seq(Part),
                      path : Paths \cup {<<>>}, by : Selectors \cup {"system"}]
    /\ op \in [how : {"try_tell", "sys_tell"}, type : Types \cup {"SystemMsg"}]
    /\ anchor \in Actor /\ path_vec \in Seq(Part)
    /\ child \in Actor /\ unvisited \subseteq Names
    /\ told \in [Actor -> [user : 0..1, sys : 0..1]]
    /\ freed \subseteq open \ Guardians /\ stable \subseteq open \ freed

(* What a segment means, whoever bears the names.                          *)
SegLeads(a, seg, b) ==
    CASE IsParent(seg) -> a # BigBang /\ b = Parent[a]
      [] IsAllChildren(seg) -> b \in ChildrenOf(a)
      [] OTHER -> b \in ChildrenOf(a) /\ Name[b] = seg

(* The ways along the first n segments, through the actors in `among`.     *)
Ways(from, segs, n, among) ==
    {w \in [0..n -> Actor] :
        /\ w[0] = from
        /\ \A i \in 1..n : w[i] \in among /\ SegLeads(w[i - 1], segs[i], w[i])}

(* A path ends at its first "*".                                           *)
Ends(segs) == {n \in 1..Len(segs) :
                  /\ \A i \in 1..n - 1 : ~IsAllChildren(segs[i])
                  /\ n = Len(segs) \/ IsAllChildren(segs[n])}

(* The actors to which the selection leads through those in `among`.       *)
Named(among) ==
    UNION {{w[n] : w \in Ways(selection.anchor, selection.path_vec, n, among)} :
              n \in Ends(selection.path_vec)}

EndsInName == \E n \in Ends(selection.path_vec) : IsChildName(selection.path_vec[n])

Copies(a) == told[a].user + told[a].sys

(* A message goes only to actors to which the selection leads, once to     *)
(* each, and to their system mailbox only in sys_tell (selection.rs walk). *)
OnlySelected ==
    \A a \in Actor : Copies(a) > 0 =>
        /\ a \in Named(Actor)
        /\ Copies(a) = 1
        /\ told[a].sys > 0 => op.how = "sys_tell"

(* Takes the message, if it is told in the way the walk tells it.          *)
Suits(a) == Takes(a) \/ (op.how = "sys_tell" /\ ~EndsInName)

(* An actor to which the selection leads, that was up all along and with   *)
(* it every actor on the way, gets the message although others end and are *)
(* created meanwhile (selection.rs walk over Children).                    *)
StableReached ==
    pc = "done" => \A a \in Named(stable) : Suits(a) => Copies(a) = 1

(* The caller panics only if the path leads above the root, or ends in the *)
(* name of an actor that ended during the walk, or one before it did, or   *)
(* that does not take the message; sys_tell tells a named actor in the     *)
(* same way, so it panics for every actor but a guardian (selection.rs     *)
(* unwrap, actor_cell.rs parent and kernel).                               *)
PanicsExplained ==
    pc = "panicked" =>
        \/ \E n \in 1..Len(selection.path_vec) :
              \E w \in Ways(selection.anchor, selection.path_vec, n, Actor) :
                  w[n] = BigBang
        \/ EndsInName /\ \E a \in Named(Actor) : a \notin stable \/ ~Takes(a)

(* What a path means as it is written: an absolute one leads from the      *)
(* root, any other from the selector, and what follows a "*" is nothing.   *)
Extent(segs) ==
    LET stars == {i \in DOMAIN segs : IsAllChildren(segs[i])}
    IN  IF stars = {} THEN Len(segs) ELSE Min(stars)

LeadTo(from, segs, among) ==
    LET reached[n \in 0..Extent(segs)] ==
            IF n = 0 THEN {from}
            ELSE LET before == reached[n - 1]
                 IN  {b \in among : \E a \in before : SegLeads(a, segs[n], b)}
    IN  reached[Extent(segs)]

Selected(among) ==
    LET segs == Segments(selection.path)
    IN  IF Absolute(selection.path) THEN LeadTo(Root, Tail(segs), among)
        ELSE LeadTo(IF selection.by = "system" THEN User ELSE selection.by, segs, among)

(* "/user/" comes again after the prefix, and is taken out there too.      *)
RepeatsUser(path) == \E i \in 4..Len(path) - 2 : SubSeq(path, i, i + 2) = AnchorPath

(* A path below the guardian of /user, as all actors' paths are.           *)
BelowUser(path) == ~Absolute(path) \/ (IsPrefix(AnchorPath, path) /\ ~RepeatsUser(path))

(* The anchor and the parts made of a path lead to no actor but those the  *)
(* path means, unless "/user/" comes twice in it, and to all of them if it *)
(* is a path below /user (system.rs and actor_cell.rs select,              *)
(* ActorSelection::new).                                                   *)
PathMeans ==
    pc \in {"selected", "done", "panicked"} =>
        /\ ~RepeatsUser(selection.path) => Named(Actor) \subseteq Selected(Actor)
        /\ BelowUser(selection.path) => Selected(stable) \subseteq Named(stable)

(* Every walk comes to its end, though actors come and go under it         *)
(* (selection.rs walk).                                                    *)
WalkEnds == pc = "walk" ~> pc \in {"done", "panicked"}

=============================================================================
