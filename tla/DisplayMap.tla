------------------------------ MODULE DisplayMap ------------------------------
(***************************************************************************)
(* From the display map two control panels confirm to the workspace their   *)
(* daemons compile: validate_display_layout, selected_cross_host_edge and   *)
(* build_config of setup.rs on each host, then compile_workspace and        *)
(* transition of kvm-topology/configured.rs.  Each host calls itself local  *)
(* and the other one peer.                                                  *)
(*                                                                          *)
(* Lengths are whole units and touching is exact, so that both programs'    *)
(* tolerances (0.001 and 1e-9) are zero.  A position on an edge is counted  *)
(* in quarters of its length.                                               *)
(***************************************************************************)
EXTENDS Integers, FiniteSets, FiniteSetsExt

CONSTANTS Desk,       \* [host |-> its displays], identifiers are ordered
          Sizes,      \* what the displays measure: a set of [display |-> [w, h]]
          MaxX, MaxY  \* bound: coordinates of a map

VARIABLES layout,     \* the map: [display |-> [x, y]], or the empty one
          size,       \* [display |-> [w, h]]
          config,     \* what each panel wrote
          workspace,  \* what each daemon compiled
          crossing    \* the last transition of a pointer

mapVars == <<layout, size, config, workspace, crossing>>

Hosts == DOMAIN Desk
Other(h) == CHOOSE o \in Hosts : o # h
Displays == UNION {Desk[h] : h \in Hosts}

Layouts == [Displays -> [x : 0 .. MaxX, y : 0 .. MaxY]]
Nothing(why) == [is |-> why, placements |-> <<>>, links |-> {}]
NoCrossing == [from |-> 0, edge |-> "None", at |-> 0, to |-> 0, point |-> <<0, 0>>]

MapInit ==
    /\ layout \in Layouts \union {<<>>}
    /\ size \in Sizes
    /\ config = [h \in Hosts |-> Nothing("none")] /\ workspace = [h \in Hosts |-> Nothing("none")]
    /\ crossing = NoCrossing

-----------------------------------------------------------------------------
\* Rectangles.

Min2(a, b) == IF a < b THEN a ELSE b
Max2(a, b) == IF a > b THEN a ELSE b
Right(m, d) == m[d].x + size[d].w
Bottom(m, d) == m[d].y + size[d].h
HorizontalOverlap(m, d, e) == Min2(Right(m, d), Right(m, e)) - Max2(m[d].x, m[e].x)
VerticalOverlap(m, d, e) == Min2(Bottom(m, d), Bottom(m, e)) - Max2(m[d].y, m[e].y)

opposite == [Left |-> "Right", Right |-> "Left", Top |-> "Bottom", Bottom |-> "Top"]

-----------------------------------------------------------------------------
\* setup.rs

\* displays_left_to_right: the native order is that of the identifiers.
LeftOf(displays, d) == MapThenSumSet(LAMBDA e : size[e].w, {e \in displays : e < d})

\* default_display_layout: one row, the host on the left first.
default_display_layout(left, right) ==
    [d \in Displays |-> [x |-> IF d \in Desk[left] THEN LeftOf(Desk[left], d)
                               ELSE MapThenSumSet(LAMBDA e : size[e].w, Desk[left]) + LeftOf(Desk[right], d),
                         y |-> 0]]

validate_display_layout(m) ==
    \A d, e \in Displays : d # e => HorizontalOverlap(m, d, e) <= 0 \/ VerticalOverlap(m, d, e) <= 0

\* touching_edges: "None", or how the first display meets the second.
touching_edges(m, d, e) ==
    CASE VerticalOverlap(m, d, e) > 0 /\ Right(m, d) = m[e].x     -> "Right"
      [] VerticalOverlap(m, d, e) > 0 /\ m[d].x = Right(m, e)     -> "Left"
      [] HorizontalOverlap(m, d, e) > 0 /\ Bottom(m, d) = m[e].y  -> "Bottom"
      [] HorizontalOverlap(m, d, e) > 0 /\ m[d].y = Bottom(m, e)  -> "Top"
      [] OTHER -> "None"

Overlap(m, d, e) ==
    IF touching_edges(m, d, e) \in {"Left", "Right"} THEN VerticalOverlap(m, d, e)
    ELSE HorizontalOverlap(m, d, e)

Candidates(h, m) ==
    {c \in [local : Desk[h], remote : Desk[Other(h)]] : touching_edges(m, c.local, c.remote) # "None"}

\* The order of the candidates: the longer overlap, then the local identifier,
\* then the remote one.
Before(m, a, b) ==
    \/ Overlap(m, a.local, a.remote) > Overlap(m, b.local, b.remote)
    \/ /\ Overlap(m, a.local, a.remote) = Overlap(m, b.local, b.remote)
       /\ a.local < b.local \/ (a.local = b.local /\ a.remote <= b.remote)


selected_cross_host_edge(h, m) ==
    CHOOSE c \in Candidates(h, m) : \A o \in Candidates(h, m) : Before(m, c, o)

Link(m, d, e) == [from |-> d, from_edge |-> touching_edges(m, d, e),
                  to |-> e, to_edge |-> opposite[touching_edges(m, d, e)]]

Links(m, c) == {Link(m, c.local, c.remote),
                [from |-> c.remote, from_edge |-> opposite[touching_edges(m, c.local, c.remote)],
                 to |-> c.local, to_edge |-> touching_edges(m, c.local, c.remote)]}

\* build_config
build_config(h, m) ==
    IF ~validate_display_layout(m) \/ Candidates(h, m) = {} THEN Nothing("refused")
    ELSE [is |-> "written", placements |-> m, links |-> Links(m, selected_cross_host_edge(h, m))]

Leader == CHOOSE h \in Hosts : TRUE
ConfirmedMap == IF layout = <<>> THEN default_display_layout(Leader, Other(Leader)) ELSE layout

ConfigureWorkspace(h) ==
    /\ config[h].is = "none"
    /\ config' = [config EXCEPT ![h] = build_config(h, ConfirmedMap)]
    /\ UNCHANGED <<layout, size, workspace, crossing>>

-----------------------------------------------------------------------------
\* configured.rs

touches(m, d, e, edge) ==
    CASE edge = "Left"   -> Right(m, e) = m[d].x
      [] edge = "Right"  -> m[e].x = Right(m, d)
      [] edge = "Top"    -> Bottom(m, e) = m[d].y
      [] edge = "Bottom" -> m[e].y = Bottom(m, d)

Upright(edge) == edge \in {"Left", "Right"}

overlap_length(m, d, e, edge) ==
    IF Upright(edge) THEN VerticalOverlap(m, d, e) ELSE HorizontalOverlap(m, d, e)

LinkFits(m, l) ==
    l.to_edge = opposite[l.from_edge] /\ touches(m, l.from, l.to, l.from_edge)
    /\ overlap_length(m, l.from, l.to, l.from_edge) > 0

\* compile_workspace: every display placed, links that fit, one per edge.  The
\* protocol epoch is a digest of exactly this value.
compile_workspace(c) ==
    IF /\ DOMAIN c.placements = Displays
       /\ \A l \in c.links : LinkFits(c.placements, l)
       /\ \A l, k \in c.links : (l.from = k.from /\ l.from_edge = k.from_edge) => l = k
       /\ \A l, k \in c.links : (k.from = l.to /\ k.from_edge = l.to_edge) =>
                                    k.to = l.from /\ k.to_edge = l.from_edge
    THEN [c EXCEPT !.is = "compiled"] ELSE Nothing("failed")

CompileCandidate(h) ==
    /\ config[h].is = "written" /\ workspace[h].is = "none"
    /\ workspace' = [workspace EXCEPT ![h] = compile_workspace(config[h])]
    /\ UNCHANGED <<layout, size, config, crossing>>

Extent(d, edge) == IF Upright(edge) THEN size[d].h ELSE size[d].w
Start(m, d, edge) == IF Upright(edge) THEN m[d].y ELSE m[d].x

\* In quarters of a unit.
perpendicular_coordinate(m, d, edge, at) == 4 * Start(m, d, edge) + at * Extent(d, edge)

covers(m, e, edge, coordinate, terminal) ==
    /\ coordinate >= 4 * Start(m, e, edge)
    /\ \/ coordinate < 4 * (Start(m, e, edge) + Extent(e, edge))
       \/ terminal /\ coordinate = 4 * (Start(m, e, edge) + Extent(e, edge))

\* destination_point, in quarters, from the entry edge and the position.
Point(e, edge, at) ==
    CASE edge = "Left"   -> <<0, at * size[e].h>>
      [] edge = "Right"  -> <<4 * size[e].w, at * size[e].h>>
      [] edge = "Top"    -> <<at * size[e].w, 0>>
      [] edge = "Bottom" -> <<at * size[e].w, 4 * size[e].h>>

\* transition: by a configured link, where its destination covers the crossing.
transition(h, l, at) ==
    /\ l \in workspace[h].links
    /\ covers(workspace[h].placements, l.to, l.from_edge,
              perpendicular_coordinate(workspace[h].placements, l.from, l.from_edge, at), at = 4)
    /\ crossing' = [from |-> l.from, edge |-> l.from_edge, at |-> at, to |-> l.to,
                    point |-> Point(l.to, l.to_edge, at)]
    /\ UNCHANGED <<layout, size, config, workspace>>

\* A pointer crosses once: nothing depends on where it came from.
MapNext ==
    \E h \in Hosts :
        \/ ConfigureWorkspace(h) \/ CompileCandidate(h)
        \/ crossing = NoCrossing /\ \E at \in 0 .. 4, l \in workspace[h].links : transition(h, l, at)

-----------------------------------------------------------------------------
MapTypeOK ==
    /\ \A h \in Hosts : /\ config[h].is \in {"none", "refused", "written"}
                         /\ workspace[h].is \in {"none", "failed", "compiled"}
                         /\ config[h].is # "written" => workspace[h].is = "none"
    /\ crossing # NoCrossing => {crossing.from, crossing.to} \subseteq Displays

Longest(h, m) == {c \in Candidates(h, m) : \A o \in Candidates(h, m) :
                    Overlap(m, c.local, c.remote) >= Overlap(m, o.local, o.remote)}

Compiled == {h \in Hosts : workspace[h].is = "compiled"}

\* Both daemons compile, and compile the same workspace, from a map that one
\* pair of displays dominates: only then do they share a protocol epoch, and
\* accept each other's handoffs.
SeamIsShared ==
    /\ \A h \in Hosts : workspace[h].is # "failed"
    /\ \A g, h \in Compiled :
          Cardinality(Longest(h, workspace[h].placements)) = 1 => workspace[g] = workspace[h]

\* A pointer that crosses leaves through a stretch of edge the two displays
\* share: the place it comes from lies on the display it goes to.
CrossesAtTheSeam ==
    crossing # NoCrossing =>
        \E h \in Compiled :
            LET m == workspace[h].placements
                c == perpendicular_coordinate(m, crossing.from, crossing.edge, crossing.at)
            IN  c \in 4 * Start(m, crossing.to, crossing.edge) ..
                      4 * (Start(m, crossing.to, crossing.edge) + Extent(crossing.to, crossing.edge))
=============================================================================
