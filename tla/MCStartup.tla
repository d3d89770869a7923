----------------------------- MODULE MCStartup -----------------------------
(***************************************************************************)
(* The specifications and event files that Startup is checked on.          *)
(***************************************************************************)
EXTENDS Startup

Face(addrs, rs) == [addresses |-> addrs, routes |-> rs]
NodeSpec(id, faces) == [id |-> id, interfaces |-> faces]
To(dest, next, cost) == [destination |-> dest, next |-> next, cost |-> cost]
LinkSpec(id, s, t) == [id |-> id, source |-> s, target |-> t, delay |-> 1]
Spec(nodes, links, events) == [nodes |-> nodes, links |-> links, events |-> events]
Event(t, link, node, st, d) ==
  [time |-> t, link |-> link, node |-> node, status |-> st, delay |-> d,
   clear_buffer |-> node # "" /\ st = "down"]

\* Two nodes with two links from A to B and one back.  The ranges, the costs
\* and the end of a link vary; some of the links the routes need are missing.
RoutingInputs ==
  {Spec(<<NodeSpec("A", <<Face(<<dest>>, <<To(<<4, p>>, 5, c), To(<<5>>, 4, 1)>>),
                          Face(<<<<2, 3>>>>, <<To(<<4, 1>>, 6, d)>>)>>),
          NodeSpec("B", <<Face(<<<<5, 2>>, <<6, 2>>>>, <<To(<<0, 2>>, 1, 0)>>)>>)>>,
        <<LinkSpec("l1", 1, 5), LinkSpec("l2", 2, 6), LinkSpec("l3", 5, 1)>> \o extra, <<>>) :
     dest \in {<<1, 2>>, <<1, 3>>, <<1>>},
     p \in 1 .. 3, c \in 0 .. 2, d \in 0 .. 2,
     extra \in {<<>>, <<LinkSpec("l4", 1, 4)>>, <<LinkSpec("l4", 6, 1)>>}}

\* What the code refuses, one defect each, and the borderline cases
Base(faceA, faceB, idB, extra) ==
  Spec(<<NodeSpec("A", faceA), NodeSpec(idB, faceB)>>,
       <<LinkSpec("l1", 1, 5)>> \o extra, <<>>)

DefectInputs ==
  {Base(a, b, id, extra) :
     a \in {<<>>, <<Face(<<>>, <<>>)>>, <<Face(<<<<1, 2>>>>, <<>>), Face(<<>>, <<>>)>>,
            <<Face(<<<<1>>, <<1>>>>, <<>>)>>, <<Face(<<<<1, 0>>>>, <<>>)>>,
            <<Face(<<<<1, 4>>>>, <<>>)>>, <<Face(<<<<1, 3, 3>>>>, <<>>)>>,
            <<Face(<<<<8>>>>, <<>>)>>},
     b \in {<<Face(<<<<5>>>>, <<>>)>>, <<Face(<<<<5>>, <<1>>>>, <<>>)>>,
            <<Face(<<<<5>>>>, <<To(<<1, 0>>, 1, 0)>>)>>},
     id \in {"A", "B"},
     extra \in {<<>>, <<LinkSpec("l2", 1, 5)>>, <<LinkSpec("l1", 5, 1)>>}}
  \union {Spec(SubSeq(<<NodeSpec("A", <<Face(<<<<1>>>>, <<>>)>>)>>, 1, k), <<>>, <<>>) : k \in 0 .. 1}

Times == 0 .. 2
EventSet ==
  {Event(t, "l1", "", st, d) : t \in Times, st \in {"up", "down", "unchanged"}, d \in {-1, 2}}
  \union {Event(t, "", "B", st, -1) : t \in Times, st \in {"up", "down"}}
  \union {Event(1, "", "", "up", -1), Event(1, "l1", "B", "up", -1),
          Event(1, "l9", "", "up", -1), Event(0, "", "N9", "down", -1)}

EventInputs ==
  {[Base(<<Face(<<<<1, 3>>>>, <<>>)>>, <<Face(<<<<5>>>>, <<>>)>>, "B", <<>>)
      EXCEPT !.events = events] :
     events \in UNION {[1 .. k -> EventSet] : k \in 0 .. 2}
                \union [1 .. 3 -> {e \in EventSet : /\ e.link = "l1" /\ e.node = ""
                                                    /\ e.delay = -1
                                                    /\ e.status # "unchanged"}]}

MCInputs == RoutingInputs \union DefectInputs \union EventInputs
=============================================================================
