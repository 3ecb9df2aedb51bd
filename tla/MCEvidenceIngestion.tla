------------------------ MODULE MCEvidenceIngestion ------------------------
(* Instances of EvidenceIngestion: one source, two generations of a plan in *)
(* which the path 1 moves from group 1 to group 2 and a second group        *)
(* appears between the same devices, a plan that is refused, and records    *)
(* that name their subject in the ways resolve_subject() tells apart.       *)
EXTENDS EvidenceIngestion

CONSTANTS s,    \* a source
          a, b  \* devices

MCLimits == [devices |-> 2, links |-> 1, paths |-> 2, groups |-> 2, members |-> 1,
             hops |-> 1]

Descriptor(authority) == [source |-> s, authority |-> authority, surface |-> "real"]

Hop(index, device) == [index |-> index, device |-> device, port |-> 1, link |-> None]

\* What an observer reports of a path it names by generation, group, path, ends.
Record(sequence, generation, group, path, ends) ==
    [source |-> s, sequence |-> sequence, authority |-> 2, surface |-> "real",
     well_formed |-> TRUE, hops |-> <<Hop(0, a)>>,
     generation |-> generation, group |-> group, path |-> path, ends |-> ends]

\* The second descriptor is weaker than the first; the third is invalid.
MCDescriptors == {Descriptor(2), Descriptor(1), Descriptor(0)}
MCOneDescriptor == {Descriptor(2)}

Path(id, generation, group) ==
    [id |-> id, generation |-> generation, group |-> group, hops |-> <<Hop(0, a)>>]
Group(id, member) == [id |-> id, ends |-> <<a, b>>, members |-> <<member>>]

\* The third plan has a group whose member says that it is in another group.
MCPlans ==
    {[id |-> 1, topology |-> 1, paths |-> <<Path(1, 1, 1)>>, groups |-> <<Group(1, 1)>>],
     [id |-> 2, topology |-> 1, paths |-> <<Path(2, 2, 1), Path(1, 2, 2)>>,
      groups |-> <<Group(2, 1), Group(1, 2)>>],
     [id |-> 2, topology |-> 1, paths |-> <<Path(1, 2, 1)>>, groups |-> <<Group(2, 1)>>]}

MCEvidence ==
    {Record(1, 1, None, 1, None),                  \* by path
     Record(2, 1, 1, None, None),                  \* by group
     Record(3, None, None, None, <<a, b>>),        \* by its ends, in any plan
     [Record(4, 1, 1, None, None) EXCEPT !.hops = <<Hop(0, None)>>]}  \* not valid

\* Records that name their generation, in the order they are sent.
MCNamed == {Record(1, 1, None, 1, None), Record(2, 1, None, None, <<a, b>>)}

MCUnnamed == {Record(1, 1, 1, None, None), Record(2, None, None, 1, None),
              Record(3, 2, None, 1, None)}
=============================================================================
