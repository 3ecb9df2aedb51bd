------------------------ MODULE MCObservationSession ------------------------
\* ObservationSession for TLC: three nodes and a service that serves two.
EXTENDS ObservationSession

MCNodes == {"n1", "n2", "n3"}

\* Two records, a record that does not decode, garbage.
MCProgram == [n \in MCNodes |->
    CASE n = "n1" -> <<"Hello", "Evidence", "Evidence">>
      [] n = "n2" -> <<"Hello", "Malformed">>
      [] n = "n3" -> <<"Garbage">>]
=============================================================================
