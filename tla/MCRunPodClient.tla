--------------------------- MODULE MCRunPodClient ---------------------------
EXTENDS RunPodClient

\* Every set of fields, bare or in the envelope.
MCPayloads == {[direct |-> f, envelope |-> Nothing] : f \in Fields}
              \cup {[direct |-> Nothing, envelope |-> f] : f \in Fields}
MCAudio == {p \in MCPayloads : ~FieldsOf(p).error /\ FieldsOf(p).url}
=============================================================================
