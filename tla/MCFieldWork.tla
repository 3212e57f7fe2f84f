---------------------------- MODULE MCFieldWork ----------------------------
\* Two jobs that may overlap, with open and closed appointments.
EXTENDS FieldWork, TLC

MCWindows == {<<1, NoOne>>, <<1, 3>>, <<2, NoOne>>}

MCSymmetry == Permutations(Jobs) \cup Permutations(Items) \cup Permutations(Techs)
                \cup Permutations(Desks)

=============================================================================
