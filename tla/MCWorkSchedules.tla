-------------------------- MODULE MCWorkSchedules --------------------------
\* Plans that differ in one respect each: distance, end and start.
EXTENDS WorkSchedules

MCPlans == {<<0, 1, Never>>, <<0, 2, Never>>, <<0, 1, 1>>, <<1, 1, Never>>}

=============================================================================
