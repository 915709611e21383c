---------------------------- MODULE MCPackageInput ----------------------------
(***************************************************************************)
(* TLC instance of PackageInput: an anchor and deltas of one or two blocks.  *)
(***************************************************************************)
EXTENDS PackageInput

Says(accounts, slots, codes) == [accounts |-> accounts, storage |-> slots, codes |-> codes]
Plan(first, blocks) == [first |-> first, blocks |-> blocks]
Quiet == Says(<< >>, << >>, << >>)

MCPlans ==
    {Plan(0, <<Says(<< <<1, TRUE>>, <<2, TRUE>> >>, << <<1, 0, 1>>, <<1, 0, 2>> >>, <<1>>)>>),
     Plan(1, <<Says(<< <<1, FALSE>>, <<2, TRUE>> >>, << >>, <<1>>),
               Says(<< <<1, TRUE>> >>, << <<1, 1, 1>> >>, <<2>>)>>),
     Plan(2, <<Quiet, Says(<< >>, << <<1, 0, 2>>, <<2, 0, 1>> >>, << >>)>>)}
===============================================================================
