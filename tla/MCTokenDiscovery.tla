--------------------------- MODULE MCTokenDiscovery --------------------------
(* Three chains: a token traded in the block after its creation, a block   *)
(* in which two creations and a fee split cross, and one that fills the    *)
(* map of managers.                                                        *)
EXTENDS TokenDiscovery
CONSTANTS t1, t2, t3

\* A token, and trades of it in the next block.
Creation == <<<<"PoolCreated", t1>>>>
Trading == <<<<"Transfer", t1>>, <<"Fees", t1>>>>

\* Another token is created between a creation and the fee split of its
\* manager; a swap follows in the same block.
Crossed == <<<<"PoolCreated", t1>>, <<"ManagerDeployed", t1>>, <<"PoolCreated", t2>>,
             <<"FeeSplit", t1>>, <<"Swap", t1>>>>

\* One manager more than the cap; two of them split fees at once.
Deploying == <<<<"ManagerDeployed", t1>>, <<"ManagerDeployed", t2>>, <<"FeeSplit", t2>>,
               <<"ManagerDeployed", t3>>, <<"FeeSplit", t3>>>>

MCChains == {<<Creation, Trading>>, <<Crossed>>, <<Deploying>>}
=============================================================================
