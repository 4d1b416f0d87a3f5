------------------------- MODULE MCManagementRuntime -------------------------
(* Values for the constants of ManagementRuntime. *)
EXTENDS ManagementRuntime

AllRequests == {"add_node", "remove_node", "create_sub_cluster", "delete_sub_cluster",
                "add_node_to_sub_cluster", "remove_node_from_sub_cluster", "set_metadata"}
=============================================================================
