----------------------------- MODULE YPBackends ------------------------------
(***************************************************************************)
(* add_backend_impl: the growth of the array of backend implementations.   *)
(* The array is reallocated to num_backend_types bytes, not to as many     *)
(* pointers; malloc rounds a request up to the usable size of a chunk, so  *)
(* the first writes land in padding.                                       *)
(***************************************************************************)
EXTENDS Naturals

CONSTANTS
  PointerSize,  \* sizeof(YP_backend_impl*)
  MinChunk,     \* usable bytes of the smallest chunk malloc returns
  ChunkStep,    \* by how many bytes larger chunks grow
  MaxBackends   \* how many backends the application registers

VARIABLES
  num_backend_types,  \* elements in use
  requested,          \* bytes last asked of realloc
  written             \* end of the highest byte written so far

backendVars == <<num_backend_types, requested, written>>

BackendsInit == num_backend_types = 0 /\ requested = 0 /\ written = 0

add_backend_impl ==
  /\ num_backend_types < MaxBackends
  /\ num_backend_types' = num_backend_types + 1
  /\ requested' = num_backend_types'
  /\ written' = PointerSize * num_backend_types'

BackendsSpec == BackendsInit /\ [][add_backend_impl]_backendVars

(* What malloc makes usable when it is asked for so many bytes.            *)
Usable(bytes) ==
  IF bytes <= MinChunk THEN MinChunk
  ELSE MinChunk + ChunkStep * ((bytes - MinChunk + ChunkStep - 1) \div ChunkStep)

(* "array of pointers to backend types", num_backend_types of them: every  *)
(* pointer stored lies inside the memory realloc gave.                     *)
PointersFit == written <= Usable(requested)
=============================================================================
