--------------------------- MODULE MCPipelineHost ---------------------------
EXTENDS PipelineHost

=============================================================================
