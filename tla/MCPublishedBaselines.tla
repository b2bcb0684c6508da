------------------------- MODULE MCPublishedBaselines -------------------------
EXTENDS MCFilterPipeline, PublishedBaselines
=============================================================================
